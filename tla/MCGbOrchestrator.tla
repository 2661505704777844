--------------------------- MODULE MCGbOrchestrator ---------------------------
(* A small instance of GbOrchestrator; the amounts are units, not to scale. *)
EXTENDS GbOrchestrator

MCTunables == {"governor", "swappiness", "watermark", "clocks", "power"}
MCSettings == {"kv", "safety", "workstation", "prefetch", "t3cap"}

MCOriginal ==
  [k \in MCTunables \cup MCSettings |->
     CASE k = "swappiness" -> 60 [] k = "watermark" -> 10 [] k = "power" -> 4
       [] k = "kv" -> 2 [] k = "safety" -> 1 [] OTHER -> 0]

MCGroups ==
  {{"phase", "busy", "gaming"}, {"throttle", "phase"}, {"kv", "phase"}, {"throttle", "kv", "dbe"},
   {"spilled", "temp", "dbe"}, {"kv", "temp"}, {"temp", "throttle"}, {"membw", "kv", "near"},
   {"mild", "kv"}, {"nonGb", "kv"}, {"psiMem", "phase"}, {"psiCpu", "phase"},
   {"psiIo", "t3p", "gaming"}, {"pcie", "gaming"}}

MCBroken == {{}, {"governor"}}
===============================================================================
