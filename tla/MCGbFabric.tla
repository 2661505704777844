------------------------------ MODULE MCGbFabric -----------------------------
(* Two threads, one slot, one pointer that is used again, two values, room   *)
(* for two blocks on the feeder.                                             *)
EXTENDS GbFabric

CONSTANTS t1, t2, p1

MCDoes == [t \in {t1, t2} |->
  IF t = t1 THEN {"malloc", "malloc_tier", "h2d", "memset", "d2h", "free", "mem_info"}
  ELSE {"exec", "note"}]
==============================================================================
