---------------------------- MODULE GbOrchestrator ----------------------------
(***************************************************************************)
(* The supervisor's control loops (src/gb_orchestrator.py): once per tick  *)
(* the daemon feeds what it measured to its Signals, in a fixed order, and *)
(* their callbacks move the levers of GbControl.  The daemon may be killed *)
(* at any point of a tick and is started again; the machine, the baseline  *)
(* file and the ECC flag outlive it, its memory does not.                  *)
(*                                                                         *)
(* A tick is one action, the composition of the loops as functions of a    *)
(* state record, so that a death in it is a prefix of the composition.     *)
(* Successive ticks are more than min_interval_s apart (the daemon sleeps  *)
(* POLL_SECS after one), so the rate limit only joins writes of one tick.  *)
(***************************************************************************)
EXTENDS GbReactive, GbControl

CONSTANTS
  OsTune,      \* GB_OS_TUNE
  Phases,      \* the phases that the shim reports
  Groups,      \* a set of sets of measurements: those of one of them vary in a behaviour
  Broken,      \* sets of levers whose writes may fail together
  KvStep, KvLever, KvFloor, KvDefault,  \* the orchestrator's step, the lever's, the floor, `or 512`
  Total, Weights,                       \* the card, and what of it is kept for weights
  WsStep, WsLever, WsCap,               \* Loop B's step, the lever's, and 25% of the card
  SafetyMax, PowerFloor, T3Size, T3Step, T3Floor, T3Lever,
  EnvelopeTicks,  \* _ENVELOPE_IDLE_S in ticks
  MaxDbe, MaxUpsets  \* bounds of the instance

PerfPhases == {"MODEL_LOAD", "INFERENCE", "STEADY"}
IdlePhases == {"IDLE", "DEEP_IDLE"}

Signals == {"throttle", "kv", "temp", "membw", "psiMem", "psiCpu", "psiIo", "pcie", "nonGb"}
Booleans == {"throttle", "pcie"}

\* _KV_CONFIRM and its like.
Confirm(s) == IF s \in {"temp", "pcie", "nonGb"} THEN 3 ELSE 2

\* Readings: 0 below a signal's exit, 1 between exit and enter, 2 from enter on.
Enter(s) == IF s \in Booleans THEN 1 ELSE 2
Exit(s) == 1
Readings(s) == IF s \in Booleans THEN 0..1 ELSE 0..2

Flags == {"busy", "spilled", "near", "mild", "gaming", "t3p"}
Inputs == Signals \cup Flags \cup {"phase", "dbe"}

ASSUME OrchestratorAssumption ==
  /\ Tunables = {"governor", "swappiness", "watermark", "clocks", "power"}
  /\ Settings = {"kv", "safety", "workstation", "prefetch", "t3cap"}
  /\ OsTune \in BOOLEAN
  /\ Groups \subseteq SUBSET Inputs
  /\ \A broken \in Broken : broken \subseteq Levers \ {"kv"}
  /\ {KvStep, KvLever, KvFloor, KvDefault, Total, Weights, WsStep, WsLever, WsCap} \subseteq Nat
  /\ {SafetyMax, PowerFloor, T3Size, T3Step, T3Floor, T3Lever, EnvelopeTicks} \subseteq Nat
  /\ {MaxDbe, MaxUpsets} \subseteq Nat
  /\ "INIT" \in Phases /\ Phases \subseteq STRING

VARIABLES
  st,       \* the orchestrator's memory, the machine and the files (below)
  m,        \* what the next tick measures
  moving,   \* the measurements that vary
  alive,    \* the daemon runs
  beat,     \* the parity of its ticks, by which the fairness tells them from other steps
  upsets    \* stops, deaths and failed writes so far

vars == <<st, m, moving, alive, beat, upsets>>

\* What a daemon that starts with the flag file `ecc` on the machine c knows.
Started(c, ecc) ==
  [sig |-> [s \in Signals |-> NewSignal], phase |-> "", gaming |-> FALSE, degraded |-> ecc > 0,
   eccSeen |-> ecc, ws |-> 0, engaged |-> FALSE, quiet |-> 0, t3 |-> FALSE, spilled |-> FALSE,
   aborted |-> FALSE, seen |-> 0, ecc |-> ecc, c |-> Forgotten(c)]

\* NVML reports a power limit, and the one it reports (nvmlDeviceGetPowerManagementLimit: the present one).
Limited == m.limit
Reported == st.c.hw["power"]

\* _os_tune_active.
Tuning(s) == OsTune /\ ~s.gaming

-----------------------------------------------------------------------------
(* Levers that several loops move.                                         *)

\* _t1_headroom_mb.
Headroom(s) == Total - Known(s.c, "kv", 0) - s.ws - Weights

\* The step of _do_kv_grow: half of it in the mild zone of Loop I.
GrowStep == IF m.mild THEN Most(KvStep \div 2, 1) ELSE KvStep

\* A lever of GbControl, and one with a step bound.
SetTo(s, k, v, b) == [s EXCEPT !.c = Lever(@, k, v, b)]
StepTo(s, k, v, step, b) == [s EXCEPT !.c = Step(@, k, v, step, b)]

SetKv(s, mb, b) == StepTo(s, "kv", mb, KvLever, b)

\* _do_kv_grow.
Grow(s, b) ==
  IF Headroom(s) <= 0 THEN s ELSE SetKv(s, Known(s.c, "kv", 0) + Least(GrowStep, Headroom(s)), b)

\* _on_kv_pressure_ok and _reclaim_kv_for_idle: down to `mb`, never up.
ShrinkKv(s, mb, b) == IF s.degraded \/ mb >= Known(s.c, "kv", 0) THEN s ELSE SetKv(s, mb, b)

\* The safety reserve one step up from what was last written.
RaiseSafety(s, b) ==
  StepTo(s, "safety", Least(SafetyMax, Known(s.c, "safety", 1) + 1), 1, b)

\* _step_gpu_power_limit: between half of the limit that the card reports and that limit.
PowerTarget(old, delta) == Most(PowerFloor, Most(Reported \div 2, Least(Reported, old + delta)))

StepPower(s, delta, b) ==
  IF ~Tuning(s) \/ ~Limited THEN s
  ELSE StepTo(s, "power", PowerTarget(Known(s.c, "power", Reported), delta), 1, b)

\* One Signal is fed with its reading.
Feed(s, name) ==
  [s EXCEPT !.sig[name] = Fed(@, m[name], Confirm(name), Enter(name), Exit(name))]

Enters(s, name) == Entered(s.sig[name], Feed(s, name).sig[name])
Leaves(s, name) == Left(s.sig[name], Feed(s, name).sig[name])

-----------------------------------------------------------------------------
(* The loops, in the order in which on_metrics feeds their Signals.        *)

\* The supervisor writes the flag file of the ECC count before it feeds the orchestrator.
Flagged(s) == IF m.dbe > s.seen THEN [s EXCEPT !.ecc = m.dbe, !.seen = m.dbe] ELSE s

\* Loop K without its look at ecc_degraded (mutant of DeferredGrow).
DeferredGrowAlways(s, b) ==
  IF s.sig["kv"].in /\ m.phase \notin IdlePhases \cup {"MODEL_LOAD"} THEN Grow(s, b) ELSE s

\* Loop K: the throttle has ended and the KV pressure that it kept from being answered is still there.
DeferredGrow(s, b) ==
  IF s.sig["kv"].in /\ ~s.degraded /\ m.phase \notin IdlePhases \cup {"MODEL_LOAD"} THEN Grow(s, b) ELSE s

\* Loop I and its part of Loop P.
Throttled(s, b) ==
  IF Enters(s, "throttle") THEN StepPower(Feed(s, "throttle"), -1, b)
  ELSE IF Leaves(s, "throttle") THEN DeferredGrow(StepPower(Feed(s, "throttle"), 1, b), b)
  ELSE Feed(s, "throttle")

\* Loop J: from INFERENCE to an idle phase.
Reclaimed(s, b) ==
  IF s.phase = "INFERENCE" /\ m.phase \in IdlePhases THEN ShrinkKv(s, KvFloor, b) ELSE s

EngagePower(s, b) == IF Limited THEN StepTo(s, "power", Most(PowerFloor, Reported), 1, b) ELSE s

\* The levers of the performance envelope, one after the other.
EngageLevers(s, b) ==
  EngagePower(SetTo(StepTo(SetTo(s, "governor", 1, b), "swappiness", 10, 20, b), "clocks", 1, b), b)

Engaged(s, b) == [EngageLevers(s, b) EXCEPT !.engaged = TRUE, !.quiet = 0]

\* The baseline is put back; when that raises, the envelope still counts as engaged.
Released(s, b) == [s EXCEPT !.c = Restore(@, b), !.engaged = @ /\ Raises(s.c)]

\* _apply_performance_envelope that leaves the envelope unmarked on MODEL_LOAD (mutant of Envelope).
EnvelopeUnmarked(s, phase, b) ==
  IF ~Tuning(s) THEN s
  ELSE IF phase = "MODEL_LOAD" THEN EngageLevers(s, b)
  ELSE IF phase \in PerfPhases THEN Engaged(s, b)
  ELSE IF phase \in IdlePhases THEN Released(s, b)
  ELSE s

\* Loop O, _apply_performance_envelope.
Envelope(s, phase, b) ==
  IF ~Tuning(s) THEN s
  ELSE IF phase \in PerfPhases THEN Engaged(s, b)
  ELSE IF phase \in IdlePhases THEN Released(s, b)
  ELSE s

\* The phase Signal and its pairs; an exception in a callback is swallowed there.
Phased(s, b) ==
  IF m.phase = s.phase THEN s
  ELSE [Envelope(Reclaimed(s, b), m.phase, b) EXCEPT !.phase = m.phase]

\* _maybe_release_envelope: an exception of restore_baseline leaves on_metrics here.
TimedOut(s, b) == [Envelope(s, "IDLE", b) EXCEPT !.aborted = Tuning(s) /\ Raises(s.c)]

Timed(s, b) ==
  IF ~s.engaged THEN s
  ELSE IF m.busy \/ m.phase \in PerfPhases THEN [s EXCEPT !.quiet = 0]
  ELSE IF s.quiet + 1 < EnvelopeTicks THEN [s EXCEPT !.quiet = @ + 1]
  ELSE TimedOut(s, b)

\* Loop A.
Degrade(s, b) ==
  [SetKv(RaiseSafety(s, b), Most(0, Known(s.c, "kv", KvDefault) - KvStep), b)
     EXCEPT !.eccSeen = m.dbe, !.degraded = TRUE, !.ecc = m.dbe]

Ecced(s, b) == IF m.dbe > s.eccSeen THEN Degrade(s, b) ELSE s

\* The gates of Loop C.
MayGrow(s) ==
  /\ ~s.degraded /\ ~s.sig["temp"].in /\ ~s.sig["membw"].in /\ ~s.sig["throttle"].in
  /\ ~(m.near /\ Limited)
  /\ m.phase \notin IdlePhases \cup {"MODEL_LOAD"}

\* Loop C, on the pressure of the KV cache.
Pressured(s, b) ==
  IF Enters(s, "kv") /\ MayGrow(s) THEN Grow(Feed(s, "kv"), b)
  ELSE IF Leaves(s, "kv") THEN ShrinkKv(Feed(s, "kv"), Most(KvFloor, Known(s.c, "kv", 0) - KvStep), b)
  ELSE Feed(s, "kv")

\* Loop C, on a spill: its Signal is only ever set to True, so that it notifies once.
Spilled(s, b) ==
  IF ~m.spilled \/ s.spilled THEN s
  ELSE IF s.degraded \/ m.phase \in IdlePhases THEN [s EXCEPT !.spilled = TRUE]
  ELSE Grow([s EXCEPT !.spilled = TRUE], b)

\* Loop D and its part of Loop P.
Hot(s, b) ==
  IF Enters(s, "temp") THEN StepPower(RaiseSafety(Feed(s, "temp"), b), -1, b)
  ELSE IF Leaves(s, "temp") THEN StepPower(Feed(s, "temp"), 1, b)
  ELSE Feed(s, "temp")

\* Loop G, and the gaming flag, which the loops before it read as it was in the tick before.
Gated(s) == [Feed(s, "membw") EXCEPT !.gaming = m.gaming]
Heated(s, b) == Gated(Hot(s, b))

\* Loop Q.
VmLevers(s, watermark, swappiness, b) ==
  StepTo(StepTo(s, "watermark", watermark, 50, b), "swappiness", swappiness, 20, b)

MemPressed(s, b) ==
  IF Tuning(s) /\ Enters(s, "psiMem") THEN VmLevers(Feed(s, "psiMem"), 150, 5, b)
  ELSE IF Tuning(s) /\ Leaves(s, "psiMem") THEN VmLevers(Feed(s, "psiMem"), 10, 10, b)
  ELSE Feed(s, "psiMem")

\* Loop R, on the pressure of the processor.
CpuPressed(s, b) ==
  IF Tuning(s) /\ Enters(s, "psiCpu") /\ m.phase \in PerfPhases
  THEN SetTo(Feed(s, "psiCpu"), "governor", 1, b)
  ELSE Feed(s, "psiCpu")

\* Loop R, on the pressure of the disk: the cap of T3 a step down, and up again to no cap (0).
T3Down(s, cap, b) ==
  IF Most(T3Floor, cap - T3Step) >= cap THEN s
  ELSE [StepTo(s, "t3cap", Most(T3Floor, cap - T3Step), T3Lever, b) EXCEPT !.t3 = TRUE]

T3Up(s, cap, b) ==
  IF cap <= 0 THEN [s EXCEPT !.t3 = FALSE]
  ELSE IF cap + T3Step >= T3Size
  THEN [StepTo(s, "t3cap", 0, T3Lever, b) EXCEPT !.t3 = FALSE]
  ELSE StepTo(s, "t3cap", cap + T3Step, T3Lever, b)

IoPressed(s, b) ==
  IF Tuning(s) /\ Enters(s, "psiIo") /\ m.t3p THEN T3Down(Feed(s, "psiIo"), Known(s.c, "t3cap", T3Size), b)
  ELSE IF Leaves(s, "psiIo") /\ s.t3 THEN T3Up(Feed(s, "psiIo"), Known(s.c, "t3cap", 0), b)
  ELSE Feed(s, "psiIo")

\* Loop S.
Linked(s, b) ==
  IF Tuning(s) /\ Enters(s, "pcie") THEN SetTo(Feed(s, "pcie"), "prefetch", 1, b)
  ELSE IF Tuning(s) /\ Leaves(s, "pcie") THEN SetTo(Feed(s, "pcie"), "prefetch", 0, b)
  ELSE Feed(s, "pcie")

\* Loop B: the reserve that it remembers is the one it asked for, once a call was applied.
Remember(s, c, mb) ==
  [s EXCEPT !.c = c, !.ws = IF Actuate /\ c.last["workstation"] # s.c.last["workstation"] THEN mb ELSE @]

SetWs(s, mb, b) == Remember(s, Step(s.c, "workstation", mb, WsLever, b), mb)

Yielded(s, b) ==
  IF Enters(s, "nonGb") THEN SetWs(Feed(s, "nonGb"), Least(WsCap, s.ws + WsStep), b)
  ELSE IF Leaves(s, "nonGb") THEN SetWs(Feed(s, "nonGb"), Most(0, s.ws - WsStep), b)
  ELSE Feed(s, "nonGb")

-----------------------------------------------------------------------------
(* A tick: the states after each of its loops, as sets of one state each.  *)

\* An exception that leaves on_metrics loses the rest of the tick.
Unless(s, next) == IF s.aborted THEN s ELSE next

AfterThrottle(b) == {Throttled(Flagged(s), b) : s \in {st}}
AfterPhase(b) == {Phased(s, b) : s \in AfterThrottle(b)}
AfterTimer(b) == {Timed(s, b) : s \in AfterPhase(b)}
AfterEcc(b) == {Unless(s, Ecced(s, b)) : s \in AfterTimer(b)}
AfterKv(b) == {Unless(s, Pressured(s, b)) : s \in AfterEcc(b)}
AfterSpill(b) == {Unless(s, Spilled(s, b)) : s \in AfterKv(b)}
AfterHeat(b) == {Unless(s, Heated(s, b)) : s \in AfterSpill(b)}
AfterMem(b) == {Unless(s, MemPressed(s, b)) : s \in AfterHeat(b)}
AfterCpu(b) == {Unless(s, CpuPressed(s, b)) : s \in AfterMem(b)}
AfterIo(b) == {Unless(s, IoPressed(s, b)) : s \in AfterCpu(b)}
AfterLink(b) == {Unless(s, Linked(s, b)) : s \in AfterIo(b)}
AfterTick(b) == {Unless(s, Yielded(s, b)) : s \in AfterLink(b)}

\* Where the daemon may be killed in a tick; after the last two loops is as good as between two ticks.
Points(b) ==
  UNION {{st}, AfterThrottle(b), AfterPhase(b), AfterTimer(b), AfterEcc(b), AfterKv(b), AfterSpill(b),
         AfterHeat(b), AfterMem(b), AfterCpu(b), AfterIo(b)}

-----------------------------------------------------------------------------
\* A card at rest, of which NVML reports a power limit or not.
Quietest(limit) ==
  [i \in Inputs \cup {"limit"} |->
     IF i = "limit" THEN limit ELSE IF i = "phase" THEN "INIT" ELSE IF i \in Flags THEN FALSE ELSE 0]

Init ==
  /\ \E limit \in BOOLEAN : m = Quietest(limit)
  /\ st = Started(Untouched, 0)
  /\ moving \in Groups
  /\ alive = TRUE
  /\ beat = 0
  /\ upsets = 0

\* The values that a measurement may have next; the driver counts double-bit errors up.
Values(i) ==
  IF i = "phase" THEN Phases
  ELSE IF i = "dbe" THEN m.dbe..Least(m.dbe + 1, MaxDbe)
  ELSE IF i \in Flags THEN BOOLEAN ELSE Readings(i)

Measure ==
  /\ \E i \in moving : \E v \in Values(i) : v # m[i] /\ m' = [m EXCEPT ![i] = v]
  /\ UNCHANGED <<st, moving, alive, beat, upsets>>

\* One tick of the supervisor, in which the writes of some levers may fail.
Tick ==
  /\ alive
  /\ \E b \in Broken :
       /\ b # {} => upsets < MaxUpsets
       /\ \E s \in AfterTick(b) : st' = [s EXCEPT !.c.recent = {}, !.aborted = FALSE]
       /\ upsets' = IF b = {} THEN upsets ELSE upsets + 1
  /\ beat' = 1 - beat
  /\ UNCHANGED <<m, moving, alive>>

\* SIGTERM, seen between two ticks: stop().
Stop ==
  /\ alive /\ upsets < MaxUpsets
  /\ alive' = FALSE
  /\ st' = Started(ResetClocks(st.c, {}), st.ecc)
  /\ upsets' = upsets + 1
  /\ UNCHANGED <<m, moving, beat>>

\* The daemon is killed; what it remembers is lost.
Die ==
  /\ alive /\ upsets < MaxUpsets
  /\ \E s \in Points({}) : st' = Started(s.c, s.ecc)
  /\ alive' = FALSE
  /\ upsets' = upsets + 1
  /\ UNCHANGED <<m, moving, beat>>

\* systemd starts it: the recovery writes "1" over the flag when the journal of the last half hour
\* names a double-bit error, and may have reloaded the driver, whose count starts from 0.
Start ==
  /\ ~alive
  /\ alive' = TRUE
  /\ \E ecc \in {st.ecc} \cup (IF st.ecc > 0 THEN {1} ELSE {}) : st' = Started(st.c, ecc)
  /\ \E dbe \in {m.dbe, 0} : m' = [m EXCEPT !.dbe = dbe]
  /\ UNCHANGED <<moving, beat, upsets>>

\* An administrator runs `greenboost tune-revert`.
Revert ==
  /\ st' = [st EXCEPT !.c = Reverted(@, {})]
  /\ st' # st
  /\ UNCHANGED <<m, moving, alive, beat, upsets>>

Next == Measure \/ Tick \/ Stop \/ Die \/ Start \/ Revert

\* The daemon's loop ticks for as long as it runs, and systemd starts it again.
Spec == Init /\ [][Next]_vars /\ WF_beat(alive /\ beat' = 1 - beat) /\ WF_alive(alive' = TRUE)

-----------------------------------------------------------------------------
StateOK == [sig : [Signals -> Signal], phase : Phases \cup {""}, gaming : BOOLEAN, degraded : BOOLEAN,
            eccSeen : Nat, ws : Int, engaged : BOOLEAN, quiet : Nat, t3 : BOOLEAN, spilled : BOOLEAN,
            aborted : BOOLEAN, seen : Nat, ecc : Nat, c : Control]

TypeOK == st \in StateOK /\ alive \in BOOLEAN /\ upsets \in 0..MaxUpsets /\ moving \in Groups

\* Whatever the loops, deaths, restarts and reverts did to the operating system and the card, the file
\* holds what each changed tunable was set to before GreenBoost touched it.
OriginalsKept == TypeOK /\ KeepsOriginals(st.c)

\* A daemon on a machine that has shown a double-bit error knows it, also when it was killed in the tick
\* that saw it and started again; from then on, no tick raises the KV reserve by any of the three ways to
\* grow it, and what it grew to before left the weights and the workstation their share of the card.
\* (The tick that sees a new error is left out: see EccShrinks.)
EccRatchet ==
  [][/\ alive' /\ st'.ecc > 0 => st'.degraded \/ Raises(st'.c)
     /\ alive /\ alive' /\ st'.eccSeen = st.eccSeen /\ st'.c.hw["kv"] > st.c.hw["kv"]
          => ~st.degraded /\ st'.c.hw["kv"] + st.ws + Weights <= Total]_vars

\* The card is idle and nobody plays, the daemon was never stopped or killed, and no write has failed.
Quiet == alive /\ upsets = 0 /\ ~m.busy /\ ~m.gaming /\ m.phase \notin PerfPhases

AsFound == \A k \in {"governor", "clocks"} : st.c.hw[k] = Original[k]

\* The performance envelope of a daemon that nothing happened to is given back when the card stays idle,
\* although an idle phase may never be written (the shim that would have written it is gone); as long as
\* restore_baseline does not raise.
EnvelopeGivenBack == <>[](Quiet /\ ~Raises(st.c)) => <>[]AsFound

\* "Restore every OS tunable to its captured pre-tune value": the same with a power limit among them.  It
\* does not hold: see the README.
EnvelopeAlwaysGivenBack == <>[]Quiet => <>[]AsFound

\* "raising safety reserve, shrinking KV reserve": the tick that sees a new double-bit error does not leave
\* the KV reserve larger.  It does not hold: see the README.
EccShrinks ==
  [][alive /\ alive' /\ st'.eccSeen > st.eccSeen => st'.c.hw["kv"] <= st.c.hw["kv"]]_vars

\* "Fully restores to 0 (disk-limited/no cap)": when Loop R has done with the cap of T3, there is none.  It
\* does not hold: see the README.
CapFullyRestored == [][alive /\ alive' /\ st.t3 /\ ~st'.t3 => st'.c.hw["t3cap"] = 0]_vars

===============================================================================
