-------------------------- MODULE GbSupervisorProofs --------------------------
(***************************************************************************)
(* What greenboost changed of the operating system and the card can always *)
(* be put back: the file holds the original value of whatever differs from *)
(* it, for every order of measurements, failed writes, deaths, restarts    *)
(* and reverts, and for every set of steps and bounds.                     *)
(*                                                                         *)
(* KeepsOriginals alone is not inductive: a first write captures what it   *)
(* finds, which is the original only if nothing was written before.  The   *)
(* invariant says that a tunable without an entry is as it was found, and  *)
(* that an entry is the original.                                          *)
(***************************************************************************)
EXTENDS GbOrchestrator, GbPhase, TLAPS

\* The baseline file is right, and what it has no entry for was never touched.
BaseOK(c) ==
  \A k \in Tunables :
    c.base[k] \in {None, Original[k]} /\ (c.base[k] = None => c.hw[k] = Original[k])

GoodControl == {c \in Control : BaseOK(c)}
Good == {s \in StateOK : s.c \in GoodControl}

Measurements ==
  {f \in [Inputs \cup {"limit"} -> Int \cup BOOLEAN \cup Phases] :
     /\ f["phase"] \in Phases /\ f["dbe"] \in Nat /\ f["limit"] \in BOOLEAN
     /\ \A i \in Signals : f[i] \in Int
     /\ \A i \in Flags : f[i] \in BOOLEAN}

IInv ==
  /\ st \in Good /\ m \in Measurements
  /\ alive \in BOOLEAN /\ upsets \in 0..MaxUpsets /\ moving \in Groups

-----------------------------------------------------------------------------
(* The actuator.                                                           *)

LEMMA KnownIsNumber ==
  ASSUME NEW c \in Control, NEW k \in Levers, NEW d \in Int
  PROVE  Known(c, k, d) \in Int
BY ControlAssumption DEF Known, Control

LEMMA CaptureKeeps ==
  ASSUME NEW c \in GoodControl, NEW k \in Levers
  PROVE  /\ Capture(c, k) \in GoodControl
         /\ k \in Tunables => Capture(c, k).base[k] # None
<1>1. CASE k \in Tunables /\ c.base[k] = None
  <2>1. Found(c, k) = Original[k]
    BY <1>1, ControlAssumption DEF GoodControl, BaseOK, Found
  <2>2. Original[k] \in Int
    BY ControlAssumption
  <2>3. Capture(c, k) \in Control
    BY <1>1, <2>1, <2>2 DEF Capture, GoodControl, Control
  <2>4. Capture(c, k).hw = c.hw /\ Capture(c, k).base = [c.base EXCEPT ![k] = Original[k]]
    BY <1>1, <2>1 DEF Capture, GoodControl, Control
  <2>5. BaseOK(Capture(c, k))
    BY <1>1, <2>4 DEF BaseOK, GoodControl, Control
  <2> QED BY <2>2, <2>3, <2>4, <2>5, <1>1, ControlAssumption DEF GoodControl, Control
<1>2. CASE ~(k \in Tunables /\ c.base[k] = None)
  BY <1>2 DEF Capture, GoodControl
<1> QED BY <1>1, <1>2

LEMMA NotedKeeps ==
  ASSUME NEW c \in GoodControl, NEW k \in Levers, NEW v \in Int
  PROVE  Noted(c, k, v) \in GoodControl
<1>1. Noted(c, k, v) \in Control
  BY DEF Noted, GoodControl, Control
<1>2. Noted(c, k, v).hw = c.hw /\ Noted(c, k, v).base = c.base
  BY DEF Noted, GoodControl, Control
<1> QED BY <1>1, <1>2 DEF GoodControl, BaseOK

\* A write of a lever that was captured before it, or that has no baseline.
LEMMA ApplyKeeps ==
  ASSUME NEW c \in GoodControl, NEW k \in Levers, NEW v \in Int, NEW b,
         k \in Tunables => c.base[k] # None
  PROVE  Apply(c, k, v, b) \in GoodControl
<1>1. CASE k \in b
  BY <1>1 DEF Apply
<1>2. CASE k \notin b
  <2> DEFINE d == [Noted(c, k, v) EXCEPT !.hw[k] = v]
  <2>0. Noted(c, k, v) \in Control
    BY NotedKeeps DEF GoodControl
  <2>1. d \in Control
    BY <2>0 DEF Control
  <2>2. d.base = c.base /\ d.hw = [c.hw EXCEPT ![k] = v]
    BY DEF Noted, GoodControl, Control
  <2>3. BaseOK(d)
    BY <2>2 DEF BaseOK, GoodControl, Control, Levers
  <2> QED BY <1>2, <2>1, <2>3 DEF Apply, GoodControl
<1> QED BY <1>1, <1>2

LEMMA LeverKeeps ==
  ASSUME NEW c \in GoodControl, NEW k \in Levers, NEW v \in Int, NEW b
  PROVE  Lever(c, k, v, b) \in GoodControl
BY CaptureKeeps, NotedKeeps, ApplyKeeps DEF Lever

LEMMA StepKeeps ==
  ASSUME NEW c \in GoodControl, NEW k \in Levers, NEW v \in Int, NEW step \in Int, NEW b
  PROVE  Step(c, k, v, step, b) \in GoodControl
<1>1. Bounded(c.last[k], v, step) \in Int
  BY ControlAssumption DEF Bounded, Most, Least, GoodControl, Control
<1> QED BY <1>1, LeverKeeps DEF Step

\* restore_baseline, from the daemon and from tune-revert.
LEMMA PutBackKeeps ==
  ASSUME NEW c \in GoodControl, NEW b
  PROVE  PutBack(c, b) \in GoodControl
<1> DEFINE d == PutBack(c, b)
<1>1. \A k \in Restorable(c) \ b : k \in Tunables /\ c.base[k] = Original[k] /\ c.base[k] # None
  BY DEF Restorable, GoodControl, BaseOK
<1>2. d.hw \in [Levers -> Int] /\ d.base = c.base
  BY <1>1, ControlAssumption DEF PutBack, GoodControl, Control
<1>3. d \in Control
  BY <1>2 DEF PutBack, GoodControl, Control
<1>4. BaseOK(d)
  BY <1>1, <1>2 DEF PutBack, GoodControl, Control, BaseOK, Levers
<1> QED BY <1>3, <1>4 DEF GoodControl

LEMMA ForgottenKeeps ==
  ASSUME NEW c \in GoodControl
  PROVE  Forgotten(c) \in GoodControl
<1>1. Forgotten(c) \in Control
  BY DEF Forgotten, GoodControl, Control
<1>2. Forgotten(c).hw = c.hw /\ Forgotten(c).base = c.base
  BY DEF Forgotten, GoodControl, Control
<1> QED BY <1>1, <1>2 DEF GoodControl, BaseOK

LEMMA RestoreKeeps ==
  ASSUME NEW c \in GoodControl, NEW b
  PROVE  Restore(c, b) \in GoodControl
<1>1. Restore(c, b) \in {PutBack(c, b), Forgotten(PutBack(c, b))}
  BY DEF Restore, Forgotten
<1> QED BY <1>1, PutBackKeeps, ForgottenKeeps

LEMMA ResetClocksKeeps ==
  ASSUME NEW c \in GoodControl, NEW b
  PROVE  ResetClocks(c, b) \in GoodControl
<1>0. "clocks" \in Tunables /\ "clocks" \in Levers /\ Original["clocks"] = Unlocked
  BY ControlAssumption DEF Levers
<1> DEFINE d == [c EXCEPT !.last["clocks"] = None]
<1> DEFINE e == [c EXCEPT !.last["clocks"] = None, !.hw["clocks"] = Unlocked]
<1>1. d \in GoodControl
  <2>1. d \in Control
    BY <1>0 DEF GoodControl, Control
  <2>2. d.base = c.base /\ d.hw = c.hw
    BY DEF GoodControl, Control
  <2> QED BY <2>1, <2>2 DEF GoodControl, BaseOK
<1>2. e \in GoodControl
  <2>1. e \in Control
    <3>1. e = [d EXCEPT !.hw["clocks"] = Unlocked]
      BY DEF GoodControl, Control
    <3>2. d \in Control /\ Unlocked \in Int
      BY <1>1 DEF GoodControl, Unlocked
    <3> HIDE DEF d, e
    <3> QED BY <1>0, <3>1, <3>2 DEF Control
  <2>2. e.base = c.base /\ e.hw = [c.hw EXCEPT !["clocks"] = Unlocked]
    BY DEF GoodControl, Control
  <2>3. BaseOK(e)
    BY <1>0, <2>2 DEF GoodControl, Control, BaseOK, Levers
  <2> QED BY <2>1, <2>3 DEF GoodControl
<1> QED BY <1>1, <1>2 DEF ResetClocks

-----------------------------------------------------------------------------
(* The loops.                                                              *)

LEMMA Amounts ==
  /\ KvStep \in Nat /\ KvLever \in Nat /\ KvFloor \in Nat /\ KvDefault \in Nat /\ Total \in Nat
  /\ Weights \in Nat /\ WsStep \in Nat /\ WsLever \in Nat /\ WsCap \in Nat /\ SafetyMax \in Nat
  /\ PowerFloor \in Nat /\ T3Size \in Nat /\ T3Step \in Nat /\ T3Floor \in Nat /\ T3Lever \in Nat
  /\ MaxDbe \in Nat /\ MaxUpsets \in Nat
BY OrchestratorAssumption

LEMMA LeverNames ==
  /\ "governor" \in Levers /\ "swappiness" \in Levers /\ "watermark" \in Levers
  /\ "clocks" \in Levers /\ "power" \in Levers /\ "kv" \in Levers /\ "safety" \in Levers
  /\ "workstation" \in Levers /\ "prefetch" \in Levers /\ "t3cap" \in Levers
BY OrchestratorAssumption DEF Levers

LEMMA WithControl ==
  ASSUME NEW s \in Good, NEW c \in GoodControl
  PROVE  [s EXCEPT !.c = c] \in Good
BY DEF Good, StateOK, GoodControl

LEMMA SetToKeeps ==
  ASSUME NEW s \in Good, NEW k \in Levers, NEW v \in Int, NEW b
  PROVE  SetTo(s, k, v, b) \in Good
<1>1. Lever(s.c, k, v, b) \in GoodControl
  BY LeverKeeps DEF Good
<1>2. SetTo(s, k, v, b) = [s EXCEPT !.c = Lever(s.c, k, v, b)]
  BY DEF SetTo
<1> QED BY <1>1, <1>2, WithControl

LEMMA StepToKeeps ==
  ASSUME NEW s \in Good, NEW k \in Levers, NEW v \in Int, NEW step \in Int, NEW b
  PROVE  StepTo(s, k, v, step, b) \in Good
<1>1. Step(s.c, k, v, step, b) \in GoodControl
  BY StepKeeps DEF Good
<1>2. StepTo(s, k, v, step, b) = [s EXCEPT !.c = Step(s.c, k, v, step, b)]
  BY DEF StepTo
<1> QED BY <1>1, <1>2, WithControl

LEMMA KnownHere ==
  ASSUME NEW s \in Good, NEW k \in Levers, NEW d \in Int
  PROVE  Known(s.c, k, d) \in Int
BY KnownIsNumber DEF Good, GoodControl

LEMMA SetKvKeeps ==
  ASSUME NEW s \in Good, NEW mb \in Int, NEW b
  PROVE  SetKv(s, mb, b) \in Good
BY StepToKeeps, LeverNames, Amounts DEF SetKv

LEMMA GrowKeeps ==
  ASSUME NEW s \in Good, NEW b
  PROVE  Grow(s, b) \in Good
<1>1. Known(s.c, "kv", 0) \in Int
  BY KnownHere, LeverNames
<1>2. s.ws \in Int
  BY DEF Good, StateOK
<1>3. Headroom(s) \in Int
  BY <1>1, <1>2, Amounts DEF Headroom
<1>4. GrowStep \in Int
  BY Amounts DEF GrowStep, Most
<1>5. Known(s.c, "kv", 0) + Least(GrowStep, Headroom(s)) \in Int
  BY <1>1, <1>3, <1>4 DEF Least
<1> QED BY <1>5, SetKvKeeps DEF Grow

LEMMA ShrinkKvKeeps ==
  ASSUME NEW s \in Good, NEW mb \in Int, NEW b
  PROVE  ShrinkKv(s, mb, b) \in Good
BY SetKvKeeps DEF ShrinkKv

LEMMA RaiseSafetyKeeps ==
  ASSUME NEW s \in Good, NEW b
  PROVE  RaiseSafety(s, b) \in Good
<1>1. Known(s.c, "safety", 1) \in Int
  BY KnownHere, LeverNames
<1>2. Least(SafetyMax, Known(s.c, "safety", 1) + 1) \in Int
  BY <1>1, Amounts DEF Least
<1> QED BY <1>2, StepToKeeps, LeverNames DEF RaiseSafety

LEMMA StepPowerKeeps ==
  ASSUME st \in Good, NEW s \in Good, NEW delta \in Int, NEW b
  PROVE  StepPower(s, delta, b) \in Good
<1>1. Reported \in Int
  BY LeverNames DEF Reported, Good, GoodControl, Control
<1>2. Known(s.c, "power", Reported) \in Int
  BY <1>1, KnownHere, LeverNames
<1>3. PowerTarget(Known(s.c, "power", Reported), delta) \in Int
  BY <1>1, <1>2, Amounts DEF PowerTarget, Most, Least
<1> QED BY <1>3, StepToKeeps, LeverNames DEF StepPower

LEMMA FedIsSignal ==
  ASSUME NEW sig \in Signal, NEW v \in Int, NEW confirm, NEW enter \in Int, NEW exit \in Int
  PROVE  Fed(sig, v, confirm, enter, exit) \in Signal
<1>1. Hysteresis(sig, v, enter, exit) \in BOOLEAN
  <2>1. (v >= exit) \in BOOLEAN /\ (v >= enter) \in BOOLEAN
    OBVIOUS
  <2>2. CASE sig.in
    BY <2>1, <2>2 DEF Hysteresis
  <2>3. CASE ~sig.in
    BY <2>1, <2>3 DEF Hysteresis
  <2> QED BY <2>2, <2>3
<1>2. [sig EXCEPT !.cnt = 0] \in Signal
  BY DEF Signal
<1>3. [sig EXCEPT !.cnt = @ + 1] \in Signal
  BY DEF Signal
<1>4. [note |-> v, cnt |-> 0, in |-> Hysteresis(sig, v, enter, exit)] \in Signal
  BY <1>1 DEF Signal
<1> QED BY <1>2, <1>3, <1>4 DEF Fed

LEMMA FeedKeeps ==
  ASSUME m \in Measurements, NEW s \in Good, NEW name \in Signals
  PROVE  Feed(s, name) \in Good
<1>1. m[name] \in Int
  BY DEF Measurements
<1>2. s.sig \in [Signals -> Signal]
  BY DEF Good, StateOK
<1>3. Fed(s.sig[name], m[name], Confirm(name), Enter(name), Exit(name)) \in Signal
  <2>1. s.sig[name] \in Signal
    BY <1>2
  <2>2. Enter(name) \in Int /\ Exit(name) \in Int
    BY DEF Enter, Exit
  <2> QED BY <1>1, <2>1, <2>2, FedIsSignal
<1>4. Feed(s, name) \in StateOK
  BY <1>2, <1>3 DEF Feed, Good, StateOK
<1>5. Feed(s, name).c = s.c
  BY DEF Feed, Good, StateOK
<1> QED BY <1>4, <1>5 DEF Good

LEMMA EngageLeversKeeps ==
  ASSUME st \in Good, NEW s \in Good, NEW b
  PROVE  EngageLevers(s, b) \in Good
<1> DEFINE s1 == SetTo(s, "governor", 1, b)
           s2 == StepTo(s1, "swappiness", 10, 20, b)
           s3 == SetTo(s2, "clocks", 1, b)
<1>1. s1 \in Good
  BY SetToKeeps, LeverNames
<1>2. s2 \in Good
  BY <1>1, StepToKeeps, LeverNames
<1>3. s3 \in Good
  BY <1>2, SetToKeeps, LeverNames
<1>4. Reported \in Int
  BY LeverNames DEF Reported, Good, GoodControl, Control
<1>5. Most(PowerFloor, Reported) \in Int
  BY <1>4, Amounts DEF Most
<1>6. EngagePower(s3, b) \in Good
  <2> HIDE DEF s3
  <2> QED BY <1>3, <1>5, StepToKeeps, LeverNames DEF EngagePower
<1> QED BY <1>6 DEF EngageLevers

LEMMA EnvelopeKeeps ==
  ASSUME st \in Good, NEW s \in Good, NEW phase, NEW b
  PROVE  Envelope(s, phase, b) \in Good
<1>1. Engaged(s, b) \in Good
  <2>1. EngageLevers(s, b) \in Good
    BY EngageLeversKeeps
  <2> QED BY <2>1 DEF Engaged, Good, StateOK
<1>2. Released(s, b) \in Good
  <2>1. Restore(s.c, b) \in GoodControl
    BY RestoreKeeps DEF Good
  <2>2. Raises(s.c) \in BOOLEAN
    BY DEF Raises
  <2> QED BY <2>1, <2>2 DEF Released, Good, StateOK, GoodControl
<1> QED BY <1>1, <1>2 DEF Envelope

LEMMA FlaggedKeeps ==
  ASSUME m \in Measurements, NEW s \in Good
  PROVE  Flagged(s) \in Good
BY DEF Flagged, Good, StateOK, Measurements

LEMMA ThrottledKeeps ==
  ASSUME st \in Good, m \in Measurements, NEW s \in Good, NEW b
  PROVE  Throttled(s, b) \in Good
<1>1. Feed(s, "throttle") \in Good
  BY FeedKeeps DEF Signals
<1>2. StepPower(Feed(s, "throttle"), -1, b) \in Good /\ StepPower(Feed(s, "throttle"), 1, b) \in Good
  BY <1>1, StepPowerKeeps
<1>3. DeferredGrow(StepPower(Feed(s, "throttle"), 1, b), b) \in Good
  BY <1>2, GrowKeeps DEF DeferredGrow
<1> QED BY <1>1, <1>2, <1>3 DEF Throttled

LEMMA PhasedKeeps ==
  ASSUME st \in Good, m \in Measurements, NEW s \in Good, NEW b
  PROVE  Phased(s, b) \in Good
<1>1. Reclaimed(s, b) \in Good
  BY ShrinkKvKeeps, Amounts DEF Reclaimed
<1>2. Envelope(Reclaimed(s, b), m.phase, b) \in Good
  BY <1>1, EnvelopeKeeps
<1>3. m.phase \in Phases
  BY DEF Measurements
<1> QED BY <1>2, <1>3 DEF Phased, Good, StateOK

LEMMA TimedKeeps ==
  ASSUME st \in Good, NEW s \in Good, NEW b
  PROVE  Timed(s, b) \in Good
<1>1. TimedOut(s, b) \in Good
  <2>1. Envelope(s, "IDLE", b) \in Good
    BY EnvelopeKeeps
  <2>2. (Tuning(s) /\ Raises(s.c)) \in BOOLEAN
    OBVIOUS
  <2> QED BY <2>1, <2>2 DEF TimedOut, Good, StateOK
<1>2. \A n \in Nat : [s EXCEPT !.quiet = n] \in Good
  BY DEF Good, StateOK
<1>3. s.quiet + 1 \in Nat
  <2>1. s.quiet \in Nat
    BY DEF Good, StateOK
  <2> QED BY <2>1
<1> QED BY <1>1, <1>2, <1>3 DEF Timed

LEMMA EccedKeeps ==
  ASSUME m \in Measurements, NEW s \in Good, NEW b
  PROVE  Ecced(s, b) \in Good
<1>1. RaiseSafety(s, b) \in Good
  BY RaiseSafetyKeeps
<1>2. Known(s.c, "kv", KvDefault) \in Int
  BY KnownHere, LeverNames, Amounts
<1>3. Most(0, Known(s.c, "kv", KvDefault) - KvStep) \in Int
  BY <1>2, Amounts DEF Most
<1>4. SetKv(RaiseSafety(s, b), Most(0, Known(s.c, "kv", KvDefault) - KvStep), b) \in Good
  BY <1>1, <1>3, SetKvKeeps
<1>5. m.dbe \in Nat
  BY DEF Measurements
<1>6. Degrade(s, b) \in Good
  BY <1>4, <1>5 DEF Degrade, Good, StateOK
<1> QED BY <1>6 DEF Ecced

LEMMA PressuredKeeps ==
  ASSUME m \in Measurements, NEW s \in Good, NEW b
  PROVE  Pressured(s, b) \in Good
<1>1. Feed(s, "kv") \in Good
  BY FeedKeeps DEF Signals
<1>2. Known(s.c, "kv", 0) \in Int
  BY KnownHere, LeverNames
<1>3. Most(KvFloor, Known(s.c, "kv", 0) - KvStep) \in Int
  BY <1>2, Amounts DEF Most
<1> QED BY <1>1, <1>3, GrowKeeps, ShrinkKvKeeps DEF Pressured

LEMMA SpilledKeeps ==
  ASSUME NEW s \in Good, NEW b
  PROVE  Spilled(s, b) \in Good
<1>1. [s EXCEPT !.spilled = TRUE] \in Good
  BY DEF Good, StateOK
<1> QED BY <1>1, GrowKeeps DEF Spilled

LEMMA HeatedKeeps ==
  ASSUME st \in Good, m \in Measurements, NEW s \in Good, NEW b
  PROVE  Heated(s, b) \in Good
<1>1. Feed(s, "temp") \in Good
  BY FeedKeeps DEF Signals
<1>2. RaiseSafety(Feed(s, "temp"), b) \in Good
  BY <1>1, RaiseSafetyKeeps
<1>3. Hot(s, b) \in Good
  BY <1>1, <1>2, StepPowerKeeps DEF Hot
<1>4. Feed(Hot(s, b), "membw") \in Good
  BY <1>3, FeedKeeps DEF Signals
<1>5. m.gaming \in BOOLEAN
  BY DEF Measurements, Flags
<1>6. Gated(Hot(s, b)) \in Good
  BY <1>4, <1>5 DEF Gated, Good, StateOK
<1> QED BY <1>6 DEF Heated

LEMMA MemPressedKeeps ==
  ASSUME m \in Measurements, NEW s \in Good, NEW b
  PROVE  MemPressed(s, b) \in Good
<1> DEFINE f == Feed(s, "psiMem")
<1>1. f \in Good
  BY FeedKeeps DEF Signals
<1>2. ASSUME NEW w \in Int, NEW v \in Int PROVE VmLevers(f, w, v, b) \in Good
  <2> HIDE DEF f
  <2>1. StepTo(f, "watermark", w, 50, b) \in Good
    BY <1>1, StepToKeeps, LeverNames
  <2> QED BY <2>1, StepToKeeps, LeverNames DEF VmLevers
<1> QED BY <1>1, <1>2 DEF MemPressed

LEMMA CpuPressedKeeps ==
  ASSUME m \in Measurements, NEW s \in Good, NEW b
  PROVE  CpuPressed(s, b) \in Good
<1>1. Feed(s, "psiCpu") \in Good
  BY FeedKeeps DEF Signals
<1>2. SetTo(Feed(s, "psiCpu"), "governor", 1, b) \in Good
  BY <1>1, SetToKeeps, LeverNames
<1> QED BY <1>1, <1>2 DEF CpuPressed

LEMMA IoPressedKeeps ==
  ASSUME m \in Measurements, NEW s \in Good, NEW b
  PROVE  IoPressed(s, b) \in Good
<1> DEFINE f == Feed(s, "psiIo")
<1>1. f \in Good
  BY FeedKeeps DEF Signals
<1>2. ASSUME NEW cap \in Int PROVE T3Down(f, cap, b) \in Good /\ T3Up(f, cap, b) \in Good
  <2> HIDE DEF f
  <2>1. Most(T3Floor, cap - T3Step) \in Int /\ cap + T3Step \in Int
    BY <1>2, Amounts DEF Most
  <2>2. /\ StepTo(f, "t3cap", Most(T3Floor, cap - T3Step), T3Lever, b) \in Good
        /\ StepTo(f, "t3cap", 0, T3Lever, b) \in Good
        /\ StepTo(f, "t3cap", cap + T3Step, T3Lever, b) \in Good
    BY <1>1, <2>1, StepToKeeps, LeverNames, Amounts
  <2>3. ASSUME NEW g \in Good, NEW v \in BOOLEAN PROVE [g EXCEPT !.t3 = v] \in Good
    BY DEF Good, StateOK
  <2> QED BY <1>1, <2>2, <2>3 DEF T3Down, T3Up
<1>3. Known(s.c, "t3cap", T3Size) \in Int /\ Known(s.c, "t3cap", 0) \in Int
  BY KnownHere, LeverNames, Amounts
<1> QED BY <1>1, <1>2, <1>3 DEF IoPressed

LEMMA LinkedKeeps ==
  ASSUME m \in Measurements, NEW s \in Good, NEW b
  PROVE  Linked(s, b) \in Good
<1>1. Feed(s, "pcie") \in Good
  BY FeedKeeps DEF Signals
<1>2. SetTo(Feed(s, "pcie"), "prefetch", 1, b) \in Good /\ SetTo(Feed(s, "pcie"), "prefetch", 0, b) \in Good
  BY <1>1, SetToKeeps, LeverNames
<1> QED BY <1>1, <1>2 DEF Linked

LEMMA YieldedKeeps ==
  ASSUME m \in Measurements, NEW s \in Good, NEW b
  PROVE  Yielded(s, b) \in Good
<1> DEFINE f == Feed(s, "nonGb")
<1>1. f \in Good
  BY FeedKeeps DEF Signals
<1>2. ASSUME NEW mb \in Int PROVE SetWs(f, mb, b) \in Good
  <2> HIDE DEF f
  <2>1. Step(f.c, "workstation", mb, WsLever, b) \in GoodControl
    BY <1>1, StepKeeps, LeverNames, Amounts DEF Good
  <2>2. f.ws \in Int
    BY <1>1 DEF Good, StateOK
  <2> QED BY <1>1, <2>1, <2>2 DEF SetWs, Remember, Good, StateOK, GoodControl
<1>3. s.ws \in Int
  BY DEF Good, StateOK
<1>4. Least(WsCap, s.ws + WsStep) \in Int /\ Most(0, s.ws - WsStep) \in Int
  BY <1>3, Amounts DEF Least, Most
<1> QED BY <1>1, <1>2, <1>4 DEF Yielded

-----------------------------------------------------------------------------
(* A tick, and the daemon's life around it.                                *)

\* Whatever a death leaves behind in a tick, and what the tick ends with.
LEMMA TickKeeps ==
  ASSUME st \in Good, m \in Measurements, NEW b
  PROVE  Points(b) \subseteq Good /\ AfterTick(b) \subseteq Good
<1>1. AfterThrottle(b) \subseteq Good
  BY FlaggedKeeps, ThrottledKeeps DEF AfterThrottle
<1>2. AfterPhase(b) \subseteq Good
  BY <1>1, PhasedKeeps DEF AfterPhase
<1>3. AfterTimer(b) \subseteq Good
  BY <1>2, TimedKeeps DEF AfterTimer
<1>4. AfterEcc(b) \subseteq Good
  BY <1>3, EccedKeeps DEF AfterEcc, Unless
<1>5. AfterKv(b) \subseteq Good
  BY <1>4, PressuredKeeps DEF AfterKv, Unless
<1>6. AfterSpill(b) \subseteq Good
  BY <1>5, SpilledKeeps DEF AfterSpill, Unless
<1>7. AfterHeat(b) \subseteq Good
  BY <1>6, HeatedKeeps DEF AfterHeat, Unless
<1>8. AfterMem(b) \subseteq Good
  BY <1>7, MemPressedKeeps DEF AfterMem, Unless
<1>9. AfterCpu(b) \subseteq Good
  BY <1>8, CpuPressedKeeps DEF AfterCpu, Unless
<1>10. AfterIo(b) \subseteq Good
  BY <1>9, IoPressedKeeps DEF AfterIo, Unless
<1>11. AfterLink(b) \subseteq Good
  BY <1>10, LinkedKeeps DEF AfterLink, Unless
<1>12. AfterTick(b) \subseteq Good
  BY <1>11, YieldedKeeps DEF AfterTick, Unless
<1>13. Points(b) \subseteq Good
  BY <1>1, <1>2, <1>3, <1>4, <1>5, <1>6, <1>7, <1>8, <1>9, <1>10 DEF Points
<1> QED BY <1>12, <1>13

LEMMA StartedIsGood ==
  ASSUME NEW c \in GoodControl, NEW ecc \in Nat
  PROVE  Started(c, ecc) \in Good
<1>1. Forgotten(c) \in GoodControl
  BY ForgottenKeeps
<1>2. NewSignal \in Signal /\ (ecc > 0) \in BOOLEAN
  BY DEF NewSignal, Signal
<1>3. [s \in Signals |-> NewSignal] \in [Signals -> Signal]
  BY <1>2
<1>4. Forgotten(c) \in Control
  BY <1>1 DEF GoodControl
<1>5. Started(c, ecc) \in StateOK
  BY <1>2, <1>3, <1>4 DEF Started, StateOK
<1>6. Started(c, ecc).c = Forgotten(c)
  BY DEF Started
<1> QED BY <1>1, <1>5, <1>6 DEF Good

LEMMA UntouchedIsGood == Untouched \in GoodControl
<1>1. Original \in [Levers -> Int]
  BY ControlAssumption
<1>2. Untouched \in Control
  BY <1>1 DEF Untouched, Control
<1> QED BY <1>2 DEF Untouched, GoodControl, BaseOK

LEMMA InitKeeps == Init => IInv
<1> SUFFICES ASSUME Init PROVE IInv
  OBVIOUS
<1>1. st \in Good
  BY UntouchedIsGood, StartedIsGood DEF Init
<1>2. m \in Measurements
  <2>1. PICK limit \in BOOLEAN : m = Quietest(limit)
    BY DEF Init
  <2>3. m["limit"] = limit /\ m["phase"] = "INIT"
    BY <2>1 DEF Quietest, Inputs
  <2>4. \A i \in Flags : m[i] = FALSE
    BY <2>1 DEF Quietest, Inputs, Flags
  <2>5. \A i \in Signals \cup {"dbe"} : m[i] = 0
    BY <2>1 DEF Quietest, Inputs, Signals, Flags
  <2>6. \A i \in Inputs \cup {"limit"} : m[i] \in Int \cup BOOLEAN \cup Phases
    <3> SUFFICES ASSUME NEW i \in Inputs \cup {"limit"} PROVE m[i] \in Int \cup BOOLEAN \cup Phases
      OBVIOUS
    <3>1. CASE i \in Flags
      BY <3>1, <2>4
    <3>2. CASE i \in Signals \cup {"dbe"}
      BY <3>2, <2>5
    <3>3. CASE i = "phase"
      BY <3>3, <2>3, OrchestratorAssumption
    <3>4. CASE i = "limit"
      BY <3>4, <2>3
    <3> QED BY <3>1, <3>2, <3>3, <3>4 DEF Inputs
  <2>2. m \in [Inputs \cup {"limit"} -> Int \cup BOOLEAN \cup Phases]
    BY <2>1, <2>6 DEF Quietest
  <2>7. m["phase"] \in Phases /\ m["dbe"] \in Nat /\ m["limit"] \in BOOLEAN
    BY <2>3, <2>5, OrchestratorAssumption
  <2>8. \A i \in Signals : m[i] \in Int
    BY <2>5
  <2>9. \A i \in Flags : m[i] \in BOOLEAN
    BY <2>4
  <2> QED BY <2>2, <2>7, <2>8, <2>9 DEF Measurements
<1> QED BY <1>1, <1>2, Amounts DEF Init, IInv

LEMMA MeasureKeeps == IInv /\ Measure => IInv'
<1> SUFFICES ASSUME IInv, Measure PROVE IInv'
  OBVIOUS
<1>1. PICK i \in moving : \E v \in Values(i) : m' = [m EXCEPT ![i] = v]
  BY DEF Measure
<1>2. PICK v \in Values(i) : m' = [m EXCEPT ![i] = v]
  BY <1>1
<1>3. i \in Inputs
  BY OrchestratorAssumption DEF IInv
<1>4. m' \in Measurements
  <2>1. /\ i = "phase" => v \in Phases
        /\ i = "dbe" => v \in Nat
        /\ i \in Flags => v \in BOOLEAN
        /\ i \in Signals => v \in Int
    BY Amounts DEF Values, IInv, Measurements, Least, Readings, Flags, Signals
  <2>2. i # "limit"
    BY <1>3 DEF Inputs, Signals, Flags
  <2> QED BY <1>2, <1>3, <2>1, <2>2 DEF Measurements, IInv, Inputs
<1> QED BY <1>4 DEF Measure, IInv

LEMMA TickStep == IInv /\ Tick => IInv'
<1> SUFFICES ASSUME IInv, Tick PROVE IInv'
  OBVIOUS
<1>1. PICK b \in Broken :
        /\ b # {} => upsets < MaxUpsets
        /\ \E s \in AfterTick(b) : st' = [s EXCEPT !.c.recent = {}, !.aborted = FALSE]
        /\ upsets' = IF b = {} THEN upsets ELSE upsets + 1
  BY DEF Tick
<1>2. PICK s \in AfterTick(b) : st' = [s EXCEPT !.c.recent = {}, !.aborted = FALSE]
  BY <1>1
<1>3. s \in Good
  BY TickKeeps DEF IInv
<1>4. [s.c EXCEPT !.recent = {}] \in GoodControl
  BY <1>3 DEF Good, GoodControl, Control, BaseOK
<1>5. st' \in Good
  BY <1>2, <1>3, <1>4 DEF Good, StateOK, GoodControl
<1>6. upsets' \in 0..MaxUpsets
  BY <1>1, Amounts DEF IInv
<1> QED BY <1>5, <1>6 DEF IInv, Tick

LEMMA StopStep == IInv /\ Stop => IInv'
<1> SUFFICES ASSUME IInv, Stop PROVE IInv'
  OBVIOUS
<1>1. ResetClocks(st.c, {}) \in GoodControl /\ st.ecc \in Nat
  BY ResetClocksKeeps DEF IInv, Good, StateOK
<1>2. st' \in Good
  BY <1>1, StartedIsGood DEF Stop
<1>3. upsets' \in 0..MaxUpsets
  BY Amounts DEF IInv, Stop
<1> QED BY <1>2, <1>3 DEF IInv, Stop

LEMMA DieStep == IInv /\ Die => IInv'
<1> SUFFICES ASSUME IInv, Die PROVE IInv'
  OBVIOUS
<1>1. PICK s \in Points({}) : st' = Started(s.c, s.ecc)
  BY DEF Die
<1>2. s.c \in GoodControl /\ s.ecc \in Nat
  <2>1. s \in Good
    BY TickKeeps DEF IInv
  <2> QED BY <2>1 DEF Good, StateOK
<1>3. st' \in Good
  BY <1>1, <1>2, StartedIsGood
<1>4. upsets' \in 0..MaxUpsets
  BY Amounts DEF IInv, Die
<1> QED BY <1>3, <1>4 DEF IInv, Die

LEMMA StartStep == IInv /\ Start => IInv'
<1> SUFFICES ASSUME IInv, Start PROVE IInv'
  OBVIOUS
<1>1. st.c \in GoodControl /\ st.ecc \in Nat
  BY DEF IInv, Good, StateOK
<1>2. st' \in Good
  BY <1>1, StartedIsGood DEF Start
<1>3. m' \in Measurements
  <2>1. PICK dbe \in {m.dbe, 0} : m' = [m EXCEPT !.dbe = dbe]
    BY DEF Start
  <2>2. dbe \in Nat
    BY <2>1 DEF IInv, Measurements
  <2> QED BY <2>1, <2>2 DEF IInv, Measurements, Inputs, Signals, Flags
<1> QED BY <1>2, <1>3 DEF IInv, Start

LEMMA RevertStep == IInv /\ Revert => IInv'
<1> SUFFICES ASSUME IInv, Revert PROVE IInv'
  OBVIOUS
<1>1. Reverted(st.c, {}) \in GoodControl
  BY PutBackKeeps DEF IInv, Good, Reverted
<1>2. st' = [st EXCEPT !.c = Reverted(st.c, {})]
  BY DEF Revert
<1>3. st' \in Good
  BY <1>1, <1>2, WithControl DEF IInv
<1> QED BY <1>3 DEF IInv, Revert

\* The invariant.
THEOREM OrchestratorInvariance == Spec => []IInv
<1>1. IInv /\ [Next]_vars => IInv'
  <2>1. IInv /\ UNCHANGED vars => IInv'
    BY DEF IInv, vars, Good
  <2> QED BY <2>1, MeasureKeeps, TickStep, StopStep, DieStep, StartStep, RevertStep DEF Next
<1> QED BY <1>1, InitKeeps, PTL DEF Spec

\* Whatever differs from how it was found can be put back, from the file and by tune-revert too, through
\* deaths in a tick, failed writes, restarts and stops.
THEOREM OriginalsAreKept == Spec => []OriginalsKept
<1>1. IInv => OriginalsKept
  BY DEF IInv, OriginalsKept, TypeOK, KeepsOriginals, Good, GoodControl, BaseOK
<1> QED BY <1>1, OrchestratorInvariance, PTL
-----------------------------------------------------------------------------
(* The ECC ratchet.  The first conjunct is not inductive: a daemon that    *)
(* has seen an error (eccSeen) must be degraded, or Loop A would pass over *)
(* the count that the flag file has just been given.  The second needs     *)
(* that the lever was last written what it is set to, or a shrink could    *)
(* raise it.                                                               *)

\* What the actuator remembers of the KV reserve is what it is set to.
KvKnown(c) == Actuate /\ c.last["kv"] # None => c.hw["kv"] = c.last["kv"]

Knows(s) == (s.ecc > 0 => s.degraded \/ Raises(s.c)) /\ (s.eccSeen > 0 => s.degraded)

EccInv == Knows(st) /\ ~st.aborted /\ KvKnown(st.c)

\* From c to d, nothing is written to the KV reserve.
KvLeft(c, d) ==
  d.hw["kv"] = c.hw["kv"] /\ d.last["kv"] \in {c.last["kv"], None} /\ (Raises(c) => Raises(d))

\* From s to t, nothing happens that the ratchet is about.
Calm(s, t) ==
  /\ t.ecc = s.ecc /\ t.eccSeen = s.eccSeen /\ t.degraded = s.degraded /\ t.ws = s.ws
  /\ t.aborted => s.aborted \/ Raises(t.c)
  /\ KvLeft(s.c, t.c)

\* What the loops other than A make of s within a tick.
From(s) ==
  {t \in Good :
     /\ t.ecc = s.ecc /\ t.eccSeen = s.eccSeen /\ t.degraded = s.degraded /\ t.ws = s.ws
     /\ t.aborted => s.aborted \/ Raises(t.c)
     /\ Raises(s.c) => Raises(t.c)
     /\ KvKnown(t.c)
     /\ t.c.hw["kv"] > s.c.hw["kv"] => ~s.degraded /\ t.c.hw["kv"] + s.ws + Weights <= Total}

LEMMA KvIsASetting == "kv" \in Levers /\ "kv" \notin Tunables
BY OrchestratorAssumption DEF Levers

LEMMA LeverLeavesKv ==
  ASSUME NEW c \in GoodControl, NEW k \in Levers \ {"kv"}, NEW v \in Int, NEW b
  PROVE  KvLeft(c, Lever(c, k, v, b))
<1>1. ASSUME NEW d \in Control PROVE KvLeft(d, Noted(d, k, v))
  BY KvIsASetting DEF Noted, KvLeft, Control, Raises
<1>2. Capture(c, k) \in Control /\ KvLeft(c, Capture(c, k))
  <2>1. Capture(c, k) \in Control
    BY CaptureKeeps DEF GoodControl
  <2>2. KvLeft(c, Capture(c, k))
    BY KvIsASetting, ControlAssumption DEF Capture, Found, KvLeft, Control, GoodControl, Raises
  <2> QED BY <2>1, <2>2
<1>3. ASSUME NEW d \in Control PROVE KvLeft(d, Apply(d, k, v, b))
  BY <1>1, KvIsASetting DEF Apply, Noted, KvLeft, Control, Raises
<1>4. ASSUME NEW d, NEW e, KvLeft(c, d), KvLeft(d, e) PROVE KvLeft(c, e)
  BY <1>4 DEF KvLeft
<1>5. KvLeft(c, c) /\ c \in Control
  BY DEF KvLeft, GoodControl
<1> QED BY <1>1, <1>2, <1>3, <1>4, <1>5 DEF Lever

LEMMA RestoreLeavesKv ==
  ASSUME NEW c \in GoodControl, NEW b
  PROVE  KvLeft(c, Restore(c, b))
<1>1. PutBack(c, b).hw["kv"] = c.hw["kv"]
  BY KvIsASetting DEF PutBack, Restorable, GoodControl, Control
<1>2. PutBack(c, b).base = c.base /\ PutBack(c, b).last = c.last
  BY DEF PutBack, GoodControl, Control
<1>3. KvLeft(c, PutBack(c, b))
  BY <1>1, <1>2 DEF KvLeft, Raises
<1>4. PutBack(c, b) \in Control
  BY PutBackKeeps DEF GoodControl
<1>5. KvLeft(PutBack(c, b), [PutBack(c, b) EXCEPT !.last = [k \in Levers |-> None], !.recent = {}])
  BY <1>4, KvIsASetting DEF KvLeft, Control, Raises
<1> QED BY <1>3, <1>5 DEF Restore, KvLeft

LEMMA KvLevered ==
  ASSUME NEW c \in GoodControl, NEW v \in Int, NEW b, KvKnown(c)
  PROVE  LET d == Lever(c, "kv", v, b) IN
         /\ KvKnown(d) /\ (Raises(c) => Raises(d))
         /\ d.hw["kv"] \in {c.hw["kv"], v}
         /\ ~Actuate => d.hw["kv"] = c.hw["kv"]
<1> DEFINE n == Noted(c, "kv", v)
<1>1. Capture(c, "kv") = c
  BY KvIsASetting DEF Capture
<1>2. n \in Control /\ n.hw = c.hw /\ n.base = c.base /\ n.last["kv"] = v
  <2>1. n \in GoodControl
    BY KvIsASetting, NotedKeeps
  <2>2. n.hw = c.hw /\ n.base = c.base /\ n.last["kv"] = v
    BY KvIsASetting DEF Noted, GoodControl, Control
  <2> QED BY <2>1, <2>2 DEF GoodControl
<1> DEFINE w == [n EXCEPT !.hw["kv"] = v]
<1>3. w.hw["kv"] = v /\ w.base = c.base /\ w.last["kv"] = v
  BY <1>2, KvIsASetting DEF Control
<1>4. Lever(c, "kv", v, b) \in IF Actuate THEN {c, w} ELSE {c, n}
  BY <1>1 DEF Lever, Apply
<1> HIDE DEF n, w
<1> QED BY <1>2, <1>3, <1>4 DEF KvKnown, Raises

-----------------------------------------------------------------------------
LEMMA Reflexive ==
  ASSUME NEW s \in Good, KvKnown(s.c)
  PROVE  s \in From(s)
<1>1. s.c.hw["kv"] \in Int
  BY LeverNames DEF Good, GoodControl, Control
<1> QED BY <1>1 DEF From

LEMMA CalmStays ==
  ASSUME NEW s \in Good, NEW t \in From(s), NEW u \in Good, Calm(t, u)
  PROVE  u \in From(s)
<1>1. KvKnown(u.c)
  BY DEF From, Calm, KvLeft, KvKnown
<1> QED BY <1>1 DEF From, Calm, KvLeft

LEMMA ControlCalm ==
  ASSUME NEW s \in Good, NEW c, KvLeft(s.c, c)
  PROVE  Calm(s, [s EXCEPT !.c = c])
BY DEF Calm, Good, StateOK

LEMMA SetToStays ==
  ASSUME NEW s \in Good, NEW t \in From(s), NEW k \in Levers \ {"kv"}, NEW v \in Int, NEW b
  PROVE  SetTo(t, k, v, b) \in From(s)
<1>1. t \in Good /\ t.c \in GoodControl
  BY DEF From, Good
<1>2. SetTo(t, k, v, b) \in Good
  BY <1>1, SetToKeeps
<1>3. Calm(t, SetTo(t, k, v, b))
  BY <1>1, LeverLeavesKv, ControlCalm DEF SetTo
<1> QED BY <1>2, <1>3, CalmStays

LEMMA StepToStays ==
  ASSUME NEW s \in Good, NEW t \in From(s), NEW k \in Levers \ {"kv"}, NEW v \in Int, NEW step \in Int, NEW b
  PROVE  StepTo(t, k, v, step, b) \in From(s)
<1>1. t \in Good /\ t.c \in GoodControl
  BY DEF From, Good
<1>2. StepTo(t, k, v, step, b) \in Good
  BY <1>1, StepToKeeps
<1>3. Bounded(t.c.last[k], v, step) \in Int
  BY <1>1, ControlAssumption DEF Bounded, Most, Least, GoodControl, Control
<1>4. Calm(t, StepTo(t, k, v, step, b))
  BY <1>1, <1>3, LeverLeavesKv, ControlCalm DEF StepTo, Step
<1> QED BY <1>2, <1>4, CalmStays

\* A write to the KV reserve that does not break its bound.
LEMMA KvStays ==
  ASSUME NEW s \in Good, NEW t \in From(s), NEW mb \in Int, NEW b,
         LET w == Bounded(t.c.last["kv"], mb, KvLever) IN
           Actuate => \/ w <= t.c.hw["kv"]
                      \/ ~t.degraded /\ w + t.ws + Weights <= Total
  PROVE  SetKv(t, mb, b) \in From(s)
<1> DEFINE w == Bounded(t.c.last["kv"], mb, KvLever)
           d == Lever(t.c, "kv", w, b)
<1>1. t \in Good /\ t.c \in GoodControl /\ KvKnown(t.c)
  BY DEF From, Good
<1>2. w \in Int
  BY <1>1, LeverNames, Amounts, ControlAssumption DEF Bounded, Most, Least, GoodControl, Control
<1>3. /\ KvKnown(d) /\ (Raises(t.c) => Raises(d))
      /\ d.hw["kv"] \in {t.c.hw["kv"], w}
      /\ ~Actuate => d.hw["kv"] = t.c.hw["kv"]
  BY <1>1, <1>2, KvLevered
<1>4. SetKv(t, mb, b) = [t EXCEPT !.c = d]
  BY DEF SetKv, StepTo, Step
<1>5. SetKv(t, mb, b) \in Good
  BY <1>1, SetKvKeeps
<1> DEFINE u == SetKv(t, mb, b)
<1>6. /\ u.c = d /\ u.ecc = t.ecc /\ u.eccSeen = t.eccSeen /\ u.degraded = t.degraded
      /\ u.ws = t.ws /\ u.aborted = t.aborted
  BY <1>1, <1>4 DEF Good, StateOK
<1>7. t.c.hw["kv"] \in Int /\ s.c.hw["kv"] \in Int /\ t.ws \in Int /\ Weights \in Int /\ Total \in Int
  <2>1. t.c.hw["kv"] \in Int /\ s.c.hw["kv"] \in Int
    <3> HIDE DEF w, d, u
    <3> QED BY <1>1, LeverNames DEF Good, GoodControl, Control
  <2>2. t.ws \in Int
    BY <1>1 DEF Good, StateOK
  <2> QED BY <2>1, <2>2, Amounts
<1>8. ASSUME d.hw["kv"] > s.c.hw["kv"]
      PROVE  ~s.degraded /\ d.hw["kv"] + s.ws + Weights <= Total
  <2> HIDE DEF w, d
  <2>1. CASE d.hw["kv"] <= t.c.hw["kv"]
    BY <1>2, <1>3, <1>7, <1>8, <2>1 DEF From
  <2>2. CASE ~(d.hw["kv"] <= t.c.hw["kv"])
    <3>1. Actuate /\ d.hw["kv"] = w
      BY <1>3, <1>7, <2>2
    <3>2. ~t.degraded /\ w + t.ws + Weights <= Total
      BY <3>1, <2>2 DEF w
    <3> QED BY <3>1, <3>2 DEF From
  <2> QED BY <2>1, <2>2
<1> HIDE DEF u, d
<1>9. u \in From(s)
  BY <1>3, <1>5, <1>6, <1>8 DEF From, u
<1> QED BY <1>9 DEF u

LEMMA GrowStays ==
  ASSUME NEW s \in Good, NEW t \in From(s), NEW b, ~t.degraded
  PROVE  Grow(t, b) \in From(s)
<1> DEFINE old == t.c.last["kv"]
           now == Known(t.c, "kv", 0)
           mb == now + Least(GrowStep, Headroom(t))
<1>1. t \in Good /\ old \in Int \cup {None} /\ t.ws \in Int
  BY LeverNames DEF From, Good, StateOK, GoodControl, Control
<1>2. now \in Int /\ (old # None => now = old)
  BY <1>1 DEF Known
<1>3. Headroom(t) \in Int /\ now + t.ws + Weights + Headroom(t) = Total
  BY <1>1, <1>2, Amounts DEF Headroom
<1>4. GrowStep \in Nat
  <2>1. KvStep \div 2 \in Nat /\ KvStep \in Nat
    BY Amounts
  <2> QED BY <2>1 DEF GrowStep, Most
<1>5. ASSUME Headroom(t) > 0
      PROVE  SetKv(t, mb, b) \in From(s)
  <2>1. mb \in Int /\ mb >= now /\ mb + t.ws + Weights <= Total
    BY <1>1, <1>2, <1>3, <1>4, <1>5, Amounts DEF Least
  <2>2. Bounded(old, mb, KvLever) \in Int /\ Bounded(old, mb, KvLever) <= mb
    <3> HIDE DEF mb, now, old
    <3> QED BY <1>1, <1>2, <2>1, Amounts DEF Bounded, Most, Least
  <2>3. Bounded(old, mb, KvLever) + t.ws + Weights <= Total
    <3> HIDE DEF mb, now, old
    <3> QED BY <1>1, <2>1, <2>2, Amounts
  <2> QED BY <2>1, <2>3, KvStays
<1>6. ~(Headroom(t) > 0) => Grow(t, b) = t
  BY <1>3 DEF Grow
<1>7. Headroom(t) > 0 => Grow(t, b) = SetKv(t, mb, b)
  BY <1>3 DEF Grow
<1> QED BY <1>5, <1>6, <1>7

LEMMA ShrinkKvStays ==
  ASSUME NEW s \in Good, NEW t \in From(s), NEW mb \in Nat, NEW b
  PROVE  ShrinkKv(t, mb, b) \in From(s)
<1> DEFINE old == t.c.last["kv"]
<1>1. t \in Good /\ old \in Int \cup {None} /\ KvKnown(t.c)
  BY LeverNames DEF From, Good, GoodControl, Control
<1>2. Known(t.c, "kv", 0) \in Int
  BY <1>1 DEF Known
<1>3. CASE mb < Known(t.c, "kv", 0)
  <2>1. old \in Int /\ mb < old
    BY <1>1, <1>3 DEF Known
  <2>2. Bounded(old, mb, KvLever) <= old
    <3>1. old # None
      BY <2>1, ControlAssumption
    <3> HIDE DEF old
    <3> QED BY <2>1, <3>1, Amounts DEF Bounded, Most, Least
  <2>3. Actuate => old = t.c.hw["kv"]
    BY <1>1, <2>1, ControlAssumption DEF KvKnown
  <2>4. SetKv(t, mb, b) \in From(s)
    BY <2>2, <2>3, KvStays
  <2> QED BY <2>4 DEF ShrinkKv
<1>4. CASE ~(mb < Known(t.c, "kv", 0))
  BY <1>2, <1>4 DEF ShrinkKv
<1> QED BY <1>3, <1>4

LEMMA RaiseSafetyStays ==
  ASSUME NEW s \in Good, NEW t \in From(s), NEW b
  PROVE  RaiseSafety(t, b) \in From(s)
<1>1. Known(t.c, "safety", 1) \in Int
  BY KnownHere, LeverNames DEF From
<1>2. Least(SafetyMax, Known(t.c, "safety", 1) + 1) \in Int
  BY <1>1, Amounts DEF Least
<1> QED BY <1>2, StepToStays, LeverNames DEF RaiseSafety

LEMMA StepPowerStays ==
  ASSUME st \in Good, NEW s \in Good, NEW t \in From(s), NEW delta \in Int, NEW b
  PROVE  StepPower(t, delta, b) \in From(s)
<1>1. Reported \in Int
  BY LeverNames DEF Reported, Good, GoodControl, Control
<1>2. Known(t.c, "power", Reported) \in Int
  BY <1>1, KnownHere, LeverNames DEF From
<1>3. PowerTarget(Known(t.c, "power", Reported), delta) \in Int
  BY <1>1, <1>2, Amounts DEF PowerTarget, Most, Least
<1> QED BY <1>3, StepToStays, LeverNames DEF StepPower

LEMMA FeedStays ==
  ASSUME m \in Measurements, NEW s \in Good, NEW t \in From(s), NEW name \in Signals
  PROVE  Feed(t, name) \in From(s)
<1>1. Feed(t, name) \in Good
  BY FeedKeeps DEF From
<1>2. Calm(t, Feed(t, name))
  BY DEF Feed, Calm, KvLeft, From, Good, StateOK
<1> QED BY <1>1, <1>2, CalmStays

LEMMA EnvelopeStays ==
  ASSUME st \in Good, NEW s \in Good, NEW t \in From(s), NEW phase, NEW b
  PROVE  Envelope(t, phase, b) \in From(s)
<1>0. t \in Good /\ t.c \in GoodControl
  BY DEF From, Good
<1>1. EngageLevers(t, b) \in From(s)
  <2> DEFINE s1 == SetTo(t, "governor", 1, b)
             s2 == StepTo(s1, "swappiness", 10, 20, b)
             s3 == SetTo(s2, "clocks", 1, b)
  <2>1. s1 \in From(s)
    BY SetToStays, LeverNames
  <2>2. s2 \in From(s)
    BY <2>1, StepToStays, LeverNames
  <2>3. s3 \in From(s)
    BY <2>2, SetToStays, LeverNames
  <2>4. Reported \in Int
    BY LeverNames DEF Reported, Good, GoodControl, Control
  <2>5. Most(PowerFloor, Reported) \in Int
    BY <2>4, Amounts DEF Most
  <2>6. EngagePower(s3, b) \in From(s)
    <3> HIDE DEF s3
    <3> QED BY <2>3, <2>5, StepToStays, LeverNames DEF EngagePower
  <2> QED BY <2>6 DEF EngageLevers
<1>2. Engaged(t, b) \in From(s)
  <2> DEFINE e == EngageLevers(t, b)
  <2>1. e \in Good
    BY <1>1 DEF From
  <2> HIDE DEF e
  <2>2. [e EXCEPT !.engaged = TRUE, !.quiet = 0] \in Good
    BY <2>1 DEF Good, StateOK
  <2>3. Calm(e, [e EXCEPT !.engaged = TRUE, !.quiet = 0])
    BY <2>1 DEF Calm, KvLeft, Good, StateOK
  <2>4. e \in From(s)
    BY <1>1 DEF e
  <2>5. [e EXCEPT !.engaged = TRUE, !.quiet = 0] \in From(s)
    BY <2>2, <2>3, <2>4, CalmStays
  <2> QED BY <2>5 DEF Engaged, e
<1>3. Released(t, b) \in From(s)
  <2>1. Released(t, b) \in Good
    <3>1. Restore(t.c, b) \in GoodControl
      BY <1>0, RestoreKeeps
    <3>2. Raises(t.c) \in BOOLEAN
      BY DEF Raises
    <3> QED BY <1>0, <3>1, <3>2 DEF Released, Good, StateOK, GoodControl
  <2>2. KvLeft(t.c, Restore(t.c, b))
    BY <1>0, RestoreLeavesKv
  <2>3. Calm(t, Released(t, b))
    BY <1>0, <2>2 DEF Calm, Released, Good, StateOK
  <2> QED BY <2>1, <2>3, CalmStays
<1> QED BY <1>2, <1>3 DEF Envelope

LEMMA ThrottledStays ==
  ASSUME st \in Good, m \in Measurements, NEW s \in Good, NEW t \in From(s), NEW b
  PROVE  Throttled(t, b) \in From(s)
<1>1. Feed(t, "throttle") \in From(s)
  BY FeedStays DEF Signals
<1>2. StepPower(Feed(t, "throttle"), -1, b) \in From(s) /\ StepPower(Feed(t, "throttle"), 1, b) \in From(s)
  BY <1>1, StepPowerStays
<1>3. DeferredGrow(StepPower(Feed(t, "throttle"), 1, b), b) \in From(s)
  BY <1>2, GrowStays DEF DeferredGrow
<1> QED BY <1>1, <1>2, <1>3 DEF Throttled

LEMMA PhasedStays ==
  ASSUME st \in Good, m \in Measurements, NEW s \in Good, NEW t \in From(s), NEW b
  PROVE  Phased(t, b) \in From(s)
<1> DEFINE e == Envelope(Reclaimed(t, b), m.phase, b)
<1>1. Reclaimed(t, b) \in From(s)
  BY ShrinkKvStays, Amounts DEF Reclaimed
<1>2. e \in From(s)
  BY <1>1, EnvelopeStays
<1> HIDE DEF e
<1>3. e \in Good /\ m.phase \in Phases
  BY <1>2 DEF From, Measurements
<1>4. [e EXCEPT !.phase = m.phase] \in Good /\ Calm(e, [e EXCEPT !.phase = m.phase])
  BY <1>3 DEF Calm, KvLeft, Good, StateOK
<1>5. [e EXCEPT !.phase = m.phase] \in From(s)
  BY <1>2, <1>4, CalmStays
<1> QED BY <1>5 DEF Phased, e

LEMMA TimedStays ==
  ASSUME st \in Good, NEW s \in Good, NEW t \in From(s), NEW b
  PROVE  Timed(t, b) \in From(s)
<1>0. t \in Good
  BY DEF From
<1>1. TimedOut(t, b) \in From(s)
  <2> DEFINE e == Envelope(t, "IDLE", b)
             r == Tuning(t) /\ Raises(t.c)
  <2>1. e \in From(s)
    BY EnvelopeStays
  <2>2. r \in BOOLEAN
    OBVIOUS
  <2>3. Raises(t.c) => Raises(e.c)
    <3>1. t \in From(t)
      BY <1>0, Reflexive DEF From
    <3>2. e \in From(t)
      BY <1>0, <3>1, EnvelopeStays
    <3> QED BY <3>2 DEF From
  <2>4. r => Raises(e.c)
    BY <2>3
  <2> HIDE DEF e, r
  <2>5. e \in Good
    BY <2>1 DEF From
  <2>6. [e EXCEPT !.aborted = r] \in Good /\ Calm(e, [e EXCEPT !.aborted = r])
    BY <2>2, <2>4, <2>5 DEF Calm, KvLeft, Good, StateOK
  <2>7. [e EXCEPT !.aborted = r] \in From(s)
    BY <2>1, <2>6, CalmStays
  <2> QED BY <2>7 DEF TimedOut, e, r
<1>2. ASSUME NEW n \in Nat PROVE [t EXCEPT !.quiet = n] \in From(s)
  <2>1. [t EXCEPT !.quiet = n] \in Good /\ Calm(t, [t EXCEPT !.quiet = n])
    BY <1>0 DEF Calm, KvLeft, Good, StateOK
  <2> QED BY <2>1, CalmStays
<1>3. t.quiet + 1 \in Nat
  <2>1. t.quiet \in Nat
    BY <1>0 DEF Good, StateOK
  <2> QED BY <2>1
<1> QED BY <1>1, <1>2, <1>3 DEF Timed

LEMMA PressuredStays ==
  ASSUME m \in Measurements, NEW s \in Good, NEW t \in From(s), NEW b
  PROVE  Pressured(t, b) \in From(s)
<1>1. Feed(t, "kv") \in From(s)
  BY FeedStays DEF Signals
<1>2. Feed(t, "kv").degraded = t.degraded
  BY <1>1 DEF From
<1>3. Known(t.c, "kv", 0) \in Int
  BY KnownHere, LeverNames DEF From
<1>4. Most(KvFloor, Known(t.c, "kv", 0) - KvStep) \in Nat
  BY <1>3, Amounts DEF Most
<1>5. MayGrow(t) => Grow(Feed(t, "kv"), b) \in From(s)
  BY <1>1, <1>2, GrowStays DEF MayGrow
<1>6. ShrinkKv(Feed(t, "kv"), Most(KvFloor, Known(t.c, "kv", 0) - KvStep), b) \in From(s)
  BY <1>1, <1>4, ShrinkKvStays
<1> QED BY <1>1, <1>5, <1>6 DEF Pressured

LEMMA SpilledStays ==
  ASSUME NEW s \in Good, NEW t \in From(s), NEW b
  PROVE  Spilled(t, b) \in From(s)
<1> DEFINE u == [t EXCEPT !.spilled = TRUE]
<1>0. t \in Good
  BY DEF From
<1>1. u \in Good /\ Calm(t, u) /\ u.degraded = t.degraded
  BY <1>0 DEF Calm, KvLeft, Good, StateOK
<1> HIDE DEF u
<1>2. u \in From(s)
  BY <1>1, CalmStays
<1>3. ~t.degraded => Grow(u, b) \in From(s)
  BY <1>1, <1>2, GrowStays
<1> QED BY <1>2, <1>3 DEF Spilled, u

LEMMA HeatedStays ==
  ASSUME st \in Good, m \in Measurements, NEW s \in Good, NEW t \in From(s), NEW b
  PROVE  Heated(t, b) \in From(s)
<1>1. Feed(t, "temp") \in From(s)
  BY FeedStays DEF Signals
<1>2. RaiseSafety(Feed(t, "temp"), b) \in From(s)
  BY <1>1, RaiseSafetyStays
<1>3. Hot(t, b) \in From(s)
  BY <1>1, <1>2, StepPowerStays DEF Hot
<1> DEFINE e == Feed(Hot(t, b), "membw")
<1>4. e \in From(s)
  BY <1>3, FeedStays DEF Signals
<1>5. m.gaming \in BOOLEAN
  BY DEF Measurements, Flags
<1> HIDE DEF e
<1>6. e \in Good
  BY <1>4 DEF From
<1>7. [e EXCEPT !.gaming = m.gaming] \in Good /\ Calm(e, [e EXCEPT !.gaming = m.gaming])
  BY <1>5, <1>6 DEF Calm, KvLeft, Good, StateOK
<1>8. [e EXCEPT !.gaming = m.gaming] \in From(s)
  BY <1>4, <1>7, CalmStays
<1> QED BY <1>8 DEF Heated, Gated, e

LEMMA HostStays ==
  ASSUME m \in Measurements, NEW s \in Good, NEW t \in From(s), NEW b
  PROVE  MemPressed(t, b) \in From(s) /\ CpuPressed(t, b) \in From(s) /\ Linked(t, b) \in From(s)
<1>1. ASSUME NEW name \in Signals PROVE Feed(t, name) \in From(s)
  BY <1>1, FeedStays
<1>2. ASSUME NEW f \in From(s), NEW w \in Int, NEW v \in Int PROVE VmLevers(f, w, v, b) \in From(s)
  <2>1. StepTo(f, "watermark", w, 50, b) \in From(s)
    BY StepToStays, LeverNames
  <2> QED BY <2>1, StepToStays, LeverNames DEF VmLevers
<1>3. MemPressed(t, b) \in From(s)
  <2>1. Feed(t, "psiMem") \in From(s)
    BY <1>1 DEF Signals
  <2> QED BY <2>1, <1>2 DEF MemPressed
<1>4. CpuPressed(t, b) \in From(s)
  <2>1. Feed(t, "psiCpu") \in From(s)
    BY <1>1 DEF Signals
  <2> QED BY <2>1, SetToStays, LeverNames DEF CpuPressed
<1>5. Linked(t, b) \in From(s)
  <2>1. Feed(t, "pcie") \in From(s)
    BY <1>1 DEF Signals
  <2> QED BY <2>1, SetToStays, LeverNames DEF Linked
<1> QED BY <1>3, <1>4, <1>5

LEMMA IoPressedStays ==
  ASSUME m \in Measurements, NEW s \in Good, NEW t \in From(s), NEW b
  PROVE  IoPressed(t, b) \in From(s)
<1> DEFINE f == Feed(t, "psiIo")
<1>1. f \in From(s)
  BY FeedStays DEF Signals
<1>2. ASSUME NEW cap \in Int PROVE T3Down(f, cap, b) \in From(s) /\ T3Up(f, cap, b) \in From(s)
  <2> HIDE DEF f
  <2>1. Most(T3Floor, cap - T3Step) \in Int /\ cap + T3Step \in Int
    BY <1>2, Amounts DEF Most
  <2>2. /\ StepTo(f, "t3cap", Most(T3Floor, cap - T3Step), T3Lever, b) \in From(s)
        /\ StepTo(f, "t3cap", 0, T3Lever, b) \in From(s)
        /\ StepTo(f, "t3cap", cap + T3Step, T3Lever, b) \in From(s)
    BY <1>1, <2>1, StepToStays, LeverNames, Amounts
  <2>3. ASSUME NEW g \in From(s), NEW v \in BOOLEAN PROVE [g EXCEPT !.t3 = v] \in From(s)
    <3>1. g \in Good
      BY DEF From
    <3>2. [g EXCEPT !.t3 = v] \in Good /\ Calm(g, [g EXCEPT !.t3 = v])
      BY <3>1 DEF Calm, KvLeft, Good, StateOK
    <3> QED BY <3>2, CalmStays
  <2> QED BY <1>1, <2>2, <2>3 DEF T3Down, T3Up
<1>3. Known(t.c, "t3cap", T3Size) \in Int /\ Known(t.c, "t3cap", 0) \in Int
  BY KnownHere, LeverNames, Amounts DEF From
<1> QED BY <1>1, <1>2, <1>3 DEF IoPressed

\* After Loop A: either it saw nothing new, or the daemon is degraded.
Late(f) ==
  {u \in Good : Knows(u) /\ KvKnown(u.c) /\ (u.eccSeen = f.eccSeen => u \in From(f))}

LEMMA LateStays ==
  ASSUME NEW f \in Good, NEW u \in Late(f), NEW v \in From(u), u \in From(f) => v \in From(f)
  PROVE  v \in Late(f)
<1>1. Knows(v) /\ KvKnown(v.c) /\ v \in Good /\ v.eccSeen = u.eccSeen
  BY DEF Late, From, Knows
<1> QED BY <1>1 DEF Late

LEMMA EccedIsLate ==
  ASSUME IInv, EccInv, NEW t \in From(Flagged(st)), NEW b
  PROVE  Unless(t, Ecced(t, b)) \in Late(Flagged(st))
<1> DEFINE f == Flagged(st)
<1>1. /\ f \in Good /\ st \in Good /\ t \in Good /\ m \in Measurements
  BY FlaggedKeeps DEF IInv, From
<1>2. /\ m.dbe \in Nat /\ st.seen \in Nat /\ st.eccSeen \in Nat /\ t.eccSeen \in Nat
  BY <1>1 DEF Measurements, Good, StateOK
<1>3. /\ f.c = st.c /\ f.eccSeen = st.eccSeen /\ f.degraded = st.degraded /\ ~f.aborted
      /\ f.ecc = IF m.dbe > st.seen THEN m.dbe ELSE st.ecc
  BY <1>1 DEF Flagged, EccInv, Good, StateOK
<1> HIDE DEF f
<1>4. /\ t.ecc = f.ecc /\ t.eccSeen = f.eccSeen /\ t.degraded = f.degraded /\ KvKnown(t.c)
      /\ t.aborted => Raises(t.c)
      /\ Raises(st.c) => Raises(t.c)
  BY <1>3 DEF From, f
<1>5. t.eccSeen > 0 => t.degraded
  BY <1>3, <1>4 DEF EccInv, Knows
<1>6. CASE t.aborted
  <2>1. Knows(t)
    BY <1>4, <1>5, <1>6 DEF Knows
  <2> QED BY <2>1, <1>1, <1>4, <1>6 DEF Unless, Late, f
<1>7. CASE ~t.aborted /\ m.dbe > t.eccSeen
  <2> DEFINE r == RaiseSafety(t, b)
             mb == Most(0, Known(t.c, "kv", KvDefault) - KvStep)
             k == SetKv(r, mb, b)
             u == Degrade(t, b)
  <2>1. u \in Good
    <3>1. Ecced(t, b) = u
      BY <1>7 DEF Ecced
    <3> QED BY <3>1, <1>1, EccedKeeps
  <2>2. r \in Good /\ KvKnown(r.c)
    <3>1. t \in From(t)
      BY <1>1, <1>4, Reflexive
    <3> QED BY <3>1, <1>1, RaiseSafetyStays DEF From
  <2>3. KvKnown(k.c)
    <3>1. mb \in Int
      <4>1. Known(t.c, "kv", KvDefault) \in Int
        BY <1>1, KnownHere, LeverNames, Amounts
      <4> QED BY <4>1, Amounts DEF Most
    <3> HIDE DEF mb, r
    <3>2. Bounded(r.c.last["kv"], mb, KvLever) \in Int
      BY <2>2, <3>1, LeverNames, Amounts, ControlAssumption DEF Bounded, Most, Least, Good, GoodControl, Control
    <3>3. KvKnown(Lever(r.c, "kv", Bounded(r.c.last["kv"], mb, KvLever), b))
      BY <2>2, <3>2, KvLevered DEF Good
    <3>4. k.c = Lever(r.c, "kv", Bounded(r.c.last["kv"], mb, KvLever), b)
      BY <2>2 DEF SetKv, StepTo, Step, Good, StateOK
    <3> QED BY <3>3, <3>4
  <2>4. k \in Good
    <3>1. mb \in Int
      <4>1. Known(t.c, "kv", KvDefault) \in Int
        BY <1>1, KnownHere, LeverNames, Amounts
      <4> QED BY <4>1, Amounts DEF Most
    <3> HIDE DEF mb, r
    <3> QED BY <2>2, <3>1, SetKvKeeps
  <2>5. u.c = k.c /\ u.degraded /\ u.eccSeen = m.dbe
    <3>1. u = [k EXCEPT !.eccSeen = m.dbe, !.degraded = TRUE, !.ecc = m.dbe]
      BY DEF Degrade
    <3> HIDE DEF k, u
    <3> QED BY <2>4, <3>1 DEF Good, StateOK
  <2>6. u.eccSeen # f.eccSeen
    BY <2>5, <1>2, <1>4, <1>7
  <2>7. u \in Late(f)
    <3> HIDE DEF u, k
    <3> QED BY <2>1, <2>3, <2>5, <2>6 DEF Late, Knows
  <2> QED BY <2>7, <1>7 DEF Unless, Ecced, f
<1>8. CASE ~t.aborted /\ ~(m.dbe > t.eccSeen)
  <2>1. t.ecc > 0 => t.degraded \/ Raises(t.c)
    <3>1. CASE m.dbe > st.seen
      BY <3>1, <1>2, <1>5, <1>8
    <3>2. CASE ~(m.dbe > st.seen)
      BY <3>2, <1>3, <1>4 DEF EccInv, Knows
    <3> QED BY <3>1, <3>2
  <2>2. t \in Late(f)
    BY <1>1, <1>4, <1>5, <2>1 DEF Late, Knows, f
  <2> QED BY <2>2, <1>8 DEF Unless, Ecced, f
<1> QED BY <1>6, <1>7, <1>8

\* The whole of a tick.
LEMMA TickRatchets ==
  ASSUME IInv, EccInv, NEW b, NEW s \in AfterTick(b)
  PROVE  /\ Knows(s) /\ KvKnown(s.c) /\ s \in Good
         /\ s.eccSeen = st.eccSeen /\ s.c.hw["kv"] > st.c.hw["kv"]
              => ~st.degraded /\ s.c.hw["kv"] + st.ws + Weights <= Total
<1> DEFINE f == Flagged(st)
<1>1. f \in Good /\ st \in Good /\ m \in Measurements
  BY FlaggedKeeps DEF IInv
<1>2. f.c = st.c /\ f.eccSeen = st.eccSeen /\ f.degraded = st.degraded /\ f.ws = st.ws
  BY <1>1 DEF Flagged, Good, StateOK
<1> HIDE DEF f
<1>3. f \in From(f)
  BY <1>1, <1>2, Reflexive DEF EccInv
<1>4. AfterThrottle(b) \subseteq From(f)
  BY <1>1, <1>3, ThrottledStays DEF AfterThrottle, f
<1>5. AfterPhase(b) \subseteq From(f)
  BY <1>1, <1>4, PhasedStays DEF AfterPhase
<1>6. AfterTimer(b) \subseteq From(f)
  BY <1>1, <1>5, TimedStays DEF AfterTimer
<1>7. AfterEcc(b) \subseteq Late(f)
  BY <1>6, EccedIsLate DEF AfterEcc, f
<1>8. ASSUME NEW u \in Late(f) PROVE u \in From(u) /\ u \in Good
  BY <1>8, Reflexive DEF Late
<1>9. AfterKv(b) \subseteq Late(f)
  <2> SUFFICES ASSUME NEW u \in AfterEcc(b) PROVE Unless(u, Pressured(u, b)) \in Late(f)
    BY DEF AfterKv
  <2>1. u \in Late(f)
    BY <1>7
  <2>2. Pressured(u, b) \in From(u) /\ (u \in From(f) => Pressured(u, b) \in From(f))
    BY <1>1, <1>8, <2>1, PressuredStays
  <2> QED BY <1>1, <2>1, <2>2, LateStays DEF Unless
<1>10. AfterSpill(b) \subseteq Late(f)
  <2> SUFFICES ASSUME NEW u \in AfterKv(b) PROVE Unless(u, Spilled(u, b)) \in Late(f)
    BY DEF AfterSpill
  <2>1. u \in Late(f)
    BY <1>9
  <2>2. Spilled(u, b) \in From(u) /\ (u \in From(f) => Spilled(u, b) \in From(f))
    BY <1>1, <1>8, <2>1, SpilledStays
  <2> QED BY <1>1, <2>1, <2>2, LateStays DEF Unless
<1>11. AfterHeat(b) \subseteq Late(f)
  <2> SUFFICES ASSUME NEW u \in AfterSpill(b) PROVE Unless(u, Heated(u, b)) \in Late(f)
    BY DEF AfterHeat
  <2>1. u \in Late(f)
    BY <1>10
  <2>2. Heated(u, b) \in From(u) /\ (u \in From(f) => Heated(u, b) \in From(f))
    BY <1>1, <1>8, <2>1, HeatedStays
  <2> QED BY <1>1, <2>1, <2>2, LateStays DEF Unless
<1>12. ASSUME NEW u \in Late(f)
       PROVE  /\ Unless(u, MemPressed(u, b)) \in Late(f) /\ Unless(u, CpuPressed(u, b)) \in Late(f)
              /\ Unless(u, IoPressed(u, b)) \in Late(f) /\ Unless(u, Linked(u, b)) \in Late(f)
  <2>1. /\ MemPressed(u, b) \in From(u) /\ CpuPressed(u, b) \in From(u)
        /\ Linked(u, b) \in From(u) /\ IoPressed(u, b) \in From(u)
    BY <1>1, <1>8, HostStays, IoPressedStays
  <2>2. u \in From(f) => /\ MemPressed(u, b) \in From(f) /\ CpuPressed(u, b) \in From(f)
                         /\ Linked(u, b) \in From(f) /\ IoPressed(u, b) \in From(f)
    BY <1>1, HostStays, IoPressedStays
  <2> QED BY <1>1, <2>1, <2>2, LateStays DEF Unless
<1>13. AfterLink(b) \subseteq Late(f)
  <2>1. AfterMem(b) \subseteq Late(f)
    BY <1>11, <1>12 DEF AfterMem
  <2>2. AfterCpu(b) \subseteq Late(f)
    BY <2>1, <1>12 DEF AfterCpu
  <2>3. AfterIo(b) \subseteq Late(f)
    BY <2>2, <1>12 DEF AfterIo
  <2> QED BY <2>3, <1>12 DEF AfterLink
<1>14. PICK u \in Late(f) : s = Unless(u, Yielded(u, b))
  BY <1>13 DEF AfterTick
<1>15. ASSUME NEW mb \in Int
       PROVE  LET y == SetWs(Feed(u, "nonGb"), mb, b) IN
              y.ecc = u.ecc /\ y.eccSeen = u.eccSeen /\ y.degraded = u.degraded /\ KvLeft(u.c, y.c)
  <2> DEFINE g == Feed(u, "nonGb")
             d == Step(g.c, "workstation", mb, WsLever, b)
  <2>1. g \in Good /\ g.c = u.c /\ g.ecc = u.ecc /\ g.eccSeen = u.eccSeen /\ g.degraded = u.degraded
    <3>1. g \in From(u)
      BY <1>1, <1>8, FeedStays DEF Signals
    <3>2. g.c = u.c
      BY <1>8 DEF Feed, Good, StateOK
    <3> QED BY <3>1, <3>2 DEF From
  <2> HIDE DEF g
  <2>2. Bounded(g.c.last["workstation"], mb, WsLever) \in Int
    BY <2>1, LeverNames, Amounts, ControlAssumption DEF Bounded, Most, Least, Good, GoodControl, Control
  <2>3. KvLeft(g.c, d)
    BY <2>1, <2>2, LeverLeavesKv, LeverNames DEF Step, Good
  <2> HIDE DEF d
  <2>4. LET y == Remember(g, d, mb) IN
        y.ecc = g.ecc /\ y.eccSeen = g.eccSeen /\ y.degraded = g.degraded /\ y.c = d
    BY <2>1 DEF Remember, Good, StateOK
  <2> QED BY <2>1, <2>3, <2>4 DEF SetWs, g, d
<1>16. /\ s.ecc = u.ecc /\ s.eccSeen = u.eccSeen /\ s.degraded = u.degraded /\ KvLeft(u.c, s.c)
  <2>1. u.ws \in Int
    BY <1>8 DEF Good, StateOK
  <2>2. Least(WsCap, u.ws + WsStep) \in Int /\ Most(0, u.ws - WsStep) \in Int
    BY <2>1, Amounts DEF Least, Most
  <2>3. LET g == Feed(u, "nonGb") IN
        g.ecc = u.ecc /\ g.eccSeen = u.eccSeen /\ g.degraded = u.degraded /\ KvLeft(u.c, g.c)
    BY <1>8 DEF Feed, Good, StateOK, KvLeft
  <2>4. s \in {u, Feed(u, "nonGb"), SetWs(Feed(u, "nonGb"), Least(WsCap, u.ws + WsStep), b),
               SetWs(Feed(u, "nonGb"), Most(0, u.ws - WsStep), b)}
    BY <1>14 DEF Unless, Yielded
  <2>5. KvLeft(u.c, u.c)
    BY DEF KvLeft
  <2> QED BY <1>15, <2>2, <2>3, <2>4, <2>5
<1>17. Knows(s) /\ KvKnown(s.c)
  BY <1>16 DEF Late, Knows, KvKnown, KvLeft
<1>18. s \in Good
  BY <1>1, TickKeeps
<1>19. ASSUME s.eccSeen = st.eccSeen, s.c.hw["kv"] > st.c.hw["kv"]
       PROVE  ~st.degraded /\ s.c.hw["kv"] + st.ws + Weights <= Total
  <2>1. u \in From(f)
    BY <1>2, <1>16, <1>19 DEF Late
  <2> QED BY <2>1, <1>2, <1>16, <1>19 DEF From, KvLeft
<1> QED BY <1>17, <1>18, <1>19

LEMMA StartedRatchets ==
  ASSUME NEW c \in GoodControl, NEW ecc \in Nat, st' = Started(c, ecc)
  PROVE  EccInv'
<1>1. /\ st'.ecc = ecc /\ st'.eccSeen = ecc /\ st'.degraded = (ecc > 0) /\ ~st'.aborted
      /\ st'.c = Forgotten(c)
  BY DEF Started
<1>2. Forgotten(c).last["kv"] = None
  BY LeverNames DEF Forgotten, GoodControl, Control
<1> QED BY <1>1, <1>2 DEF EccInv, Knows, KvKnown

LEMMA TickStepRatchets ==
  ASSUME IInv, EccInv, Tick
  PROVE  /\ EccInv'
         /\ st'.eccSeen = st.eccSeen /\ st'.c.hw["kv"] > st.c.hw["kv"]
              => ~st.degraded /\ st'.c.hw["kv"] + st.ws + Weights <= Total
<1>1. PICK b \in Broken : \E s \in AfterTick(b) : st' = [s EXCEPT !.c.recent = {}, !.aborted = FALSE]
  BY DEF Tick
<1>2. PICK s \in AfterTick(b) : st' = [s EXCEPT !.c.recent = {}, !.aborted = FALSE]
  BY <1>1
<1>3. /\ Knows(s) /\ KvKnown(s.c) /\ s \in Good
      /\ s.eccSeen = st.eccSeen /\ s.c.hw["kv"] > st.c.hw["kv"]
           => ~st.degraded /\ s.c.hw["kv"] + st.ws + Weights <= Total
  BY TickRatchets
<1>4. /\ st'.ecc = s.ecc /\ st'.eccSeen = s.eccSeen /\ st'.degraded = s.degraded /\ ~st'.aborted
      /\ st'.c.hw = s.c.hw /\ st'.c.last = s.c.last /\ st'.c.base = s.c.base
  BY <1>2, <1>3 DEF Good, StateOK, Control
<1> QED BY <1>3, <1>4 DEF EccInv, Knows, KvKnown, Raises

LEMMA RevertRatchets ==
  ASSUME IInv, EccInv, Revert
  PROVE  EccInv' /\ st'.eccSeen = st.eccSeen /\ st'.c.hw["kv"] = st.c.hw["kv"]
<1>1. st \in Good /\ st.c \in GoodControl
  BY DEF IInv, Good
<1>2. st' = [st EXCEPT !.c = PutBack(st.c, {})]
  BY DEF Revert, Reverted
<1>3. /\ st'.ecc = st.ecc /\ st'.eccSeen = st.eccSeen /\ st'.degraded = st.degraded
      /\ st'.aborted = st.aborted /\ st'.c = PutBack(st.c, {})
  BY <1>1, <1>2 DEF Good, StateOK
<1>4. /\ PutBack(st.c, {}).base = st.c.base /\ PutBack(st.c, {}).last = st.c.last
      /\ PutBack(st.c, {}).hw["kv"] = st.c.hw["kv"]
  BY <1>1, KvIsASetting DEF PutBack, Restorable, GoodControl, Control
<1> QED BY <1>3, <1>4 DEF EccInv, Knows, KvKnown, Raises

LEMMA StepRatchets ==
  ASSUME IInv, EccInv, [Next]_vars
  PROVE  /\ EccInv'
         /\ alive /\ alive' /\ st'.eccSeen = st.eccSeen /\ st'.c.hw["kv"] > st.c.hw["kv"]
              => ~st.degraded /\ st'.c.hw["kv"] + st.ws + Weights <= Total
<1>1. st.c \in GoodControl /\ st.ecc \in Nat /\ st.c.hw["kv"] \in Int
  BY LeverNames DEF IInv, Good, StateOK, GoodControl, Control
<1>2. CASE Measure \/ UNCHANGED vars
  <2>1. st' = st
    BY <1>2 DEF Measure, vars
  <2> QED BY <1>1, <2>1 DEF EccInv
<1>3. CASE Tick
  BY <1>3, TickStepRatchets
<1>4. CASE Stop
  <2>1. ResetClocks(st.c, {}) \in GoodControl
    BY <1>1, ResetClocksKeeps
  <2> QED BY <1>1, <1>4, <2>1, StartedRatchets DEF Stop
<1>5. CASE Die
  <2>1. PICK s \in Points({}) : st' = Started(s.c, s.ecc)
    BY <1>5 DEF Die
  <2>2. s.c \in GoodControl /\ s.ecc \in Nat
    <3>1. s \in Good
      BY TickKeeps DEF IInv
    <3> QED BY <3>1 DEF Good, StateOK
  <2> QED BY <1>5, <2>1, <2>2, StartedRatchets DEF Die
<1>6. CASE Start
  <2>1. PICK ecc \in {st.ecc} \cup (IF st.ecc > 0 THEN {1} ELSE {}) : st' = Started(st.c, ecc)
    BY <1>6 DEF Start
  <2>2. ecc \in Nat
    BY <1>1, <2>1
  <2> QED BY <1>1, <1>6, <2>1, <2>2, StartedRatchets DEF Start
<1>7. CASE Revert
  BY <1>1, <1>7, RevertRatchets
<1> QED BY <1>2, <1>3, <1>4, <1>5, <1>6, <1>7 DEF Next

LEMMA InitRatchets == Init => EccInv
<1> SUFFICES ASSUME Init PROVE EccInv
  OBVIOUS
<1>1. st = Started(Untouched, 0)
  BY DEF Init
<1>2. /\ st.ecc = 0 /\ st.eccSeen = 0 /\ ~st.aborted /\ st.c = Forgotten(Untouched)
  BY <1>1 DEF Started
<1>3. Forgotten(Untouched).last["kv"] = None
  BY LeverNames DEF Forgotten, Untouched
<1> QED BY <1>2, <1>3 DEF EccInv, Knows, KvKnown

\* A daemon on a machine with an ECC flag is degraded, whatever deaths and restarts; and no tick that saw
\* no new error raises the KV reserve of a degraded daemon, or past what the card leaves for it.
THEOREM EccIsRatcheted == Spec => EccRatchet
<1>1. IInv /\ EccInv /\ [Next]_vars => EccInv'
  BY StepRatchets
<1>2. IInv /\ IInv' /\ EccInv /\ EccInv' /\ [Next]_vars
        => [/\ alive' /\ st'.ecc > 0 => st'.degraded \/ Raises(st'.c)
            /\ alive /\ alive' /\ st'.eccSeen = st.eccSeen /\ st'.c.hw["kv"] > st.c.hw["kv"]
                 => ~st.degraded /\ st'.c.hw["kv"] + st.ws + Weights <= Total]_vars
  BY StepRatchets DEF EccInv, Knows
<1> QED BY <1>1, <1>2, InitRatchets, OrchestratorInvariance, PTL DEF Spec, EccRatchet

-----------------------------------------------------------------------------
(***************************************************************************)
(* The phase lock of gb_phase.py, for any number of calls, users and       *)
(* models: a lock file that is created empty and judged by its age.        *)
(***************************************************************************)

\* From the creation of the lock file to the end of release().
Critical == {"write", "vram", "cleanup", "cleanunlink", "held", "relread", "relunlink"}

\* Until some process has unlinked a lock it judged stale, at most one process is
\* past the creation of the file, and the file is there.  Which file it is does
\* not matter: a heartbeat that outlived its lease may have recreated it, and then
\* nobody is critical.
OneCritical ==
  ~stolen => \A p \in Procs : pc[p] \in Critical =>
               /\ lock # NoFile
               /\ \A q \in Procs : pc[q] \in Critical => p = q

\* Only a lease has a thread.
ThreadOfALease ==
  \A p \in Procs : pc[p] \notin {"held", "relread", "relunlink", "done"} => hb[p] = "off"

\* The inode a process is about to write is the one it created.
OwnInode ==
  \A p \in Procs : pc[p] = "write" /\ lock # NoFile => (lock.ino = fd[p] => lock.by = p)

\* A record of p is first written by p, after "write", into a file of its own.
RecordOfItsOwner ==
  \A p \in Procs :
    /\ pc[p] \in {"open", "judge", "unlink", "write", "refused"} => ~Own(p)
    /\ pc[p] \in {"vram", "cleanup", "cleanunlink"} /\ Own(p) => lock.by = p

PhaseInv == PTypeOK /\ OneCritical /\ ThreadOfALease /\ OwnInode /\ RecordOfItsOwner

USE DEF Waiting, Leased, Ended

-----------------------------------------------------------------------------
\* A write leaves the file at the path alone, or replaces only its text.
LEMMA WrittenFile ==
  ASSUME lock \in File \cup {NoFile}, NEW i, NEW text \in Text, NEW l \in Written(i, text)
  PROVE  \/ l = lock
         \/ /\ lock # NoFile /\ l # NoFile /\ lock.ino = i
            /\ l \in File
            /\ l.ino = lock.ino /\ l.by = lock.by
            /\ l.text = text \/ l.text = Unparsed
<1>1. CASE lock = NoFile \/ lock.ino # i
  BY <1>1 DEF Written
<1>2. CASE lock # NoFile /\ lock.ino = i
  <2>1. PICK t \in {text, Unparsed} : l = [lock EXCEPT !.text = t]
    BY <1>2 DEF Written
  <2>2. t \in Text
    BY <2>1 DEF Text
  <2>3. lock \in File
    BY <1>2
  <2> QED BY <1>2, <2>1, <2>2, <2>3, PhaseAssumption DEF File
<1> QED BY <1>1, <1>2

\* Every action keeps the shapes of the variables.
LEMMA TypeInvariance == PTypeOK /\ [PNext]_pvars => PTypeOK'
<1> SUFFICES ASSUME PTypeOK, [PNext]_pvars PROVE PTypeOK'
  OBVIOUS
<1> USE PhaseAssumption DEF PTypeOK, Goto, File, Text, Stamp, Unparsed
<1>1. ASSUME NEW p \in Procs, Acquire(p) PROVE PTypeOK'
  <2>1. CASE Create(p) BY <2>1 DEF Create
  <2>2. CASE Exists(p) BY <2>2 DEF Exists
  <2>3. CASE Write(p)
    <3>1. Stamp(p, fresh[p]) \in Text
      OBVIOUS
    <3>2. lock' \in File \cup {NoFile}
      BY <2>3, <3>1, WrittenFile DEF Write
    <3> QED BY <2>3, <3>2 DEF Write
  <2>4. CASE WriteFails(p) BY <2>4 DEF WriteFails
  <2>5. CASE Judge(p) BY <2>5 DEF Judge
  <2>6. CASE UnlinkStale(p) BY <2>6 DEF UnlinkStale, Unlinked
  <2>7. CASE VramFree(p) BY <2>7 DEF VramFree
  <2>8. CASE PauseServed(p) BY <2>8 DEF PauseServed
  <2>9. CASE VramShort(p) BY <2>9 DEF VramShort
  <2>10. CASE VramRaises(p) BY <2>10 DEF VramRaises
  <2>11. CASE CleanupRead(p) BY <2>11 DEF CleanupRead
  <2>12. CASE CleanupUnlink(p) BY <2>12 DEF CleanupUnlink, Unlinked
  <2> QED BY <1>1, <2>1, <2>2, <2>3, <2>4, <2>5, <2>6, <2>7, <2>8, <2>9, <2>10,
             <2>11, <2>12 DEF Acquire
<1>2. ASSUME NEW p \in Procs, Release(p) PROVE PTypeOK'
  <2>1. CASE StartRelease(p) BY <2>1 DEF StartRelease
  <2>2. CASE ReleaseRead(p) BY <2>2 DEF ReleaseRead
  <2>3. CASE ReleaseUnlink(p) BY <2>3 DEF ReleaseUnlink, Unlinked
  <2> QED BY <1>2, <2>1, <2>2, <2>3 DEF Release
<1>3. ASSUME NEW p \in Procs, Beat(p) PROVE PTypeOK'
  <2>1. CASE BeatRead(p) BY <2>1 DEF BeatRead, Looped
  <2>2. CASE BeatOpen(p) BY <2>2 DEF BeatOpen, Truncated, Looped
  <2>3. CASE BeatWrite(p)
    <3>1. Stamp(p, TRUE) \in Text
      OBVIOUS
    <3>2. lock' \in File \cup {NoFile}
      BY <2>3, <3>1, WrittenFile DEF BeatWrite
    <3> QED BY <2>3, <3>2 DEF BeatWrite, Looped
  <2>4. CASE BeatStop(p) BY <2>4 DEF BeatStop
  <2> QED BY <1>3, <2>1, <2>2, <2>3, <2>4 DEF Beat
<1>4. ASSUME NEW p \in Procs, Dies(p) \/ DeadlinePasses(p) \/ StampAges(p) PROVE PTypeOK'
  <2>1. CASE Dies(p) BY <2>1 DEF Dies
  <2>2. CASE DeadlinePasses(p) BY <2>2 DEF DeadlinePasses
  <2>3. CASE StampAges(p) BY <2>3 DEF StampAges
  <2> QED BY <1>4, <2>1, <2>2, <2>3
<1>5. CASE HeartbeatAges
  BY <1>5 DEF HeartbeatAges
<1>6. CASE UNCHANGED pvars
  BY <1>6 DEF pvars
<1> QED BY <1>1, <1>2, <1>3, <1>4, <1>5, <1>6 DEF PNext

-----------------------------------------------------------------------------
\* Exclusion of the critical section.
LEMMA OneCriticalInvariance ==
  PTypeOK /\ OneCritical /\ [PNext]_pvars => OneCritical'
<1> SUFFICES ASSUME PTypeOK, OneCritical, [PNext]_pvars PROVE OneCritical'
  OBVIOUS
<1> USE PhaseAssumption DEF OneCritical, Critical, Goto
<1>0. pc \in [Procs -> Waiting \cup Leased \cup Ended \cup {"cleanup", "cleanunlink"}]
      /\ lock \in File \cup {NoFile}
  BY DEF PTypeOK
<1>1. ASSUME NEW p \in Procs, Acquire(p) PROVE OneCritical'
  <2>1. CASE Create(p)
    <3>1. lock' # NoFile
      BY <2>1 DEF Create, File, Text
    <3> QED BY <1>0, <2>1, <3>1 DEF Create
  <2>2. CASE Exists(p) BY <1>0, <2>2 DEF Exists
  <2>3. CASE Write(p)
    <3>1. Stamp(p, fresh[p]) \in Text
      BY DEF PTypeOK, Stamp, Text
    <3>2. lock # NoFile => lock' # NoFile
      BY <1>0, <2>3, <3>1, WrittenFile DEF Write
    <3> QED BY <1>0, <2>3, <3>2 DEF Write
  <2>4. CASE WriteFails(p) BY <1>0, <2>4 DEF WriteFails
  <2>5. CASE Judge(p) BY <1>0, <2>5 DEF Judge
  <2>6. CASE UnlinkStale(p) BY <1>0, <2>6 DEF UnlinkStale, Unlinked, PTypeOK
  <2>7. CASE VramFree(p) BY <1>0, <2>7 DEF VramFree
  <2>8. CASE PauseServed(p) BY <1>0, <2>8 DEF PauseServed
  <2>9. CASE VramShort(p) BY <1>0, <2>9 DEF VramShort
  <2>10. CASE VramRaises(p) BY <1>0, <2>10 DEF VramRaises
  <2>11. CASE CleanupRead(p) BY <1>0, <2>11 DEF CleanupRead
  <2>12. CASE CleanupUnlink(p) BY <1>0, <2>12 DEF CleanupUnlink
  <2> QED BY <1>1, <2>1, <2>2, <2>3, <2>4, <2>5, <2>6, <2>7, <2>8, <2>9, <2>10,
             <2>11, <2>12 DEF Acquire
<1>2. ASSUME NEW p \in Procs, Release(p) PROVE OneCritical'
  <2>1. CASE StartRelease(p) BY <1>0, <2>1 DEF StartRelease
  <2>2. CASE ReleaseRead(p) BY <1>0, <2>2 DEF ReleaseRead
  <2>3. CASE ReleaseUnlink(p) BY <1>0, <2>3 DEF ReleaseUnlink
  <2> QED BY <1>2, <2>1, <2>2, <2>3 DEF Release
<1>3. ASSUME NEW p \in Procs, Beat(p) PROVE OneCritical'
  <2>1. CASE BeatRead(p) BY <2>1 DEF BeatRead
  <2>2. CASE BeatOpen(p)
    <3>1. lock # NoFile => lock' # NoFile
      BY <1>0, <2>2 DEF BeatOpen, Truncated, File, Text
    <3> QED BY <2>2, <3>1 DEF BeatOpen
  <2>3. CASE BeatWrite(p)
    <3>1. Stamp(p, TRUE) \in Text
      BY DEF Stamp, Text
    <3>2. lock # NoFile => lock' # NoFile
      BY <1>0, <2>3, <3>1, WrittenFile DEF BeatWrite
    <3> QED BY <2>3, <3>2 DEF BeatWrite
  <2>4. CASE BeatStop(p) BY <2>4 DEF BeatStop
  <2> QED BY <1>3, <2>1, <2>2, <2>3, <2>4 DEF Beat
<1>4. ASSUME NEW p \in Procs, Dies(p) \/ DeadlinePasses(p) \/ StampAges(p)
      PROVE  OneCritical'
  BY <1>0, <1>4 DEF Dies, DeadlinePasses, StampAges
<1>5. CASE HeartbeatAges
  <2>1. lock.text \in [token : Procs, fresh : BOOLEAN]
    BY <1>0, <1>5 DEF HeartbeatAges, File, Text
  <2>2. [lock EXCEPT !.text.fresh = FALSE] \in File
    BY <1>0, <1>5, <2>1 DEF HeartbeatAges, File, Text
  <2>3. lock' # NoFile
    BY <1>5, <2>2 DEF HeartbeatAges
  <2> QED BY <1>5, <2>3 DEF HeartbeatAges
<1>6. CASE UNCHANGED pvars
  BY <1>6 DEF pvars
<1> QED BY <1>1, <1>2, <1>3, <1>4, <1>5, <1>6 DEF PNext

-----------------------------------------------------------------------------
\* Threads belong to leases.
LEMMA ThreadInvariance ==
  PTypeOK /\ ThreadOfALease /\ [PNext]_pvars => ThreadOfALease'
<1> SUFFICES ASSUME PTypeOK, ThreadOfALease, [PNext]_pvars PROVE ThreadOfALease'
  OBVIOUS
<1> USE PhaseAssumption DEF ThreadOfALease, Goto
<1>0. pc \in [Procs -> Waiting \cup Leased \cup Ended \cup {"cleanup", "cleanunlink"}]
      /\ hb \in [Procs -> {"off", "idle", "mine", "write"}]
      /\ fd \in [Procs -> Inodes \cup {0}]
      /\ lock \in File \cup {NoFile}
  BY DEF PTypeOK
<1>1. ASSUME NEW p \in Procs, Acquire(p) PROVE ThreadOfALease'
  <2>1. CASE Create(p) BY <1>0, <2>1 DEF Create
  <2>2. CASE Exists(p) BY <1>0, <2>2 DEF Exists
  <2>3. CASE Write(p) BY <1>0, <2>3 DEF Write
  <2>4. CASE WriteFails(p) BY <1>0, <2>4 DEF WriteFails
  <2>5. CASE Judge(p) BY <1>0, <2>5 DEF Judge
  <2>6. CASE UnlinkStale(p) BY <1>0, <2>6 DEF UnlinkStale, Unlinked
  <2>7. CASE VramFree(p) BY <1>0, <2>7 DEF VramFree
  <2>8. CASE PauseServed(p) BY <1>0, <2>8 DEF PauseServed
  <2>9. CASE VramShort(p) BY <1>0, <2>9 DEF VramShort
  <2>10. CASE VramRaises(p) BY <1>0, <2>10 DEF VramRaises
  <2>11. CASE CleanupRead(p) BY <1>0, <2>11 DEF CleanupRead
  <2>12. CASE CleanupUnlink(p) BY <1>0, <2>12 DEF CleanupUnlink, Unlinked
  <2> QED BY <1>1, <2>1, <2>2, <2>3, <2>4, <2>5, <2>6, <2>7, <2>8, <2>9,
             <2>10, <2>11, <2>12 DEF Acquire
<1>2. ASSUME NEW p \in Procs, Release(p) PROVE ThreadOfALease'
  <2>1. CASE StartRelease(p) BY <1>0, <2>1 DEF StartRelease
  <2>2. CASE ReleaseRead(p) BY <1>0, <2>2 DEF ReleaseRead
  <2>3. CASE ReleaseUnlink(p) BY <1>0, <2>3 DEF ReleaseUnlink, Unlinked
  <2> QED BY <1>2, <2>1, <2>2, <2>3 DEF Release
<1>3. ASSUME NEW p \in Procs, Beat(p) PROVE ThreadOfALease'
  <2>1. CASE BeatRead(p) BY <1>0, <2>1 DEF BeatRead, Looped
  <2>2. CASE BeatOpen(p) BY <1>0, <2>2 DEF BeatOpen, Truncated, Looped
  <2>3. CASE BeatWrite(p) BY <1>0, <2>3 DEF BeatWrite, Looped
  <2>4. CASE BeatStop(p) BY <1>0, <2>4 DEF BeatStop
  <2> QED BY <1>3, <2>1, <2>2, <2>3, <2>4 DEF Beat
<1>4. ASSUME NEW p \in Procs, Dies(p) \/ DeadlinePasses(p) \/ StampAges(p)
      PROVE  ThreadOfALease'
  BY <1>0, <1>4 DEF Dies, DeadlinePasses, StampAges
<1>5. CASE HeartbeatAges
  BY <1>0, <1>5 DEF HeartbeatAges
<1>6. CASE UNCHANGED pvars
  BY <1>6 DEF pvars
<1> QED BY <1>1, <1>2, <1>3, <1>4, <1>5, <1>6 DEF PNext

-----------------------------------------------------------------------------
\* A process writes into the file it created, whoever else has one open.
LEMMA OwnInodeInvariance ==
  PTypeOK /\ OwnInode /\ [PNext]_pvars => OwnInode'
<1> SUFFICES ASSUME PTypeOK, OwnInode, [PNext]_pvars PROVE OwnInode'
  OBVIOUS
<1> USE PhaseAssumption DEF OwnInode, Goto, Used
<1>0. pc \in [Procs -> Waiting \cup Leased \cup Ended \cup {"cleanup", "cleanunlink"}]
      /\ hb \in [Procs -> {"off", "idle", "mine", "write"}]
      /\ fd \in [Procs -> Inodes \cup {0}]
      /\ lock \in File \cup {NoFile}
  BY DEF PTypeOK
<1>1. ASSUME NEW p \in Procs, Acquire(p) PROVE OwnInode'
  <2>1. CASE Create(p) BY <1>0, <2>1 DEF Create
  <2>2. CASE Exists(p) BY <1>0, <2>2 DEF Exists
  <2>3. CASE Write(p)
    <3>1. Stamp(p, fresh[p]) \in Text
      BY DEF PTypeOK, Stamp, Text
    <3>2. \/ lock' = lock
          \/ lock # NoFile /\ lock' # NoFile /\ lock'.ino = lock.ino /\ lock'.by = lock.by
      BY <1>0, <2>3, <3>1, WrittenFile DEF Write
    <3> QED BY <1>0, <2>3, <3>2 DEF Write
  <2>4. CASE WriteFails(p) BY <1>0, <2>4 DEF WriteFails
  <2>5. CASE Judge(p) BY <1>0, <2>5 DEF Judge
  <2>6. CASE UnlinkStale(p) BY <1>0, <2>6 DEF UnlinkStale, Unlinked
  <2>7. CASE VramFree(p) BY <1>0, <2>7 DEF VramFree
  <2>8. CASE PauseServed(p) BY <1>0, <2>8 DEF PauseServed
  <2>9. CASE VramShort(p) BY <1>0, <2>9 DEF VramShort
  <2>10. CASE VramRaises(p) BY <1>0, <2>10 DEF VramRaises
  <2>11. CASE CleanupRead(p) BY <1>0, <2>11 DEF CleanupRead
  <2>12. CASE CleanupUnlink(p) BY <1>0, <2>12 DEF CleanupUnlink, Unlinked
  <2> QED BY <1>1, <2>1, <2>2, <2>3, <2>4, <2>5, <2>6, <2>7, <2>8, <2>9,
             <2>10, <2>11, <2>12 DEF Acquire
<1>2. ASSUME NEW p \in Procs, Release(p) PROVE OwnInode'
  <2>1. CASE StartRelease(p) BY <1>0, <2>1 DEF StartRelease
  <2>2. CASE ReleaseRead(p) BY <1>0, <2>2 DEF ReleaseRead
  <2>3. CASE ReleaseUnlink(p) BY <1>0, <2>3 DEF ReleaseUnlink, Unlinked
  <2> QED BY <1>2, <2>1, <2>2, <2>3 DEF Release
<1>3. ASSUME NEW p \in Procs, Beat(p) PROVE OwnInode'
  <2>1. CASE BeatRead(p) BY <1>0, <2>1 DEF BeatRead, Looped
  <2>2. CASE BeatOpen(p) BY <1>0, <2>2 DEF BeatOpen, Truncated, Looped
  <2>3. CASE BeatWrite(p)
    <3>1. Stamp(p, TRUE) \in Text
      BY DEF PTypeOK, Stamp, Text
    <3>2. \/ lock' = lock
          \/ lock # NoFile /\ lock' # NoFile /\ lock'.ino = lock.ino /\ lock'.by = lock.by
      BY <1>0, <2>3, <3>1, WrittenFile DEF BeatWrite
    <3> QED BY <1>0, <2>3, <3>2 DEF BeatWrite
  <2>4. CASE BeatStop(p) BY <1>0, <2>4 DEF BeatStop
  <2> QED BY <1>3, <2>1, <2>2, <2>3, <2>4 DEF Beat
<1>4. ASSUME NEW p \in Procs, Dies(p) \/ DeadlinePasses(p) \/ StampAges(p)
      PROVE  OwnInode'
  BY <1>0, <1>4 DEF Dies, DeadlinePasses, StampAges
<1>5. CASE HeartbeatAges
  BY <1>0, <1>5 DEF HeartbeatAges
<1>6. CASE UNCHANGED pvars
  BY <1>6 DEF pvars
<1> QED BY <1>1, <1>2, <1>3, <1>4, <1>5, <1>6 DEF PNext

-----------------------------------------------------------------------------
\* Where a record of p can be while p has not had its lease.
LEMMA RecordInvariance ==
  /\ PTypeOK /\ ThreadOfALease /\ OwnInode /\ RecordOfItsOwner /\ [PNext]_pvars
  => RecordOfItsOwner'
<1> SUFFICES ASSUME PTypeOK, ThreadOfALease, OwnInode, RecordOfItsOwner,
                    [PNext]_pvars
             PROVE  RecordOfItsOwner'
  OBVIOUS
<1> USE PhaseAssumption DEF RecordOfItsOwner, Goto, Own
<1>0. pc \in [Procs -> Waiting \cup Leased \cup Ended \cup {"cleanup", "cleanunlink"}]
      /\ hb \in [Procs -> {"off", "idle", "mine", "write"}]
      /\ fd \in [Procs -> Inodes \cup {0}]
      /\ lock \in File \cup {NoFile}
  BY DEF PTypeOK
<1>1. ASSUME NEW p \in Procs, Acquire(p) PROVE RecordOfItsOwner'
  <2>1. CASE Create(p)
    <3>1. lock' # NoFile /\ lock'.text = Unparsed
      BY <1>0, <2>1 DEF Create, File, Text
    <3> QED BY <1>0, <2>1, <3>1 DEF Create
  <2>2. CASE Exists(p) BY <1>0, <2>2 DEF Exists
  <2>3. CASE Write(p)
    <3>1. Stamp(p, fresh[p]) \in Text
      BY DEF PTypeOK, Stamp, Text
    <3>2. \/ lock' = lock
          \/ /\ lock # NoFile /\ lock' # NoFile
             /\ lock.ino = fd[p] /\ lock'.by = lock.by
             /\ lock'.text = Unparsed \/ lock'.text.token = p
      BY <1>0, <2>3, <3>1, WrittenFile DEF Write, Stamp
    <3> QED BY <1>0, <2>3, <3>2 DEF Write, OwnInode
  <2>4. CASE WriteFails(p) BY <1>0, <2>4 DEF WriteFails
  <2>5. CASE Judge(p) BY <1>0, <2>5 DEF Judge
  <2>6. CASE UnlinkStale(p) BY <1>0, <2>6 DEF UnlinkStale, Unlinked
  <2>7. CASE VramFree(p) BY <1>0, <2>7 DEF VramFree
  <2>8. CASE PauseServed(p) BY <1>0, <2>8 DEF PauseServed
  <2>9. CASE VramShort(p) BY <1>0, <2>9 DEF VramShort
  <2>10. CASE VramRaises(p) BY <1>0, <2>10 DEF VramRaises
  <2>11. CASE CleanupRead(p) BY <1>0, <2>11 DEF CleanupRead
  <2>12. CASE CleanupUnlink(p) BY <1>0, <2>12 DEF CleanupUnlink, Unlinked, SameUser
  <2> QED BY <1>1, <2>1, <2>2, <2>3, <2>4, <2>5, <2>6, <2>7, <2>8, <2>9,
             <2>10, <2>11, <2>12 DEF Acquire
<1>2. ASSUME NEW p \in Procs, Release(p) PROVE RecordOfItsOwner'
  <2>1. CASE StartRelease(p) BY <1>0, <2>1 DEF StartRelease
  <2>2. CASE ReleaseRead(p) BY <1>0, <2>2 DEF ReleaseRead
  <2>3. CASE ReleaseUnlink(p) BY <1>0, <2>3 DEF ReleaseUnlink, Unlinked
  <2> QED BY <1>2, <2>1, <2>2, <2>3 DEF Release
<1>3. ASSUME NEW p \in Procs, Beat(p) PROVE RecordOfItsOwner'
  <2>1. CASE BeatRead(p) BY <1>0, <2>1 DEF BeatRead, Looped
  <2>2. CASE BeatOpen(p) BY <1>0, <2>2 DEF BeatOpen, Truncated, Looped
  <2>3. CASE BeatWrite(p)
    <3>1. Stamp(p, TRUE) \in Text
      BY DEF PTypeOK, Stamp, Text
    <3>2. \/ lock' = lock
          \/ /\ lock # NoFile /\ lock' # NoFile
             /\ lock.ino = hbfd[p] /\ lock'.by = lock.by
             /\ lock'.text = Unparsed \/ lock'.text.token = p
      BY <1>0, <2>3, <3>1, WrittenFile DEF BeatWrite, Stamp
    <3> QED BY <1>0, <2>3, <3>2 DEF BeatWrite, ThreadOfALease
  <2>4. CASE BeatStop(p) BY <1>0, <2>4 DEF BeatStop
  <2> QED BY <1>3, <2>1, <2>2, <2>3, <2>4 DEF Beat
<1>4. ASSUME NEW p \in Procs, Dies(p) \/ DeadlinePasses(p) \/ StampAges(p)
      PROVE  RecordOfItsOwner'
  BY <1>0, <1>4 DEF Dies, DeadlinePasses, StampAges
<1>5. CASE HeartbeatAges
  <2>1. lock.text \in [token : Procs, fresh : BOOLEAN]
    BY <1>0, <1>5 DEF HeartbeatAges, File, Text
  <2>2. lock # NoFile /\ lock.text # Unparsed
        /\ lock'.by = lock.by /\ lock'.text.token = lock.text.token
    BY <1>0, <1>5, <2>1 DEF HeartbeatAges, File
  <2> QED BY <1>0, <1>5, <2>2 DEF HeartbeatAges
<1>6. CASE UNCHANGED pvars
  BY <1>6 DEF pvars
<1> QED BY <1>1, <1>2, <1>3, <1>4, <1>5, <1>6 DEF PNext

-----------------------------------------------------------------------------
\* The inductive invariant.
THEOREM PhaseInvariance == PSpec => []PhaseInv
<1>1. PInit => PhaseInv
  <2> SUFFICES ASSUME PInit PROVE PhaseInv
    OBVIOUS
  <2>1. PTypeOK
    BY DEF PInit, PTypeOK
  <2>2. OneCritical
    BY DEF PInit, OneCritical, Critical
  <2>3. ThreadOfALease /\ OwnInode /\ RecordOfItsOwner
    BY DEF PInit, ThreadOfALease, OwnInode, RecordOfItsOwner, Own
  <2> QED BY <2>1, <2>2, <2>3 DEF PhaseInv
<1>2. PhaseInv /\ [PNext]_pvars => PhaseInv'
  BY TypeInvariance, OneCriticalInvariance, ThreadInvariance, OwnInodeInvariance,
     RecordInvariance DEF PhaseInv
<1> QED BY <1>1, <1>2, PTL DEF PSpec

\* The variables keep their shapes.
THEOREM PhaseTypeCorrect == PSpec => []PTypeOK
<1>1. PhaseInv => PTypeOK
  BY DEF PhaseInv
<1> QED BY <1>1, PhaseInvariance, PTL

\* For any number of calls and users: two phases run at once only after some call
\* has unlinked a lock file because it judged it stale.
THEOREM ExclusionUnlessStolen == PSpec => []ExclusionUntilTakenForStale
<1>1. PhaseInv => ExclusionUntilTakenForStale
  BY DEF PhaseInv, OneCritical, Critical, ExclusionUntilTakenForStale, MutualExclusion, Holders
<1> QED BY <1>1, PhaseInvariance, PTL

\* A call that was refused, or that raised while it waited for VRAM, has no lock at
\* the path, also when the file was replaced between its check and its unlink.
THEOREM FailedCallsLeaveNoLock == PSpec => []FailedLeavesNoLock
<1>1. PhaseInv => FailedLeavesNoLock
  BY DEF PhaseInv, RecordOfItsOwner, FailedLeavesNoLock
<1> QED BY <1>1, PhaseInvariance, PTL
==============================================================================
