------------------------------- MODULE GbControl -------------------------------
(***************************************************************************)
(* The actuator of src/gb_control.py: levers with a step bound, an         *)
(* idempotence test and a rate limit, and the baseline file from which     *)
(* `restore_baseline` undoes what was done to the operating system.        *)
(*                                                                         *)
(* A control record holds the machine and the actuator's memory of it:     *)
(*   hw      what each lever's file, register or device is set to          *)
(*   base    /run/greenboost/os_tune_baseline.json, None for a missing key *)
(*   late    the keys that were written to that file after "power"         *)
(*   last    GbControl._last, the value this process last wrote            *)
(*   recent  the levers it wrote less than min_interval_s ago              *)
(***************************************************************************)
EXTENDS Integers

CONSTANTS
  Tunables,  \* levers of the operating system and the card, with a baseline
  Settings,  \* levers of GreenBoost itself, without one
  Original,  \* what each lever is set to before GreenBoost touches it
  Actuate,   \* GB_ORCH_ACTUATE: FALSE is a dry run
  None

Levers == Tunables \cup Settings

\* -rgc, the state that the code takes for the original one of the clocks.
Unlocked == 0

ASSUME ControlAssumption ==
  /\ None \notin Int
  /\ Actuate \in BOOLEAN
  /\ Original \in [Levers -> Int]
  /\ "clocks" \in Tunables
  /\ Original["clocks"] = Unlocked

Control == [hw : [Levers -> Int], base : [Tunables -> Int \cup {None}],
            late : SUBSET Tunables, last : [Levers -> Int \cup {None}], recent : SUBSET Levers]

\* A machine that GreenBoost has not touched, and an actuator that has just been created.
Untouched == [hw |-> Original, base |-> [k \in Tunables |-> None], late |-> {},
              last |-> [k \in Levers |-> None], recent |-> {}]

\* `x or d`: what was last written to the lever, d when nothing was or when it is 0.
Known(c, k, d) == IF c.last[k] \in {None, 0} THEN d ELSE c.last[k]

Least(a, b) == IF a <= b THEN a ELSE b
Most(a, b) == IF a >= b THEN a ELSE b

\* A lever moves at most `step` from the value it was last given; the first write is not bounded.
Bounded(old, v, step) == IF old = None THEN v ELSE Most(old - step, Least(old + step, v))

\* restore_baseline reads int() of every value, and nvidia-smi answers a power limit as "115.00":
\* once that is in the file, the loop over its keys raises there.
Raises(c) == "power" \in Tunables /\ c.base["power"] # None

\* What a lever is set to when it is captured; nobody asks whether the clocks are locked.
Found(c, k) == IF k = "clocks" THEN Unlocked ELSE c.hw[k]

\* A second capture that replaces the first (mutant of Capture).
CaptureLatest(c, k) ==
  IF k \in Tunables
  THEN [c EXCEPT !.base[k] = Found(c, k), !.late = IF Raises(c) THEN @ \cup {k} ELSE @]
  ELSE c

\* _capture_baseline: the value of a tunable before the first write by anybody, once.
Capture(c, k) ==
  IF k \in Tunables /\ c.base[k] = None
  THEN [c EXCEPT !.base[k] = Found(c, k), !.late = IF Raises(c) THEN @ \cup {k} ELSE @]
  ELSE c

\* The memory of a write of v to k.
Noted(c, k, v) == [c EXCEPT !.last[k] = v, !.recent = @ \cup {k}]

\* _apply: the baseline first; then the write, which may fail.
Apply(c, k, v, broken) == IF k \in broken THEN c ELSE [Noted(c, k, v) EXCEPT !.hw[k] = v]

\* _lever and lock_gpu_clocks, for a value that is clamped already: nothing when it is the value last
\* written or the lever was written a moment ago (the call is lost).
Lever(c, k, v, broken) ==
  IF v = c.last[k] \/ k \in c.recent THEN c
  ELSE IF ~Actuate THEN Noted(IF k = "clocks" THEN Capture(c, k) ELSE c, k, v)
  ELSE Apply(Capture(c, k), k, v, broken)

\* A lever with a step bound.
Step(c, k, v, step, broken) == Lever(c, k, Bounded(c.last[k], v, step), broken)

\* The keys that the loop reaches: those captured before "power" when it raises there.
Restorable(c) == {k \in Tunables : c.base[k] # None /\ (Raises(c) => k # "power" /\ k \notin c.late)}

\* The writes of restore_baseline, each of which may fail.
PutBack(c, broken) ==
  [c EXCEPT !.hw = [k \in Levers |-> IF k \in Restorable(c) \ broken THEN c.base[k] ELSE @[k]]]

\* restore_baseline: unless it raises, or finds no file, it forgets what it wrote, of every lever.
Restore(c, broken) ==
  IF Raises(c) \/ \A k \in Tunables : c.base[k] = None
  THEN PutBack(c, broken)
  ELSE [PutBack(c, broken) EXCEPT !.last = [k \in Levers |-> None], !.recent = {}]

\* reset_gpu_clocks: only a lock that this process remembers is released.
ResetClocks(c, broken) ==
  IF c.last["clocks"] = None \/ "clocks" \in broken THEN c
  ELSE IF ~Actuate THEN [c EXCEPT !.last["clocks"] = None]
  ELSE [c EXCEPT !.last["clocks"] = None, !.hw["clocks"] = Unlocked]

\* `greenboost tune-revert`: restore_baseline in a process of its own, whose memory nobody else shares.
Reverted(c, broken) == PutBack(c, broken)

\* A new process: it remembers no lever.
Forgotten(c) == [c EXCEPT !.last = [k \in Levers |-> None], !.recent = {}]

\* Whatever of the operating system differs from how it was found can be put back from the file.
KeepsOriginals(c) == \A k \in Tunables : c.hw[k] # Original[k] => c.base[k] = Original[k]

===============================================================================
