------------------------------ MODULE GbReactive ------------------------------
(***************************************************************************)
(* The Signal class of src/gb_reactive.py: a value that notifies its       *)
(* callbacks when it differs from the value it last notified for `confirm` *)
(* calls of set() in a row, and that is in hysteresis from the             *)
(* notification of a value at or above `enter` to one below `exit`.        *)
(*                                                                         *)
(* Readings are numbers whose order is that of the measured (smoothed)     *)
(* values.  A boolean Signal is one with readings 0 and 1 and enter = exit *)
(* = 1: its callback is called with True when it enters, with False when   *)
(* it leaves.                                                              *)
(***************************************************************************)
EXTENDS Integers

\* What a Signal keeps: _prev_notified, _confirm_count and _in_hysteresis.
Signal == [note : Int, cnt : Nat, in : BOOLEAN]

NewSignal == [note |-> 0, cnt |-> 0, in |-> FALSE]

\* _check_hysteresis: above `enter` it is in, below `exit` out, between them as before.
Hysteresis(sig, v, enter, exit) == IF sig.in THEN v >= exit ELSE v >= enter

\* Signal.set(v).
Fed(sig, v, confirm, enter, exit) ==
  IF v = sig.note THEN [sig EXCEPT !.cnt = 0]
  ELSE IF sig.cnt + 1 < confirm THEN [sig EXCEPT !.cnt = @ + 1]
  ELSE [note |-> v, cnt |-> 0, in |-> Hysteresis(sig, v, enter, exit)]

\* The callbacks that a set() runs, told from the Signal before and after it.
Entered(before, after) == ~before.in /\ after.in
Left(before, after) == before.in /\ ~after.in

===============================================================================
