------------------------------ MODULE MCGbPhase ------------------------------
(* Small instances of GbPhase for TLC. *)
EXTENDS GbPhase

CONSTANTS p1, p2, p3, m1

\* Everybody runs as the same user.
MCOneUser == [p \in Procs |-> 1]

\* The user of p1 may not remove the files of the others from a sticky directory.
MCTwoUsers == [p \in Procs |-> IF p = p1 THEN 1 ELSE 2]
=============================================================================
