------------------------------- MODULE MCGbShim -------------------------------
(* A small instance of GbShim for TLC. *)
EXTENDS GbShim, TLC

CONSTANTS a, b, d1, h1, h2

\* All chains but one start at the first slot.
MCHash == [p \in Ptrs |-> IF p = 1 THEN 1 ELSE 0]

MCClassMax == [c \in Classes |-> IF c = 0 THEN 1 ELSE 2]

\* The threads run the same code.
Symmetry == Permutations(Threads)
=============================================================================
