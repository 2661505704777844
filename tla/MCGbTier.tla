------------------------------ MODULE MCGbTier ------------------------------
(* Small instances of GbTier for TLC. *)
EXTENDS GbTier

CONSTANTS b1, b2, b3, e1, e2, m1, m2

=============================================================================
