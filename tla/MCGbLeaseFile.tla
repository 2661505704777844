---------------------------- MODULE MCGbLeaseFile ----------------------------
(* Two clients that wait and one that does not; two of them may die, the     *)
(* disk is full once, the file is damaged once and one operator repairs it.  *)
EXTENDS GbLeaseFile

CONSTANTS c1, c2, c3, o1, o2
==============================================================================
