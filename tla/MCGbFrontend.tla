---------------------------- MODULE MCGbFrontend -----------------------------
(* Three clients, one of which may hang up, share two ids on two replicas:   *)
(* an id is used twice.                                                      *)
EXTENDS GbFrontend

MCReqs == {1, 2, 3}
MCOutLen == <<2, 1, 2>>
==============================================================================
