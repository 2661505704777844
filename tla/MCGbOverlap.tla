----------------------------- MODULE MCGbOverlap -----------------------------
(* The requests of MCGbWorker with shorter outputs, on one stage: a page of  *)
(* prompt is shared, one prompt is longer than a batch, and five pages are   *)
(* too few for all.                                                          *)
EXTENDS GbOverlap

MCReqs == {1, 2, 3}
MCPrompt == <<<<1, 1, 1>>, <<1, 1, 1, 2, 1>>, <<1, 2>>>>
MCOutLen == <<2, 2, 3>>
MCTokens == {1, 2}
MCRatios == {0, 100}
==============================================================================
