----------------------------- MODULE MCGbWorker ------------------------------
(* Three requests on a pipeline of two stages, in five pages of two tokens:  *)
(* the first two share a page of prompt, the prompt of the second is longer  *)
(* than a batch, and the third grows until somebody is preempted.  The       *)
(* client of the first may hang up.                                          *)
EXTENDS GbWorker

MCReqs == {1, 2, 3}
MCPrompt == <<<<"x", "x", "x">>, <<"x", "x", "x", "e", "x">>, <<"x", "e">>>>
MCOutLen == <<3, 3, 4>>
MCTokens == {"x", "e"}
MCRatios == {0, 100}
==============================================================================
