----------------------------- MODULE MCGbSegment -----------------------------
(* Three sequences: two with the same first page, the third a continuation *)
(* of the first, over four pages.                                          *)
EXTENDS GbSegment

MCSeqs == {1, 2, 3}
MCHashes == {"a", "ab", "ac"}
MCChain == <<<<"a", "ab">>, <<"a", "ac">>, <<"a", "ab">>>>
MCStart == <<1, 1, 2>>
==============================================================================
