---------------------------- MODULE GbPageOwners -----------------------------
(***************************************************************************)
(* What PrefixSegment promises its callers (the comments of allocate,       *)
(* has_computed, update and free in gllm/memory_manager.py): who owns a     *)
(* page and which token prefix it stands for.                               *)
(***************************************************************************)
CONSTANTS Pages, Seqs, Hashes, NoHash

VARIABLES
  owners,   \* the sequences that hold a page
  prefix    \* the hash of the prefix whose KV the page holds, or NoHash

vars == <<owners, prefix>>

Init ==
  /\ owners = [p \in Pages |-> {}]
  /\ prefix = [p \in Pages |-> NoHash]

\* A page changes its prefix only when nobody holds it.
TakeFresh(p, q, h) ==
  /\ owners[p] = {}
  /\ owners' = [owners EXCEPT ![p] = {q}]
  /\ prefix' = [prefix EXCEPT ![p] = h]

\* A page is shared only while it stands for a prefix.
TakeShared(p, q) ==
  /\ q \notin owners[p]
  /\ prefix[p] # NoHash
  /\ owners' = [owners EXCEPT ![p] = @ \cup {q}]
  /\ UNCHANGED prefix

\* The tail page of one sequence is complete: it gets its prefix, once.
Label(p, q, h) ==
  /\ owners[p] = {q}
  /\ prefix[p] = NoHash
  /\ prefix' = [prefix EXCEPT ![p] = h]
  /\ UNCHANGED owners

GiveBack(p, q) ==
  /\ q \in owners[p]
  /\ owners' = [owners EXCEPT ![p] = @ \ {q}]
  /\ UNCHANGED prefix

Next ==
  \E p \in Pages, q \in Seqs :
    \/ \E h \in Hashes \cup {NoHash} : TakeFresh(p, q, h)
    \/ TakeShared(p, q)
    \/ \E h \in Hashes : Label(p, q, h)
    \/ GiveBack(p, q)

Spec == Init /\ [][Next]_vars
==============================================================================
