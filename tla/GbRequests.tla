----------------------------- MODULE GbRequests ------------------------------
(***************************************************************************)
(* What the serving engine promises its front end about requests, without   *)
(* queues, pages, batches and stages: a request that was handed over gets   *)
(* tokens until it ends, by the end token, by its length or by an abort.    *)
(***************************************************************************)
EXTENDS Naturals, Sequences

CONSTANTS Reqs, OutLen, Tokens, Eos

VARIABLES
  out,    \* the tokens that were answered for a request
  fate    \* "new", "live", "finished" or "aborted"

vars == <<out, fate>>

Ended(q, tokens) == tokens[Len(tokens)] = Eos \/ Len(tokens) = OutLen[q]

Init ==
  /\ out = [q \in Reqs |-> <<>>]
  /\ fate = [q \in Reqs |-> "new"]

Admit(S) ==
  /\ \A q \in S : fate[q] = "new"
  /\ fate' = [q \in Reqs |-> IF q \in S THEN "live" ELSE fate[q]]
  /\ UNCHANGED out

\* One answer of the engine: a token for each request of T.
Answer(T, token) ==
  /\ \A q \in T : fate[q] = "live"
  /\ out' = [q \in Reqs |-> IF q \in T THEN Append(out[q], token[q]) ELSE out[q]]
  /\ fate' = [q \in Reqs |-> IF q \in T /\ Ended(q, out'[q]) THEN "finished" ELSE fate[q]]

Abort(S) ==
  /\ \A q \in S : fate[q] = "live"
  /\ fate' = [q \in Reqs |-> IF q \in S THEN "aborted" ELSE fate[q]]
  /\ UNCHANGED out

Next ==
  \E S \in SUBSET Reqs :
    \/ Admit(S)
    \/ \E token \in [S -> Tokens] : Answer(S, token)
    \/ Abort(S)

Spec == Init /\ [][Next]_vars
==============================================================================
