------------------------------ MODULE GbFrontend -----------------------------
(***************************************************************************)
(* The front end of the serving engine (gllm/llm_engine.py,                 *)
(* async_llm_engine.py): requests of HTTP clients get an id and a stream,   *)
(* go to one of the engine's replicas, and their tokens come back by id.    *)
(* An id is used again when all others have been used.  The replicas are    *)
(* GbRequests, which GbWorker implements; what they know of ids is here.    *)
(*                                                                          *)
(* Two threads: the event loop (add_requests_async, check_abort_seqs) and   *)
(* an executor (add_requests, schedule).  check_abort_seqs and schedule     *)
(* are called in turns by one coroutine.  The sockets keep the order of     *)
(* one sender.                                                              *)
(***************************************************************************)
EXTENDS Integers, Sequences, FiniteSets, Functions

CONSTANTS
  Reqs,       \* the requests of the clients
  OutLen,     \* request -> the most tokens it gets
  Tokens, Eos,
  NumIds,     \* size of id_allocator (100000 in the code)
  DpSize,     \* dp_size, the number of replicas: more than one
  Impatient   \* bound: the clients that may hang up

ASSUME FrontendAssumption ==
  /\ NumIds \in Nat /\ DpSize \in Nat \ {0, 1}
  /\ Impatient \subseteq Reqs

VARIABLES
  freeIds,    \* id_allocator.free_ids, a FIFO
  idOf,       \* the id of each Sequence, 0 before it has one
  streams,    \* async_streams: id -> request
  adding,     \* requests on their way to add_requests on the executor
  refused,    \* requests whose client got the AssertionError
  hung,       \* requests whose client has hung up
  noticed,    \* Sequence.is_abort
  wait,       \* wait_lists
  abortIds,   \* abort_ids of the front end
  sending,    \* the wait_lists that send_ipc_package has claimed
  aborting,   \* and the abort_ids
  running,    \* running_maps: id -> request
  pc,         \* "check", "recv", "send" or "post": the schedule coroutine
  rr,         \* _dp_rr
  up,         \* packages to each replica
  down,       \* packages from each replica
  at,         \* the replica of each request
  toAbort,    \* scheduler.abort_ids of each replica
  out,        \* what its replica has answered for each request
  fate,       \* "new", "live", "finished" or "aborted"
  got,        \* what was put into the stream of each request
  ended       \* the requests whose stream has finished

client == <<freeIds, idOf, adding, refused, hung>>
hand == <<wait, abortIds>>
claim == <<sending, aborting>>
route == <<rr, at>>
engine == <<out, fate, toAbort>>
told == <<got, ended>>
fvars == <<client, hand, claim, route, engine, told, streams, noticed, running, pc, up, down>>

Replica == INSTANCE GbRequests

Ids == 1 .. NumIds
Replicas == 0 .. DpSize - 1
NoIds == [i \in {} |-> 0]

\* dict[i] = r, and the dict without the keys of S.
Put(f, i, r) == [j \in DOMAIN f \cup {i} |-> IF j = i THEN r ELSE f[j]]
Minus(f, S) == [j \in DOMAIN f \ S |-> f[j]]

\* The elements of S in some order.
Orders(S) == Bijection(1 .. Cardinality(S), S)

-----------------------------------------------------------------------------
(* The event loop. *)

\* add_requests_async up to its await: an id, the assertion, a stream.  An id
\* whose assertion fails is not given back.
AddRequestsAsync(r) ==
  /\ idOf[r] = 0
  /\ freeIds # <<>>
  /\ LET id == Head(freeIds)
     IN  /\ freeIds' = Tail(freeIds)
         /\ idOf' = [idOf EXCEPT ![r] = id]
         /\ IF id \in DOMAIN streams
            THEN refused' = refused \cup {r} /\ UNCHANGED <<streams, adding>>
            ELSE /\ streams' = Put(streams, id, r)
                 /\ adding' = adding \cup {r}
                 /\ UNCHANGED refused
  /\ UNCHANGED <<hung, hand, claim, route, engine, told, noticed, running, pc, up, down>>

HangUp(r) ==
  /\ r \in Impatient /\ idOf[r] # 0 /\ r \notin hung \cup refused \cup ended
  /\ hung' = hung \cup {r}
  /\ UNCHANGED <<freeIds, idOf, adding, refused, hand, claim, route, engine, told, streams,
                 noticed, running, pc, up, down>>

\* Faulty: is_disconnected() is not awaited, a coroutine counts as true.
DisconnectedUnawaited(id) == TRUE

Disconnected(id) == streams[id] \in hung

\* check_abort_seqs: a client is asked once per round, at any time of the round.
CheckAbortSeqs ==
  /\ pc = "check"
  /\ \E gone \in SUBSET {id \in DOMAIN running \cap DOMAIN streams :
                           Disconnected(id) /\ running[id] \notin noticed} :
       /\ abortIds' = abortIds \cup gone
       /\ noticed' = noticed \cup {running[id] : id \in gone}
  /\ pc' = "recv"
  /\ UNCHANGED <<client, wait, claim, route, engine, told, streams, running, up, down>>

-----------------------------------------------------------------------------
(* The executor. *)

AddRequests(r) ==
  /\ r \in adding
  /\ adding' = adding \ {r}
  /\ wait' = Append(wait, r)
  /\ UNCHANGED <<freeIds, idOf, refused, hung, abortIds, claim, route, engine, told, streams,
                 noticed, running, pc, up, down>>

\* The tokens of a package that reach a stream: those of ids that run.
Heard(p) == {a \in p.acts : a.id \in DOMAIN running}

\* Faulty: no id is found in free_ids.
ClosesNone(p) == {}

\* The ids whose stream finishes: those that the package frees as well.
Closes(p) == {a.id : a \in Heard(p)} \cap Range(p.frees)

\* Faulty: the id of every token of the package is given back.
GivenBackAnswered(p) == p.frees \o CHOOSE s \in Orders({a.id : a \in p.acts}) : TRUE

\* free_finish_ids.
GivenBack(p) == p.frees

\* recv_ipc_package, _apply_ipc_package: one package of one replica.  A batch has
\* an id once, so that its tokens do not meet.
RecvOutput(d) ==
  /\ pc = "recv" /\ down[d] # <<>>
  /\ LET p == Head(down[d])
         For(r) == {a \in Heard(p) : streams[a.id] = r}
     IN  /\ got' = [r \in Reqs |-> IF For(r) = {} THEN got[r]
                                  ELSE Append(got[r], (CHOOSE a \in For(r) : TRUE).token)]
         /\ ended' = ended \cup {streams[i] : i \in Closes(p)}
         /\ running' = Minus(running, Closes(p))
         /\ streams' = Minus(streams, Closes(p))
         /\ freeIds' = freeIds \o GivenBack(p)
  /\ down' = [down EXCEPT ![d] = Tail(@)]
  /\ UNCHANGED <<idOf, adding, refused, hung, hand, claim, route, engine, noticed, pc, up>>

RecvDone ==
  /\ pc = "recv" /\ \A d \in Replicas : down[d] = <<>>
  /\ pc' = "send"
  /\ UNCHANGED <<client, hand, claim, route, engine, told, streams, noticed, running, up, down>>

\* send_ipc_package: the hand-off lists are claimed under _pending_lock, and the
\* new requests run.
SendIpcPackage ==
  /\ pc = "send"
  /\ pc' = "post"
  /\ sending' = wait /\ wait' = <<>>
  /\ aborting' = abortIds /\ abortIds' = {}
  /\ running' = [i \in DOMAIN running \cup {idOf[r] : r \in Range(wait)} |->
                   IF \E r \in Range(wait) : idOf[r] = i
                   THEN CHOOSE r \in Range(wait) : idOf[r] = i ELSE running[i]]
  /\ UNCHANGED <<client, route, engine, told, streams, noticed, up, down>>

\* _send_ipc_package_dp: a new request goes to the next replica.
SendNew ==
  /\ pc = "post" /\ sending # <<>>
  /\ sending' = Tail(sending)
  /\ up' = [up EXCEPT ![rr] = Append(@, [new |-> {Head(sending)}, aborts |-> {}])]
  /\ at' = [at EXCEPT ![Head(sending)] = rr]
  /\ rr' = (rr + 1) % DpSize
  /\ UNCHANGED <<client, hand, aborting, engine, told, streams, noticed, running, pc, down>>

\* The aborts go to every replica, if there are any.
SendAborts ==
  /\ pc = "post" /\ sending = <<>>
  /\ pc' = "check"
  /\ up' = [d \in Replicas |-> IF aborting = {} THEN up[d]
                              ELSE Append(up[d], [new |-> {}, aborts |-> aborting])]
  /\ aborting' = {}
  /\ UNCHANGED <<client, hand, sending, route, engine, told, streams, noticed, running, down>>

-----------------------------------------------------------------------------
(* The replicas, by id. *)

Live(d) == {r \in Reqs : at[r] = d /\ fate[r] = "live"}

\* recv_ipc_package of the worker: an abort for an id it does not have is kept.
ReplicaRecv(d) ==
  /\ up[d] # <<>>
  /\ Replica!Admit(Head(up[d]).new)
  /\ toAbort' = [toAbort EXCEPT ![d] = @ \cup Head(up[d]).aborts]
  /\ up' = [up EXCEPT ![d] = Tail(@)]
  /\ UNCHANGED <<client, hand, claim, route, told, streams, noticed, running, pc, down>>

\* check_abort_seqs: those of the ids that are in a queue and not in a batch.
ReplicaAbort(d) ==
  \E S \in SUBSET {r \in Live(d) : idOf[r] \in toAbort[d]} :
    LET ids == {idOf[r] : r \in S}
    IN  /\ S # {}
        /\ Replica!Abort(S)
        /\ toAbort' = [toAbort EXCEPT ![d] = @ \ ids]
        /\ \E order \in Orders(ids) :
             down' = [down EXCEPT ![d] = Append(@, [acts |-> {}, frees |-> order])]
        /\ UNCHANGED <<client, hand, claim, route, told, streams, noticed, running, pc, up>>

\* process_output: a batch of this replica, with the k-th token of request r
\* as <<r, k>>.
ReplicaAnswer(d) ==
  \E T \in SUBSET Live(d) : \E token \in [T -> Tokens] :
    LET acts == {[id |-> idOf[r], token |-> <<r, Len(out[r]) + 1>>] : r \in T}
        done == {idOf[r] : r \in {q \in T : Replica!Ended(q, Append(out[q], token[q]))}}
    IN  /\ T # {}
        /\ Replica!Answer(T, token)
        /\ \E order \in Orders(done) :
             down' = [down EXCEPT ![d] = Append(@, [acts |-> acts, frees |-> order])]
        /\ UNCHANGED <<client, hand, claim, route, toAbort, told, streams, noticed, running, pc, up>>

-----------------------------------------------------------------------------
FInit ==
  /\ Replica!Init
  /\ freeIds = [i \in Ids |-> i]
  /\ idOf = [r \in Reqs |-> 0]
  /\ streams = NoIds /\ running = NoIds
  /\ adding = {} /\ refused = {} /\ hung = {} /\ noticed = {} /\ ended = {}
  /\ wait = <<>> /\ abortIds = {} /\ sending = <<>> /\ aborting = {}
  /\ pc = "check" /\ rr = 0
  /\ up = [d \in Replicas |-> <<>>] /\ down = [d \in Replicas |-> <<>>]
  /\ at = [r \in Reqs |-> 0]
  /\ toAbort = [d \in Replicas |-> {}]
  /\ got = [r \in Reqs |-> <<>>]

Schedule ==
  \/ CheckAbortSeqs
  \/ \E d \in Replicas : RecvOutput(d)
  \/ RecvDone \/ SendIpcPackage \/ SendNew \/ SendAborts

FNext ==
  \/ \E r \in Reqs : AddRequestsAsync(r) \/ HangUp(r) \/ AddRequests(r)
  \/ Schedule
  \/ \E d \in Replicas : ReplicaRecv(d) \/ ReplicaAbort(d) \/ ReplicaAnswer(d)

FSpec == FInit /\ [][FNext]_fvars

\* The coroutine and the executor go on; a replica reads its socket and, by
\* RequestEnds of its worker, answers a request until it ends.
Fairness ==
  /\ WF_fvars(Schedule)
  /\ \A r \in Reqs : WF_fvars(AddRequests(r))
  /\ \A d \in Replicas : WF_fvars(ReplicaRecv(d)) /\ WF_fvars(ReplicaAnswer(d))

FairSpec == FSpec /\ Fairness

-----------------------------------------------------------------------------
(* Properties. *)

\* The requests that a replica has or will get.
InPackage(r) == \E d \in Replicas : \E k \in DOMAIN up[d] : r \in up[d][k].new
Carried ==
  {r \in Reqs : r \in adding \cup Range(wait) \cup Range(sending) \/ InPackage(r) \/ fate[r] = "live"}

Letter == [new : SUBSET Reqs, aborts : SUBSET Ids]
Package == [acts : SUBSET [id : Ids, token : Reqs \X Nat], frees : Seq(Ids)]

TablesTyped ==
  /\ freeIds \in Seq(Ids) /\ idOf \in [Reqs -> 0 .. NumIds]
  /\ DOMAIN streams \subseteq Ids /\ streams \in [DOMAIN streams -> Reqs]
  /\ DOMAIN running \subseteq Ids /\ running \in [DOMAIN running -> Reqs]
  /\ adding \cup refused \cup hung \cup noticed \cup ended \subseteq Reqs
  /\ wait \in Seq(Reqs) /\ sending \in Seq(Reqs)
  /\ abortIds \cup aborting \subseteq Ids
  /\ pc \in {"check", "recv", "send", "post"}
  /\ rr \in Replicas /\ at \in [Reqs -> Replicas]
  /\ up \in [Replicas -> Seq(Letter)]
  /\ down \in [Replicas -> Seq(Package)]
  /\ toAbort \in [Replicas -> SUBSET Ids]
  /\ out \in [Reqs -> Seq(Tokens)] /\ got \in [Reqs -> Seq(Reqs \X Nat)]
  /\ fate \in [Reqs -> {"new", "live", "finished", "aborted"}]

\* Two requests that are on their way or in a replica have different ids, and
\* none of these ids may be given away: an id comes back to the pool once.
IdsHeldOnce ==
  /\ \A q, r \in Carried : idOf[q] = idOf[r] => q = r
  /\ \A r \in Carried : idOf[r] \notin Range(freeIds)
  /\ \A i, j \in DOMAIN freeIds : freeIds[i] = freeIds[j] => i = j

\* The tables of the front end have their shapes and its ids one holder each.
IdsExact == TablesTyped /\ IdsHeldOnce

\* A client reads its own tokens, all of them and in order, although the ids in
\* the packages are used again while packages of other replicas are on their way.
StreamsOwn ==
  \A r \in Reqs : /\ Len(got[r]) <= Len(out[r])
                  /\ \A k \in DOMAIN got[r] : got[r][k] = <<r, k>>
                  /\ r \in ended => Len(got[r]) = Len(out[r])

\* Clients are kept apart: by their ids while they last and by what they read.
ClientsKeptApart == IdsExact /\ StreamsOwn

\* Nobody's request is aborted for an id that no client has hung up under.
AbortsFollowAHangUp ==
  \A r \in Reqs : fate[r] = "aborted" => \E q \in hung : idOf[q] = idOf[r]

\* The stream of a request that was answered to its end is closed, if nobody
\* hangs up.
StreamsEnd ==
  [](hung = {}) => \A r \in Reqs : (idOf[r] # 0 ~> r \in ended)

\* add_requests_async asserts that "seq.seq_id not in self.async_streams".
NobodyRefused == refused = {}

\* _send_ipc_package_dp says that "a replica that doesn't own the seq_id simply
\* ignores the unknown id".
OnlyTheHungAborted == \A r \in Reqs : fate[r] = "aborted" => r \in hung
==============================================================================
