------------------------------ MODULE GbOverlap ------------------------------
(***************************************************************************)
(* The serving engine on one stage with overlap scheduling, its default     *)
(* there (gllm/overlap_worker.py, OverlapScheduler of gllm/scheduler.py,    *)
(* FutureMap of gllm/async_utils.py).  A batch is launched before the       *)
(* tokens of the one before it are known: each request that it may decode   *)
(* next gets a placeholder, a negative token id that the GPU replaces when  *)
(* the next forward reads it and the host when the tokens have arrived.     *)
(*                                                                          *)
(*   check_abort_seqs -> recv_ipc_package -> build if nothing is prefetched *)
(*   -> launch and process_output_deferred -> collect the batch before ->   *)
(*   build the next batch -> ...                                 (run_pp0)  *)
(*                                                                          *)
(* The GPU runs forwards in launch order and the host sees a token only     *)
(* after its copy is done, so a forward is a part of its launch here.       *)
(***************************************************************************)
EXTENDS GbScheduler, SequencesExt

CONSTANTS
  Tokens,     \* what the sampler may return: positive numbers
  Abortable   \* bound: the requests whose client may hang up

VARIABLES
  sch,          \* the scheduler and memory manager
  pc,           \* the call of run_pp0 that is next
  prefetched,   \* _prefetched_input: the batch that was built, <<>> if none
  pending,      \* _gpu_pending: launched batches that are not collected
  bufs,         \* _next_tokens_bufs, two pinned buffers
  nextBuf,      \* _next_tokens_buf_idx
  future,       \* FutureMap: the slot of the last token sampled for a request
  freed,        \* _overlap_freed
  stream,       \* past: the prompt and every token sampled for a request
  out,          \* the tokens that the front end got
  fate,         \* what the front end knows of a request
  wrong         \* past: requests whose forward read another token than was sampled

vars == <<sch, pc, prefetched, pending, bufs, nextBuf, future, freed, stream, out,
          fate, wrong>>

\* The placeholder of q: minus a slot of the FutureMap.
Placeholder(q) == -q

Calls == {"check_abort", "recv_ipc", "bootstrap", "launch", "collect", "build"}

-----------------------------------------------------------------------------
CheckAbortSeqs ==
  /\ pc = "check_abort"
  /\ sch' = CheckAbort(sch)
  /\ fate' = [q \in Reqs |-> IF q \in Aborted(sch) THEN "aborted" ELSE fate[q]]
  /\ pc' = "recv_ipc"
  /\ UNCHANGED <<prefetched, pending, bufs, nextBuf, future, freed, stream, out, wrong>>

RecvIpcPackage ==
  /\ pc = "recv_ipc"
  /\ \E new \in UNION {SetToSeqs(S) : S \in SUBSET {q \in Reqs : fate[q] = "new"}},
        gone \in SUBSET {q \in Abortable : fate[q] \in {"live", "finished"}} :
       /\ sch' = [sch EXCEPT !.prefill = @ \o new, !.abort = @ \cup gone]
       /\ fate' = [q \in Reqs |-> IF q \in ToSet(new) THEN "live" ELSE fate[q]]
  /\ pc' = "bootstrap"
  /\ UNCHANGED <<prefetched, pending, bufs, nextBuf, future, freed, stream, out, wrong>>

\* _build_prefetched_input: schedule_once, then cal_input copies the token ids.
\* A chunk that is not the last makes the object of its request a dead one: the
\* entry of a pending token stays with the dead object.
Build ==
  \E ratio \in Ratios : \E r \in {ScheduleOnce([sch EXCEPT !.frees = <<>>], ratio)} :
    LET parts == {e.req : e \in {f \in ToSet(r.batch) : f.part}}
        kept(d) == IF d.req \in parts /\ d.dead = <<>>
                   THEN [d EXCEPT !.dead =
                           <<[r.sch.obj[d.req] EXCEPT !.chain =
                                (CHOOSE e \in ToSet(r.batch) : e.req = d.req).chain]>>]
                   ELSE d
    IN  /\ sch' = r.sch
        /\ prefetched' = [i \in DOMAIN r.batch |->
             LET e == r.batch[i]
             IN  [row |-> e, ids |-> SubSeq(r.sch.obj[e.req].tok, e.from + 1, e.from + e.todo)]]
        /\ pending' = [b \in DOMAIN pending |->
             [pending[b] EXCEPT !.deferred = [i \in DOMAIN @ |-> kept(@[i])]]]
        /\ UNCHANGED <<bufs, nextBuf, future, freed, stream, out, fate, wrong>>

Bootstrap ==
  /\ pc = "bootstrap"
  /\ pc' = "launch"
  /\ IF prefetched = <<>> THEN Build
     ELSE UNCHANGED <<sch, prefetched, pending, bufs, nextBuf, future, freed, stream, out,
                      fate, wrong>>

BuildPrefetchedInput ==
  /\ pc = "build"
  /\ pc' = "check_abort"
  /\ Build

\* Faulty: the request is not queued before its token has arrived.
DeferRowUnqueued(acc, row) ==
  LET q == row.req
      s == [acc.obj[q] EXCEPT !.computed = @ + acc.obj[q].todo]
  IN  IF row.part \/ q \in freed THEN acc
      ELSE [acc EXCEPT !.obj[q] = [s EXCEPT !.tok = Append(@, Placeholder(q))]]

\* process_output_deferred for one row.
DeferRow(acc, row) ==
  LET q == row.req
      s == [acc.obj[q] EXCEPT !.computed = @ + acc.obj[q].todo]
  IN  IF row.part \/ q \in freed THEN acc
      ELSE IF ComputedPrompt(s)
      THEN [acc EXCEPT !.obj[q] = [s EXCEPT !.tok = Append(@, Placeholder(q))],
                       !.decode = <<q>> \o @]
      ELSE [acc EXCEPT !.obj[q] = s]

\* resolve_future.
Resolved(q, ids) == [i \in DOMAIN ids |-> IF ids[i] < 0 THEN future[q] ELSE ids[i]]

\* Faulty: the two batches in flight share a buffer.
OneBuffer(k) == k

OtherBuffer(k) == 1 - k

\* Launch and process_output_deferred.
Launch ==
  /\ pc = "launch"
  /\ IF prefetched = <<>>
     THEN UNCHANGED <<sch, prefetched, pending, bufs, nextBuf, future, stream, wrong>>
     ELSE LET rows == [i \in DOMAIN prefetched |-> prefetched[i].row]
              live == SelectSeq([i \in DOMAIN rows |-> i],
                                LAMBDA i : ~rows[i].part /\ rows[i].req \notin freed)
              after == FoldLeft(DeferRow, [Forward(sch, rows) EXCEPT !.running = Tail(@)], rows)
          IN  \E sampled \in [DOMAIN rows -> Tokens] :
                /\ \A i \in DOMAIN rows : rows[i].part => sampled[i] = Eos
                /\ sch' = after
                /\ prefetched' = <<>>
                /\ bufs' = [bufs EXCEPT ![nextBuf] = sampled]
                /\ nextBuf' = OtherBuffer(nextBuf)
                /\ pending' = Append(pending,
                     [buf |-> nextBuf,
                      deferred |-> [j \in DOMAIN live |->
                        [at |-> live[j], req |-> rows[live[j]].req, dead |-> <<>>,
                         pos |-> Len(after.obj[rows[live[j]].req].tok)]]])
                /\ future' = [q \in Reqs |->
                     IF \E i \in DOMAIN rows : rows[i].req = q
                     THEN sampled[CHOOSE i \in DOMAIN rows : rows[i].req = q] ELSE future[q]]
                /\ stream' = [q \in Reqs |->
                     IF \E i \in DOMAIN rows : rows[i].req = q /\ ~rows[i].part
                     THEN Append(stream[q], sampled[CHOOSE i \in DOMAIN rows : rows[i].req = q])
                     ELSE stream[q]]
                /\ wrong' = wrong \cup {rows[i].req : i \in {j \in DOMAIN rows :
                     Resolved(rows[j].req, prefetched[j].ids)
                       # SubSeq(stream[rows[j].req], rows[j].from + 1, rows[j].from + rows[j].todo)}}
  /\ pc' = IF pending = <<>> THEN "build" ELSE "collect"
  /\ UNCHANGED <<freed, out, fate>>

\* Faulty: the end of a request in an earlier batch is not looked at.
FinalizeAgain(acc, d, t) ==
  LET q == d.req
      s == [acc.sch.obj[q] EXCEPT !.tok[d.pos] = t]
      told == [acc.sch EXCEPT !.obj[q] = s, !.pool = RegisterBoundary(@, s, d.pos)]
      ends == t = Eos \/ d.pos - Len(Prompt[q]) >= OutLen[q]
  IN  IF ~ComputedPrompt(s) THEN [acc EXCEPT !.sch = told]
      ELSE IF ~ends
      THEN [acc EXCEPT !.sch = told, !.out[q] = Append(@, t)]
      ELSE [acc EXCEPT !.out[q] = Append(@, t), !.freed = @ \cup {q},
                       !.fate[q] = "finished",
                       !.sch = [GiveBack(told, q) EXCEPT
                                  !.decode = Remove(@, q), !.frees = Append(@, q)]]

\* process_output_finalize for one entry, whose token is t, of an object that no
\* chunk was split off.
FinalizeLive(acc, d, t) ==
  LET q == d.req
      s == [acc.sch.obj[q] EXCEPT !.tok[d.pos] = t]
      told == [acc.sch EXCEPT !.obj[q] = s, !.pool = RegisterBoundary(@, s, d.pos)]
      ends == t = Eos \/ d.pos - Len(Prompt[q]) >= OutLen[q]
  IN  IF q \in acc.freed THEN acc
      ELSE IF ~ComputedPrompt(s) THEN [acc EXCEPT !.sch = told]
      ELSE IF ~ends
      THEN [acc EXCEPT !.sch = told, !.out[q] = Append(@, t)]
      ELSE [acc EXCEPT !.out[q] = Append(@, t), !.freed = @ \cup {q},
                       !.fate[q] = "finished",
                       !.sch = [GiveBack(told, q) EXCEPT
                                  !.decode = Remove(@, q), !.frees = Append(@, q)]]

\* The same for a dead object: its prompt is not computed, so the token
\* reaches nobody, and its pages are those of the copy.
FinalizeDead(acc, d, t) ==
  LET s == [d.dead[1] EXCEPT !.tok[d.pos] = t]
  IN  [acc EXCEPT !.sch.pool = RegisterBoundary(@, s, d.pos)]

Finalize(acc, d, t) == IF d.dead = <<>> THEN FinalizeLive(acc, d, t) ELSE FinalizeDead(acc, d, t)

\* _collect_batch for the batch launched in an earlier round.
Collect ==
  /\ pc = "collect"
  /\ LET e == Head(pending)
         start == [sch |-> sch, freed |-> freed, out |-> out, fate |-> fate]
         end == FoldLeft(LAMBDA acc, d : Finalize(acc, d, bufs[e.buf][d.at]), start, e.deferred)
     IN  sch' = end.sch /\ freed' = end.freed /\ out' = end.out /\ fate' = end.fate
  /\ pending' = Tail(pending)
  /\ pc' = "build"
  /\ UNCHANGED <<prefetched, bufs, nextBuf, future, stream, wrong>>

-----------------------------------------------------------------------------
Init ==
  /\ sch = NewScheduler
  /\ pc = "check_abort"
  /\ prefetched = <<>> /\ pending = <<>>
  /\ bufs = [k \in 0 .. 1 |-> <<>>]
  /\ nextBuf = 0
  /\ future = [q \in Reqs |-> 0]
  /\ freed = {} /\ wrong = {}
  /\ stream = Prompt
  /\ out = [q \in Reqs |-> <<>>]
  /\ fate = [q \in Reqs |-> "new"]

Next ==
  \/ CheckAbortSeqs
  \/ RecvIpcPackage
  \/ Bootstrap
  \/ Launch
  \/ Collect
  \/ BuildPrefetchedInput

Spec == Init /\ [][Next]_vars

-----------------------------------------------------------------------------
(* Properties. *)

\* The places where the live object of q is.
Waiting(q) == {i \in DOMAIN sch.prefill : sch.prefill[i] = q}
Decoding(q) == {i \in DOMAIN sch.decode : sch.decode[i] = q}
Built(q) == {i \in DOMAIN prefetched : prefetched[i].row.req = q /\ ~prefetched[i].row.part}

Places(q) == Cardinality(Waiting(q)) + Cardinality(Decoding(q)) + Cardinality(Built(q))

Held(q) == IF Places(q) = 0 THEN {} ELSE ToSet(sch.obj[q].table)

TypeOK ==
  /\ sch.prefill \in Seq(Reqs) /\ sch.decode \in Seq(Reqs)
  /\ Len(sch.running) <= 1
  /\ sch.pool.free \in Seq(Pages)
  /\ sch.pool.ref \in [Pages -> Nat]
  /\ \A q \in Reqs :
       /\ sch.obj[q].tok \in Seq(Tokens \cup {Placeholder(q)})
       /\ sch.obj[q].table \in Seq(Pages)
       /\ sch.obj[q].computed \in 0 .. Len(sch.obj[q].tok)
       /\ out[q] \in Seq(Tokens) /\ stream[q] \in Seq(Tokens)
       /\ fate[q] \in {"new", "live", "finished", "aborted"}
  /\ Len(pending) <= 2 /\ nextBuf \in 0 .. 1
  /\ freed \subseteq Reqs /\ wrong \subseteq Reqs
  /\ pc \in Calls

\* Every admitted request is in exactly one place until the front end is told
\* that it ended, although a batch may be in flight that ends it.
InOnePlace == \A q \in Reqs : Places(q) = IF fate[q] = "live" THEN 1 ELSE 0

\* No page leaks and none is given back twice, although a request can end while
\* the next batch of it is in flight.
PagesAccounted ==
  \A p \in Pages :
    /\ sch.pool.ref[p] = Cardinality({q \in Reqs : p \in Held(q)})
    /\ sch.pool.ref[p] = 0 <=> p \in ToSet(sch.pool.free)

\* The bookkeeping of requests and pages is exact in every state, with a batch
\* being built, one in flight and one being collected.
EngineExact == TypeOK /\ InOnePlace /\ PagesAccounted

\* The client gets every token that was sampled, once and in order, and nothing
\* after the end, for requests that were not preempted.
StreamIsOutput ==
  \A q \in Reqs \ sch.preempted :
    /\ IsPrefix(Prompt[q] \o out[q], stream[q])
    /\ Len(out[q]) <= OutLen[q]
    /\ \A i \in DOMAIN out[q] : out[q][i] = Eos => i = Len(out[q])
    /\ fate[q] = "finished" <=>
         out[q] # <<>> /\ (Last(out[q]) = Eos \/ Len(out[q]) = OutLen[q])

\* A forward reads the token that was sampled, never a placeholder or a token
\* of another batch, for requests that were not preempted.
InputsTrue == wrong \subseteq sch.preempted

\* What a live request is conditioned on is what was sampled; a placeholder in it
\* is about to be rewritten, unless the request was preempted.
TokensSettled ==
  \A q \in Reqs \ sch.preempted : Places(q) = 1 =>
    /\ Len(sch.obj[q].tok) \in {Len(stream[q]), Len(stream[q]) - 1}
    /\ \A i \in DOMAIN sch.obj[q].tok :
         IF sch.obj[q].tok[i] > 0 THEN sch.obj[q].tok[i] = stream[q][i]
         ELSE \E b \in DOMAIN pending : \E d \in ToSet(pending[b].deferred) :
                d.req = q /\ d.pos = i /\ d.dead = <<>>

\* Both: neither the client nor the next forward ever gets a token that was not
\* sampled for this request at this place.
TokensTrue == StreamIsOutput /\ TokensSettled

\* No forward attends to a KV slot that was never written: neither a slot of the
\* request's own pages nor, here, one of a page from the prefix cache.
KvWritten == sch.unwritten = {}

\* The forward of a batch that was built before its tokens were known computes
\* what it would have computed after: on the sampled tokens and on written KV.
ForwardsTrue == InputsTrue /\ KvWritten

\* Both again: what was sampled is what clients get and what forwards compute on,
\* although a batch is built while the tokens of the one before are unknown.
OutputTrue == TokensTrue /\ ForwardsTrue

\* scheduler.py says of the registration in process_output_finalize: "so it is
\* always computed over real tokens".
HashedTokensReal ==
  \A h \in DOMAIN sch.pool.h2p : \A i \in DOMAIN h : \A j \in DOMAIN h[i] : h[i][j] > 0

\* Every step moves pc and one is always enabled: the loop polls and never waits.
\* WF_pc(Turn) is WF_vars(Next).
Turn == pc' \in Calls

FairSpec == Spec /\ WF_pc(Turn)

\* Every admitted request ends, as long as no request is preempted.
RequestEndsUnpreempted ==
  [](sch.preempted = {}) => \A q \in Reqs : (fate[q] = "live" ~> fate[q] # "live")
==============================================================================
