------------------------------ MODULE GbWorker -------------------------------
(***************************************************************************)
(* The serving engine's workers on a pipeline of PP stages (gllm/worker.py  *)
(* and dist_schedule.py).  Stage 0 drives: it has the scheduler and all KV  *)
(* page tables, and starts a batch while earlier ones are still in the      *)
(* pipe.  The last stage computes and samples from a mirror of the page     *)
(* tables that it rebuilds from the deltas the driver sends; the stages     *)
(* between them apply the same deltas and are left out.                     *)
(*                                                                          *)
(*   driver   check_abort_seqs -> recv_ipc_package -> recv_next_tokens ->   *)
(*            schedule_forward -> process_output -> ...        (run_pp0)    *)
(*   last     recv_schedule_payload, forward_pp                (run_other)  *)
(***************************************************************************)
EXTENDS GbScheduler

CONSTANTS
  Tokens,     \* what the sampler may return
  Abortable   \* bound: the requests whose client may hang up

VARIABLES
  sch,        \* the driver's scheduler and memory manager
  pc,         \* the call of run_pp0 that is next
  results,    \* next_tokens_queue
  known,      \* DriverPayloadBuilder._known
  lastLen,    \* DriverPayloadBuilder._last_pages_len
  wire,       \* schedule payloads on their way to the last stage
  mirror,     \* FollowerSeqStore._table: request -> page table and prompt_len
  inputs,     \* schedule_queue of the last stage
  tokens,     \* token lists on their way back
  out,        \* the tokens that the front end got for each request
  fate        \* what the front end knows of each request

\* NoHash stands for page2hash = 0 and is the hash of no tokens.
ASSUME WorkerAssumption ==
  NoHash \notin Seq(Seq(Tokens \cup UNION {Range(Prompt[q]) : q \in Reqs}))

vars == <<sch, pc, results, known, lastLen, wire, mirror, inputs, tokens, out, fate>>

driver == <<results, known, lastLen>>
last == <<mirror, inputs>>

-----------------------------------------------------------------------------
(* Delta broadcast (dist_schedule.py). *)

\* SeqUpdate: only the appended page ids; a table that got shorter is sent
\* whole.  `real` is what the driver's own forward uses, for the properties,
\* and `read` whether the driver will read the token of this row.
Update(e, n) ==
  [req |-> e.req, from |-> e.from, reset |-> Len(e.table) < n,
   pages |-> IF Len(e.table) < n THEN e.table ELSE SubSeq(e.table, n + 1, Len(e.table)),
   real |-> [table |-> e.table, decodes |-> e.from >= e.prompt], read |-> ~e.part]

\* DriverPayloadBuilder.build without its cursors: prompt_len is sent once.
Payload(batch, frees) ==
  [registers |-> {[req |-> e.req, prompt |-> e.prompt] :
                    e \in {f \in Range(batch) : f.req \notin known}},
   updates |-> [i \in DOMAIN batch |->
                  Update(batch[i], IF batch[i].req \in known THEN lastLen[batch[i].req] ELSE 0)],
   frees |-> Range(frees)]

\* Faulty: forget() is not called.
KnownForever(batch, frees) == known \cup {e.req : e \in Range(batch)}

\* _known after build: what the followers are told to free is forgotten.
KnownAfter(batch, frees) == (known \cup {e.req : e \in Range(batch)}) \ Range(frees)

\* SeqUpdate applied to the mirror of its request.
Mirrored(store, u) ==
  [store EXCEPT ![u.req].table = (IF u.reset THEN <<>> ELSE @) \o u.pages]

\* FollowerSeqStore.apply_payload up to the frees: registers, then updates.
Registered(store, registers) ==
  LET fresh(q) == {r \in registers : r.req = q}
  IN  [q \in DOMAIN store \cup {r.req : r \in registers} |->
         IF fresh(q) = {} THEN store[q]
         ELSE [table |-> <<>>, prompt |-> (CHOOSE r \in fresh(q) : TRUE).prompt]]

Applied(store, p) ==
  LET f[n \in 0 .. Len(p.updates)] ==
        IF n = 0 THEN Registered(store, p.registers) ELSE Mirrored(f[n - 1], p.updates[n])
  IN  f[Len(p.updates)]

-----------------------------------------------------------------------------
(* The driver (run_pp0). *)

Calls == {"check_abort", "recv_ipc", "recv_tokens", "schedule", "process_output"}

\* The answers to the front end: act_schedule_ids and free_ids.
CheckAbortSeqs ==
  /\ pc = "check_abort"
  /\ sch' = CheckAbort(sch)
  /\ fate' = [q \in Reqs |-> IF q \in Aborted(sch) THEN "aborted" ELSE fate[q]]
  /\ pc' = "recv_ipc"
  /\ UNCHANGED <<driver, last, wire, tokens, out>>

\* The elements of S in some order.
Orders(S) == Bijection(1 .. Cardinality(S), S)

\* Everything that has arrived: new requests in some order, and aborts.
RecvIpcPackage ==
  /\ pc = "recv_ipc"
  /\ \E new \in UNION {Orders(S) : S \in SUBSET {q \in Reqs : fate[q] = "new"}},
        gone \in SUBSET {q \in Abortable : fate[q] \in {"live", "finished"}} :
       /\ sch' = [sch EXCEPT !.prefill = @ \o new, !.abort = @ \cup gone]
       /\ fate' = [q \in Reqs |-> IF q \in Range(new) THEN "live" ELSE fate[q]]
  /\ pc' = "recv_tokens"
  /\ UNCHANGED <<driver, last, wire, tokens, out>>

\* At most one token list per round, without waiting for it: the time it is on
\* its way is part of the time the last stage takes.
RecvNextTokens ==
  /\ pc = "recv_tokens"
  /\ results' = IF tokens = <<>> THEN results ELSE Append(results, Head(tokens))
  /\ tokens' = IF tokens = <<>> THEN tokens ELSE Tail(tokens)
  /\ pc' = "schedule"
  /\ UNCHANGED <<sch, known, lastLen, last, wire, out, fate>>

\* schedule_forward: a batch, its payload, and the first stage's forward.
ScheduleForward ==
  /\ pc = "schedule"
  /\ \E ratio \in Ratios : \E r \in {ScheduleOnce(sch, ratio)} :
       IF r.batch = <<>>
       THEN /\ sch' = r.sch
            /\ UNCHANGED <<known, lastLen, wire>>
       ELSE /\ wire' = Append(wire, Payload(r.batch, r.sch.frees))
            /\ known' = KnownAfter(r.batch, r.sch.frees)
            /\ lastLen' = [q \in Reqs |->
                 IF q \in Range(r.sch.frees) THEN 0
                 ELSE IF \E e \in Range(r.batch) : e.req = q
                 THEN Len((CHOOSE e \in Range(r.batch) : e.req = q).table)
                 ELSE lastLen[q]]
            /\ sch' = Forward([r.sch EXCEPT !.frees = <<>>], r.batch)
  /\ pc' = "process_output"
  /\ UNCHANGED <<results, last, tokens, out, fate>>

\* The object of request q after its row of a batch came back with token t.
Sampled(s, t) ==
  LET computed == [s EXCEPT !.computed = @ + s.todo]
  IN  IF ComputedPrompt(computed) THEN [computed EXCEPT !.tok = Append(@, t)] ELSE computed

\* process_output for one row; the row of an unfinished chunk changes nothing.
OutputRow(acc, row, t) ==
  LET q == row.req
      s == Sampled(acc.obj[q], t)
      told == [acc EXCEPT !.obj[q] = s,
                          !.pool = IF ComputedPrompt(s)
                                   THEN RegisterBoundary(@, s, Len(s.tok)) ELSE @]
  IN  IF row.part THEN acc
      ELSE IF Finished(q, s)
      THEN [GiveBack(told, q) EXCEPT !.frees = Append(@, q)]
      ELSE [told EXCEPT !.decode = <<q>> \o @]

\* process_output for the batch `rows`, whose tokens are `got`.
OutputRows(start, rows, got) ==
  LET f[n \in 0 .. Len(rows)] == IF n = 0 THEN start ELSE OutputRow(f[n - 1], rows[n], got[n])
  IN  f[Len(rows)]

ProcessOutput ==
  /\ pc = "process_output"
  /\ IF results = <<>>
     THEN UNCHANGED <<sch, results, out, fate>>
     ELSE LET rows == Head(sch.running)
              got == Head(results)
              told == {i \in DOMAIN rows : ~rows[i].part}
          IN  /\ sch' = OutputRows([sch EXCEPT !.running = Tail(@)], rows, got)
              /\ results' = Tail(results)
              /\ out' = [q \in Reqs |->
                   IF \E i \in told : rows[i].req = q
                   THEN Append(out[q], got[CHOOSE i \in told : rows[i].req = q]) ELSE out[q]]
              /\ fate' = [q \in Reqs |->
                   IF q \in Range(sch'.frees) \ Range(sch.frees) THEN "finished" ELSE fate[q]]
  /\ pc' = "check_abort"
  /\ UNCHANGED <<known, lastLen, last, wire, tokens>>

-----------------------------------------------------------------------------
(* The last stage (run_other). *)

\* recv_schedule_payload: frees after the batch was taken from the mirror.
RecvSchedulePayload ==
  /\ wire # <<>>
  /\ LET p == Head(wire)
         now == Applied(mirror, p)
     IN  /\ inputs' = Append(inputs, [i \in DOMAIN p.updates |->
                        LET u == p.updates[i]
                        IN  [req |-> u.req, real |-> u.real, read |-> u.read,
                             used |-> [table |-> now[u.req].table,
                                       decodes |-> u.from >= now[u.req].prompt]]])
         /\ mirror' = [q \in DOMAIN now \ p.frees |-> now[q]]
  /\ wire' = Tail(wire)
  /\ UNCHANGED <<sch, pc, driver, tokens, out, fate>>

\* forward_pp and the sampler; the tokens that nobody reads are left at Eos.
ForwardPp ==
  /\ inputs # <<>>
  /\ inputs' = Tail(inputs)
  /\ \E sampled \in [DOMAIN Head(inputs) -> Tokens] :
       /\ \A i \in DOMAIN sampled : Head(inputs)[i].read \/ sampled[i] = Eos
       /\ tokens' = Append(tokens, sampled)
  /\ UNCHANGED <<sch, pc, driver, wire, mirror, out, fate>>

-----------------------------------------------------------------------------
Init ==
  /\ sch = NewScheduler
  /\ pc = "check_abort"
  /\ results = <<>> /\ wire = <<>> /\ inputs = <<>> /\ tokens = <<>>
  /\ known = {}
  /\ lastLen = [q \in Reqs |-> 0]
  /\ mirror = [q \in {} |-> [table |-> <<>>, prompt |-> 0]]
  /\ out = [q \in Reqs |-> <<>>]
  /\ fate = [q \in Reqs |-> "new"]

Driver ==
  \/ CheckAbortSeqs
  \/ RecvIpcPackage
  \/ RecvNextTokens
  \/ ScheduleForward
  \/ ProcessOutput

LastStage == RecvSchedulePayload \/ ForwardPp

Next == Driver \/ LastStage

Spec == Init /\ [][Next]_vars
-----------------------------------------------------------------------------
(* Properties. *)

\* The places where the live object of q is.
Waiting(q) == {i \in DOMAIN sch.prefill : sch.prefill[i] = q}
Decoding(q) == {i \in DOMAIN sch.decode : sch.decode[i] = q}
InFlight(q) == {b \in DOMAIN sch.running : [req |-> q, part |-> FALSE] \in Range(sch.running[b])}

Places(q) == Cardinality(Waiting(q)) + Cardinality(Decoding(q)) + Cardinality(InFlight(q))

Held(q) == IF Places(q) = 0 THEN {} ELSE Range(sch.obj[q].table)

TypeOK ==
  /\ sch.prefill \in Seq(Reqs) /\ sch.decode \in Seq(Reqs)
  /\ Len(sch.running) <= PP
  /\ sch.pool.free \in Seq(Pages)
  /\ sch.pool.ref \in [Pages -> Nat]
  /\ \A q \in Reqs :
       /\ sch.obj[q].table \in Seq(Pages)
       /\ sch.obj[q].computed \in 0 .. Len(sch.obj[q].tok)
       /\ sch.obj[q].prompt \in Len(Prompt[q]) .. Len(sch.obj[q].tok)
       /\ out[q] \in Seq(Tokens)
       /\ fate[q] \in {"new", "live", "finished", "aborted"}
  /\ DOMAIN mirror \subseteq Reqs
  /\ known \subseteq Reqs /\ lastLen \in [Reqs -> Nat]
  /\ pc \in Calls

\* Every admitted request is in exactly one place until the front end is told
\* that it ended: none is lost or runs twice, however chunks, preemptions,
\* parked requests and aborts interleave with the batches in the pipe.
InOnePlace == \A q \in Reqs : Places(q) = IF fate[q] = "live" THEN 1 ELSE 0

\* A page is free exactly when no live request holds it, and its count is the
\* number of those that do: no leak and no double free through preemption,
\* chunk copies, aborts and finishes.
PagesAccounted ==
  \A p \in Pages :
    /\ sch.pool.ref[p] = Cardinality({q \in Reqs : p \in Held(q)})
    /\ sch.pool.ref[p] = 0 <=> p \in Range(sch.pool.free)

\* A page of a live request that is in the prefix cache is cached under that
\* request's own tokens, also after a preemption has moved them into the prompt.
CachedUnderOwnPrefix ==
  \A q \in Reqs : Places(q) = 1 =>
    \A i \in DOMAIN sch.obj[q].table :
      LET h == sch.pool.p2h[sch.obj[q].table[i]]
      IN  h # NoHash => h = [j \in 1 .. i |-> PageTokens(sch.obj[q], j)]

\* The stream that a client gets is what the engine will condition on: every
\* sampled token once, in order, through preemptions and recomputations.
StreamIsOutput == \A q \in Reqs : sch.obj[q].tok = Prompt[q] \o out[q]

\* A sequence that found nothing in the prefix cache reads no KV slot that has
\* not been written: chunks, growth and recomputation leave no gap.
OwnKvWritten ==
  \A q \in sch.unwritten : q \in sch.hitters

\* The bookkeeping of requests and pages is exact, over every interleaving of
\* batches in the pipe, chunks, preemptions, finishes and aborts.
EngineExact == TypeOK /\ InOnePlace /\ PagesAccounted

\* What a request is conditioned on is its own: its tokens are those its client
\* got, the cached pages it has are those of its prefix, and its own pages are
\* written before they are read.
ContextIsOwn == StreamIsOutput /\ CachedUnderOwnPrefix /\ OwnKvWritten

\* dist_schedule.py: the last stage computes on the driver's page table, and
\* takes a row for a decode when the driver does, over any number of batches in
\* the pipe, frees and aborts -- for requests that were not preempted (see
\* MirrorExact).
MirrorExactUnpreempted ==
  \A b \in DOMAIN inputs : \A i \in DOMAIN inputs[b] :
    inputs[b][i].req \notin sch.preempted => inputs[b][i].used = inputs[b][i].real

\* The driver and the last stage agree on the requests that need no register: an
\* update never finds its request missing, however late the frees arrive.
MirrorKept ==
  \A q \in known : \/ q \in DOMAIN mirror
                   \/ \E i \in DOMAIN wire : \E r \in wire[i].registers : r.req = q

\* The delta protocol: the last stage has every request that it is sent an update
\* for, and computes on the page table that the driver has for it.
MirrorAgrees == MirrorExactUnpreempted /\ MirrorKept

\* What the driver tells the front end is what GbRequests promises of requests.
Requests == INSTANCE GbRequests

ImplementsRequests == Requests!Spec

\* dist_schedule.py says "Preemption (len < _last_pages_len) triggers a
\* page_table_reset so the follower drops stale page ids".
MirrorExact ==
  \A b \in DOMAIN inputs : \A i \in DOMAIN inputs[b] :
    inputs[b][i].used = inputs[b][i].real

\* Every step of the driver, and no other, moves pc, and the driver can always
\* take one: its loop polls and never waits.  WF_pc(Turn) is WF_vars(Driver).
Turn == pc' \in Calls

Fairness == WF_pc(Turn) /\ WF_vars(RecvSchedulePayload) /\ WF_vars(ForwardPp)

FairSpec == Spec /\ Fairness

\* Every admitted request ends, as long as no request is preempted: neither the
\* reserve nor a parked request at the head of the queue stops the engine.
RequestEndsUnpreempted ==
  [](sch.preempted = {}) => \A q \in Reqs : (fate[q] = "live" ~> fate[q] # "live")

\* Every admitted request ends.
RequestEnds == \A q \in Reqs : (fate[q] = "live" ~> fate[q] # "live")
==============================================================================
