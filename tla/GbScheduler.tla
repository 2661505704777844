----------------------------- MODULE GbScheduler -----------------------------
(***************************************************************************)
(* The scheduler of the serving engine (gllm/scheduler.py, with             *)
(* PrefixMemoryManager of gllm/memory_manager.py and sequence.py): which    *)
(* requests run in the next batch, which pages they get, and what happens   *)
(* to a request whose pages are needed by others.  Everything here is a     *)
(* function on the scheduler's state, a record; the loops that call it are  *)
(* GbWorker (pipeline, one batch per stage in flight) and GbOverlap (one    *)
(* stage, the next batch built before the last one's tokens are known).     *)
(*                                                                          *)
(* Tokens are data: a prompt is a short sequence over a small alphabet, a   *)
(* sampled token is any token.  The adaptive new_token_ratio moves by       *)
(* thousandths per tick; a batch here sees any of Ratios.                   *)
(***************************************************************************)
EXTENDS GbPages, Integers, FiniteSets, Functions

CONSTANTS
  Reqs,       \* requests; an id is not used twice here (GbFrontend reuses ids)
  Prompt,     \* Prompt[q]: its tokens
  OutLen,     \* OutLen[q]: output_len
  Eos,        \* finish_tokens
  PageSize,   \* page_size
  MaxP,       \* maxp: tokens of one batch
  MaxD,       \* maxd: requests of one batch
  PP,         \* pp_size
  SplitPd,    \* schedule_method = "split_pd" (else "chunked_prefill")
  Ratios      \* values of new_token_ratio, in percent

ASSUME SchedulerAssumption ==
  /\ IsFiniteSet(Reqs)
  /\ \A q \in Reqs : Prompt[q] \in Seq(Range(Prompt[q])) /\ Prompt[q] # <<>>
  /\ OutLen \in [Reqs -> Nat \ {0}]
  /\ PageSize \in Nat \ {0} /\ PP \in Nat \ {0}
  /\ MaxP \in Nat \ {0} /\ MaxD \in Nat \ {0}
  /\ Ratios \subseteq Nat

\* A Sequence.  `todo` is to_compute_token_num, `chain` the pages that
\* _ensure_page_hash has hashed: the hash of the first i pages is chain[1..i].
NewSeq(q) ==
  [tok |-> Prompt[q], prompt |-> Len(Prompt[q]), table |-> <<>>,
   computed |-> 0, todo |-> 0, chain |-> <<>>]

\* A Scheduler with its memory manager.  `filled` is the KV cache: the slots of
\* a page that a forward has written since the page was allocated; `frees` is
\* _pending_follower_frees.  Three fields record the past for the properties: the
\* requests that were preempted, that found a page in the prefix cache, and that
\* attended to an unwritten slot.
NewScheduler ==
  [obj |-> [q \in Reqs |-> NewSeq(q)],
   prefill |-> <<>>, decode |-> <<>>, running |-> <<>>,
   pool |-> EmptyPool, filled |-> [p \in Pages |-> {}],
   jitter |-> 0, abort |-> {}, frees |-> <<>>,
   preempted |-> {}, hitters |-> {}, unwritten |-> {}]

MinOf(a, b) == IF a < b THEN a ELSE b
MaxOf(a, b) == IF a < b THEN b ELSE a

PagesFor(n) == (n + PageSize - 1) \div PageSize

ComputedPrompt(s) == s.computed >= s.prompt

\* is_finish.
Finished(q, s) ==
  /\ ComputedPrompt(s)
  /\ s.tok[Len(s.tok)] = Eos \/ Len(s.tok) - Len(Prompt[q]) >= OutLen[q]

FreePages(sch) == Len(sch.pool.free)

-----------------------------------------------------------------------------
(* Pages of one sequence (PrefixMemoryManager). *)

PageTokens(s, i) == SubSeq(s.tok, (i - 1) * PageSize + 1, i * PageSize)

\* _ensure_page_hash for page k and those before it.
Hashed(s, k) ==
  s.chain \o [i \in 1 .. MaxOf(0, k - Len(s.chain)) |-> PageTokens(s, Len(s.chain) + i)]

HashOf(s, k) == SubSeq(Hashed(s, k), 1, k)

\* How many leading pages of s the prefix cache has: those before the first miss.
CachedPages(pool, s) ==
  CHOOSE n \in 0 .. Len(s.tok) \div PageSize :
    /\ \A i \in 1 .. n : HashOf(s, i) \in DOMAIN pool.h2p
    /\ (n + 1) * PageSize <= Len(s.tok) => HashOf(s, n + 1) \notin DOMAIN pool.h2p

\* has_computed for one page after another, and free for one page after another.
Shares(pool, hit) ==
  LET f[n \in 0 .. Len(hit)] == IF n = 0 THEN pool ELSE Share(f[n - 1], hit[n])
  IN  f[Len(hit)]

Drops(pool, pages) ==
  LET f[n \in 0 .. Len(pages)] == IF n = 0 THEN pool ELSE Drop(f[n - 1], pages[n])
  IN  f[Len(pages)]

\* _finalize_prefix_cache_hit for k pages: the last token is computed in any case.
TakeCached(sch, q, k) ==
  LET s == sch.obj[q]
      hit == [i \in 1 .. k |-> sch.pool.h2p[HashOf(s, i)]]
  IN  [sch EXCEPT !.pool = Shares(@, hit),
                  !.hitters = IF k = 0 THEN @ ELSE @ \cup {q},
                  !.obj[q] = [s EXCEPT
                    !.table = hit,
                    !.computed = MinOf(k * PageSize, Len(s.tok) - 1),
                    !.chain = Hashed(s, MinOf(k + 1, Len(s.tok) \div PageSize))]]

\* pre_allocate_computed_page: the cached prefix is taken up to the first miss.
LookUp(sch, q) == TakeCached(sch, q, CachedPages(sch.pool, sch.obj[q]))

\* One round of pre_allocate_page: the hash is registered at once for a page
\* whose tokens are all known, whether or not they are computed in this batch.
AddPage(sch, q) ==
  LET s == sch.obj[q]
      i == Len(s.table) + 1
      known == i * PageSize <= Len(s.tok)
      p == Head(sch.pool.free)
  IN  [sch EXCEPT !.pool = Mint(@, IF known THEN HashOf(s, i) ELSE NoHash),
                  !.filled[p] = {},
                  !.obj[q] = [s EXCEPT !.table = Append(@, p),
                                       !.chain = IF known THEN Hashed(s, i) ELSE @]]

PagesWanted(s) == MaxOf(0, PagesFor(s.computed + s.todo) - Len(s.table))

PreAllocate(sch, q) ==
  LET f[n \in 0 .. PagesWanted(sch.obj[q])] == IF n = 0 THEN sch ELSE AddPage(f[n - 1], q)
  IN  f[PagesWanted(sch.obj[q])]

\* MemoryManager.free: the table itself stays in the object.
GiveBack(sch, q) == [sch EXCEPT !.pool = Drops(@, sch.obj[q].table)]

\* register_decode_boundary for the object s, whose token at `pos` is known now.
RegisterBoundary(pool, s, pos) ==
  LET i == pos \div PageSize
  IN  IF pos % PageSize # 0 \/ i > Len(s.table)
      THEN pool
      ELSE Register(pool, s.table[i], HashOf(s, i))

-----------------------------------------------------------------------------
(* Admission and preemption. *)

\* _seq_reserve_pages: pages the rest of the output may need.
ReserveOf(sch, q, ratio) ==
  LET s == sch.obj[q]
      remaining == OutLen[q] - (Len(s.tok) - Len(Prompt[q]))
      slack == MaxOf(0, Len(s.table) * PageSize - Len(s.tok))
  IN  IF ComputedPrompt(s) /\ remaining > 0
      THEN PagesFor(MaxOf(0, (ratio * remaining) \div 100 - slack))
      ELSE 0

RunningReqs(sch) ==
  UNION {{e.req : e \in {f \in Range(sch.running[b]) : ~f.part}} : b \in DOMAIN sch.running}

\* _decode_reserve_pages: each running request is counted once, page by page.
Reserve(sch, ratio) ==
  MaxOf(MaxOf(1, PP),
        Cardinality(UNION {{q} \X (1 .. ReserveOf(sch, q, ratio)) :
                             q \in Range(sch.decode) \cup RunningReqs(sch)}))

\* Faulty: the recomputation starts from the prompt and samples its tokens anew.
RestartedFromPrompt(s) ==
  [s EXCEPT !.computed = 0, !.tok = SubSeq(@, 1, s.prompt), !.table = <<>>]

\* Faulty: what was computed into the old pages still counts.
RestartedComputed(s) == [s EXCEPT !.prompt = Len(s.tok), !.table = <<>>]

\* Sequence.preempt: what was generated is part of the prompt from now on.
Restarted(s) == [s EXCEPT !.computed = 0, !.prompt = Len(s.tok), !.table = <<>>]

\* One victim of check_preempt, re-queued at the front.
PreemptOne(sch, q) ==
  [GiveBack(sch, q) EXCEPT
     !.decode = Without(@, q),
     !.prefill = <<q>> \o @,
     !.preempted = @ \cup {q},
     !.obj[q] = Restarted(@)]

\* The decoding request with the largest table, the first of those.
Largest(sch) ==
  LET size(i) == Len(sch.obj[sch.decode[i]].table)
  IN  sch.decode[CHOOSE i \in DOMAIN sch.decode :
                   \A j \in DOMAIN sch.decode :
                     size(j) < size(i) \/ (size(j) = size(i) /\ i <= j)]

PreemptNext(sch, need) ==
  IF FreePages(sch) >= need \/ sch.decode = <<>> THEN sch ELSE PreemptOne(sch, Largest(sch))

\* check_preempt: the largest tables first, until `need` pages are free.
Preempt(sch, need) ==
  LET f[n \in 0 .. Len(sch.decode)] == IF n = 0 THEN sch ELSE PreemptNext(f[n - 1], need)
  IN  f[Len(sch.decode)]

\* What a batch is built from: the request, whether it is an unfinished chunk
\* (its object is then dead: the queue has a copy), and what its object is then.
Element(s, q, part) ==
  [req |-> q, part |-> part, from |-> s.computed, todo |-> s.todo,
   prompt |-> s.prompt, table |-> s.table, chain |-> s.chain]

\* The first n decoding requests leave their queue, each for one token.
Stepped(sch, n) ==
  LET taken == SubSeq(sch.decode, 1, n)
  IN  [sch EXCEPT !.decode = SubSeq(@, n + 1, Len(@)),
                  !.obj = [q \in Reqs |-> IF q \in Range(taken)
                                          THEN [@[q] EXCEPT !.todo = 1] ELSE @[q]]]

DecodesOf(sch, taken) ==
  [sch |-> sch,
   batch |-> [i \in DOMAIN taken |-> Element(sch.obj[taken[i]], taken[i], FALSE)]]

PreAllocates(sch, taken) ==
  LET f[n \in 0 .. Len(taken)] == IF n = 0 THEN sch ELSE PreAllocate(f[n - 1], taken[n])
  IN  f[Len(taken)]

TakeDecodes(sch, taken) == DecodesOf(PreAllocates(Stepped(sch, Len(taken)), taken), taken)

\* schedule_decode_batch: those that the preemption left, up to the budget.
DecodeLeft(sch, budget) ==
  TakeDecodes(sch, SubSeq(sch.decode, 1, MinOf(budget, Len(sch.decode))))

DecodeBatch(sch, budget) ==
  DecodeLeft(Preempt(sch, MinOf(budget, Len(sch.decode))), budget)

\* The request is in the batch; a chunk that is not the last goes on as a copy.
Admitted(acc, sch, q) ==
  LET s == sch.obj[q]
      part == s.computed + s.todo < s.prompt
  IN  [acc EXCEPT
         !.budget = @ - s.todo,
         !.batch = Append(@, Element(s, q, part)),
         !.unfinished = IF part THEN Append(@, q) ELSE @,
         !.sch = IF part
                 THEN [sch EXCEPT !.obj[q] = [s EXCEPT !.computed = @ + s.todo, !.chain = <<>>]]
                 ELSE sch]

\* The head does not fit: it and what is behind it wait.
Refused(acc, sch, q) ==
  [acc EXCEPT !.sch = [sch EXCEPT !.obj[q].todo = 0], !.queue = Append(@, q), !.stop = TRUE]

AdmitSized(acc, sch, q, reserve) ==
  IF PagesWanted(sch.obj[q]) <= FreePages(sch) - reserve
  THEN Admitted(acc, PreAllocate(sch, q), q)
  ELSE Refused(acc, sch, q)

AdmitFound(acc, sch, q, reserve) ==
  AdmitSized(acc,
             [sch EXCEPT !.obj[q].todo =
                MinOf(Len(sch.obj[q].tok) - sch.obj[q].computed, acc.budget)],
             q, reserve)

\* One round of schedule_prefill_batch for the head q of the queue.
AdmitOne(acc, q, reserve) ==
  AdmitFound(acc, IF acc.sch.obj[q].computed = 0 THEN LookUp(acc.sch, q) ELSE acc.sch,
             q, reserve)

Requeued(end) ==
  [sch |-> [end.sch EXCEPT !.prefill = end.unfinished \o end.queue], batch |-> end.batch]

\* The next of the queue: admitted, or it stays.
PrefillNext(acc, q, room, reserve) ==
  IF acc.stop \/ acc.budget = 0 \/ Len(acc.batch) >= room
  THEN [acc EXCEPT !.queue = Append(@, q)]
  ELSE AdmitOne(acc, q, reserve)

Prefilled(start, queue, room, reserve) ==
  LET f[n \in 0 .. Len(queue)] ==
        IF n = 0 THEN start ELSE PrefillNext(f[n - 1], queue[n], room, reserve)
  IN  f[Len(queue)]

\* schedule_prefill_batch: the queue is admitted in order until the budget is
\* spent or its head does not fit; a chunk that is not the last goes on as a
\* copy at the front of the queue.
PrefillBatch(sch, budget, room, reserve) ==
  Requeued(Prefilled([sch |-> [sch EXCEPT !.prefill = <<>>], budget |-> budget, batch |-> <<>>,
                      unfinished |-> <<>>, queue |-> <<>>, stop |-> FALSE],
                     sch.prefill, room, reserve))

\* Faulty: fewer requests than stages round down to no request at all.
DecodeBudgetRounded(sch, total) == MinOf(MaxD, (total + sch.jitter) \div PP)

\* get_balanced_decode_token_budget.
DecodeBudget(sch, total) ==
  MinOf(MaxD, IF total < PP THEN 1 ELSE (total + sch.jitter) \div PP)

Jittered(sch, total) ==
  IF total < PP THEN sch ELSE [sch EXCEPT !.jitter = (@ + 1) % PP]

\* get_num_decode_seqs: those in the queue and the rows of the batches that run.
Decodable(sch) ==
  Len(sch.decode)
    + Cardinality(UNION {{b} \X DOMAIN sch.running[b] : b \in DOMAIN sch.running})

DecodeFor(sch, total) ==
  DecodeBatch(Jittered(sch, total), MinOf(DecodeBudget(sch, total), MaxP))

\* What is left of the budget after `first` is for prefills.
Prefills(first, reserve) ==
  PrefillBatch(first.sch,
               MinOf(MaxP - Len(first.batch),
                     PageSize * MaxOf(FreePages(first.sch) - reserve, 0)),
               MaxD - Len(first.batch), reserve)

MixedBatch(first, reserve) ==
  [Prefills(first, reserve) EXCEPT !.batch = first.batch \o @]

\* split_pd prefers prefills, and decodes when none is admitted.
PrefillElse(mixed, total) ==
  IF mixed.batch = <<>> THEN DecodeFor(mixed.sch, total) ELSE mixed

\* chunked_prefill, which is split_pd too.
ChunkedPrefill(sch, ratio) ==
  LET total == Decodable(sch)
      reserve == Reserve(sch, ratio)
      none == DecodeBatch(Jittered(sch, total), 0)
  IN  IF SplitPd /\ sch.prefill # <<>> /\ FreePages(sch) >= reserve
      THEN PrefillElse(MixedBatch(none, reserve), total)
      ELSE MixedBatch(DecodeFor(sch, total), reserve)

\* The forward of a batch writes the KV of its tokens, then attends to all
\* tokens of each sequence up to them; forwards run in the order of the batches.
Slots(e) == {<<e.table[(i \div PageSize) + 1], i % PageSize>> : i \in e.from .. e.from + e.todo - 1}

Forward(sch, batch) ==
  LET new == UNION {Slots(e) : e \in Range(batch)}
      filled == [p \in Pages |->
                   sch.filled[p] \cup {i \in 0 .. PageSize - 1 : <<p, i>> \in new}]
      blind == {e \in Range(batch) : \E i \in 0 .. e.from - 1 :
                  (i % PageSize) \notin filled[e.table[(i \div PageSize) + 1]]}
  IN  [sch EXCEPT !.filled = filled, !.unwritten = @ \cup {e.req : e \in blind}]

Started(r) ==
  IF r.batch = <<>> THEN r
  ELSE [r EXCEPT !.sch.running =
          Append(@, [i \in DOMAIN r.batch |->
                       [req |-> r.batch[i].req, part |-> r.batch[i].part]])]

\* schedule_once: what the next batch is, if a stage is free for it.
ScheduleOnce(sch, ratio) ==
  IF Len(sch.decode) + Len(sch.prefill) = 0 \/ Len(sch.running) >= PP
  THEN [sch |-> sch, batch |-> <<>>]
  ELSE Started(ChunkedPrefill(sch, ratio))

\* Faulty: a decoding request is given up but stays in its queue.
AbortOneWaiting(sch, q) ==
  [GiveBack(sch, q) EXCEPT
     !.prefill = Without(@, q), !.abort = @ \ {q}, !.frees = Append(@, q)]

\* check_abort_seqs: only the two queues are searched; an id that is not found
\* stays in abort_ids.
AbortOne(sch, q) ==
  [GiveBack(sch, q) EXCEPT
     !.prefill = Without(@, q), !.decode = Without(@, q),
     !.abort = @ \ {q}, !.frees = Append(@, q)]

Aborted(sch) == (Range(sch.prefill) \cup Range(sch.decode)) \cap sch.abort

AbortNext(sch, q) == IF q \in sch.abort THEN AbortOne(sch, q) ELSE sch

AbortEach(sch, queue) ==
  LET f[n \in 0 .. Len(queue)] == IF n = 0 THEN sch ELSE AbortNext(f[n - 1], queue[n])
  IN  f[Len(queue)]

CheckAbort(sch) == AbortEach(sch, sch.prefill \o sch.decode)
==============================================================================
