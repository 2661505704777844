------------------------------- MODULE GbLease -------------------------------
(***************************************************************************)
(* The VRAM lease arbiter of gb_lease.py.  Jobs that share one card ask     *)
(* for a lease; the arbiter's whole state is one JSON file that every       *)
(* operation reads, prunes, changes, admits from and rewrites under an      *)
(* flock (LeaseArbiter._txn), so an operation is one atomic step here:      *)
(*                                                                          *)
(*     st' = Admit(body(Prune(st)), card)                                   *)
(*                                                                          *)
(* The rename at the end of _txn makes a crash inside it a stuttering step. *)
(* The state file keeps time stamps; the model keeps the ages they give     *)
(* (now - t_enq, now - t_grant, now - seen), saturated at named bounds, so  *)
(* that time needs no variable of its own.                                  *)
(***************************************************************************)
EXTENDS Integers, FiniteSets

CONSTANTS
  Procs,          \* processes (a pid with its start time names one for good)
  Requests,       \* the argument records that acquire() is called with
  Mortal,         \* bound: the processes that may die
  Models,         \* models of the local server that a holder may pause
  Phys,           \* physical_mib of the card
  Reserve,        \* _reserve(physical_mib)
  Unreadable,     \* a card reading with physical_mib = None
  FreeReadings,   \* free_mib values that a reading may return
  NoBudget,       \* a client without an entry in client_budgets
  ClientBudgets,  \* client -> budget or NoBudget, the same in every process
  QueueMax,       \* queue_max
  Keys,           \* idempotency keys
  NoKey,          \* a call without an idempotency key
  Aging,          \* 1/1000 priority points gained per tick waited
  StarveT,        \* starve_s in ticks
  TtlT,           \* ttl in ticks
  SettleT,        \* SETTLE_S in ticks
  MaxAge,         \* bound: the ages of waiters saturate here
  MaxIdle,        \* bound: `idle` saturates here; up to TtlT, polls are never late
  MaxSeq,         \* bound: tickets issued over a behaviour
  MaxRepairs      \* bound: damages and repairs of the state file

Classes == {"P0", "P1", "P2", "P3", "P4", "P9", "legacy"}

\* The classes that run one holder at a time.
SoloClasses == {"P0", "P1"}

Request == [key : Keys \cup {NoKey}, proc : Procs,
            client : DOMAIN ClientBudgets, cls : Classes, prio : Int,
            vram : Nat, tiering : BOOLEAN, wait : BOOLEAN, control : BOOLEAN]

ASSUME LeaseAssumption ==
  /\ Requests \subseteq Request
  /\ Phys \in Nat /\ Reserve \in Nat
  /\ Unreadable \notin Nat /\ FreeReadings \subseteq Nat
  /\ NoBudget \notin Nat
  /\ \A c \in DOMAIN ClientBudgets : ClientBudgets[c] \in Nat \cup {NoBudget}
  /\ QueueMax \in Nat \ {0}
  /\ Aging \in Nat /\ StarveT \in Nat \ {0}
  /\ TtlT \in Nat /\ SettleT \in Nat /\ MaxAge \in Nat /\ MaxIdle \in Nat
  /\ MaxSeq \in Nat /\ MaxRepairs \in Nat

VARIABLES
  st,        \* state.json: [entries, seq, token, paused]
  alive,     \* the processes whose pid and start time still match
  damaged,   \* state.json is there but cannot be parsed
  repairs,   \* damages and repairs so far (bounds the model)
  handed     \* the models in the `resume` list of the last answer

vars == <<st, alive, damaged, repairs, handed>>

\* A record of the state file.  `seq` stands for lease_id too: both are unique.
\* `since` is the time waited while queued and the time held once granted;
\* token 0 is "token": None; `asked` is "cancel": a word is in the control file.
Entry == [seq : Nat, req : Requests, state : {"queued", "granted"},
          since : Nat, idle : Nat, releasing : BOOLEAN,
          asked : BOOLEAN, token : Nat]

EmptyState == [entries |-> {}, seq |-> 0, token |-> 0, paused |-> {}]

Queued(s) == {e \in s.entries : e.state = "queued"}
Granted(s) == {e \in s.entries : e.state = "granted"}

\* Sum of vram_mib over a set of entries: the MiB they claim, counted one by one.
Units(H) == UNION {{e.seq} \X (1 .. e.req.vram) : e \in H}
Claimed(H) == Cardinality(Units(H))

\* What card() may answer.
Cards == FreeReadings \cup {Unreadable}

-----------------------------------------------------------------------------
(* The order of the queue. *)

Capped(n, bound) == IF n < bound THEN n ELSE bound

\* _LEVELS: the base priorities of the client table, highest first.
LevelOf == [P0 |-> 1, P1 |-> 2, P2 |-> 3, P3 |-> 4, P4 |-> 5, P9 |-> 6]
Points == <<100, 80, 50, 40, 10, 0>>

\* Faulty: no anti-starvation.
PromotedLevelNever(e) == LevelOf[e.req.cls]

\* One class up per StarveT waited, never into the interactive class.
PromotedLevel(e) ==
  LET i == LevelOf[e.req.cls] - (e.since \div StarveT)
  IN  IF e.req.cls = "P0" THEN 1 ELSE IF i < 2 THEN 2 ELSE i

\* _eff, in thousandths of a point: base plus aging, capped just below the next
\* class up; a legacy caller's numeric priority is not capped.
Eff(e) ==
  IF e.req.cls = "legacy"
  THEN 1000 * e.req.prio + Aging * e.since
  ELSE LET i == PromotedLevel(e)
           aged == 1000 * Points[i] + Aging * e.since
       IN  IF i = 1 THEN aged ELSE Capped(aged, 1000 * Points[i - 1] - 1)

Before(e, f) == Eff(e) > Eff(f) \/ (Eff(e) = Eff(f) /\ e.seq < f.seq)

-----------------------------------------------------------------------------
(* _prune, _fit, _admit. *)

\* Faulty: a holder that does not renew is dropped like a waiter.
KeptByTtl(e) == e.req.proc \in alive /\ e.idle <= TtlT

\* Faulty: a dead holder's record is kept.
KeptWhenDead(e) == ~(e.state = "queued" /\ e.idle > TtlT)

\* A granted record goes only with its process; a queued one also when it has
\* not been polled for longer than its ttl.
Kept(e) == e.req.proc \in alive /\ ~(e.state = "queued" /\ e.idle > TtlT)

Prune(s) ==
  LET keep == {e \in s.entries : Kept(e)}
  IN  [s EXCEPT !.entries = keep,
                !.paused = IF \E e \in keep : e.state = "granted" THEN @ ELSE {}]

\* Faulty: only the interactive class is solo.
SoloFreeP0Only(H, e) ==
  e.req.cls = "P0" => \A g \in H : g.req.cls # e.req.cls

\* Faulty: the client's other leases are not counted.
WithinClientBudgetAlone(H, e) ==
  ClientBudgets[e.req.client] # NoBudget => e.req.vram <= ClientBudgets[e.req.client]

\* The clauses of _fit, for a waiter e next to the holders H.
SoloFree(H, e) ==
  e.req.cls \in SoloClasses => \A g \in H : g.req.cls # e.req.cls

WithinClientBudget(H, e) ==
  ClientBudgets[e.req.client] # NoBudget =>
    Claimed({g \in H : g.req.client = e.req.client}) + e.req.vram
      <= ClientBudgets[e.req.client]

\* A holder granted within SettleT counts as not having allocated anything yet.
Pending(H) == Claimed({g \in H : g.state = "queued" \/ g.since < SettleT})

FitsCard(H, e, card) ==
  /\ card # Unreadable
  /\ e.req.vram <= Phys - Reserve - Claimed(H)
  /\ e.req.vram <= card - Pending(H)

\* Faulty: a job next to a tiering holder is judged by its budget.
FitNextToTiering(H, e, card) ==
  /\ \A g \in H : ~g.releasing
  /\ \/ H = {}
     \/ /\ SoloFree(H, e)
        /\ WithinClientBudget(H, e)
        /\ ~e.req.tiering
        /\ FitsCard(H, e, card)

Fit(H, e, card) ==
  /\ \A g \in H : ~g.releasing
  /\ \/ H = {}
     \/ /\ SoloFree(H, e)
        /\ WithinClientBudget(H, e)
        /\ ~e.req.tiering
        /\ \A g \in H : ~g.req.tiering
        /\ FitsCard(H, e, card)

\* The waiters served before e.
Ahead(s, e) == {f \in Queued(s) : Before(f, e)}

\* Faulty: the waiters granted earlier in the same pass are forgotten.
AdmittedEachAlone(s, card) ==
  {e \in Queued(s) : \A f \in Ahead(s, e) \cup {e} : Fit(Granted(s), f, card)}

\* Faulty: backfill, a waiter that does not fit is skipped.
AdmittedBackfill(s, card) ==
  {e \in Queued(s) :
     LET fitting == {f \in Ahead(s, e) : Fit(Granted(s), f, card)}
     IN  Fit(Granted(s) \cup fitting, e, card)}

\* Strict head-of-line: the scan of the queue stops at the first waiter that
\* does not fit next to the holders and the waiters granted before it.
Admitted(s, card) ==
  {e \in Queued(s) : \A f \in Ahead(s, e) \cup {e} :
                        Fit(Granted(s) \cup Ahead(s, f), f, card)}

\* Faulty: the counter is read once for the whole pass.
GrantSameToken(s, e) ==
  [e EXCEPT !.state = "granted", !.since = 0, !.token = s.token + 1]

Grant(s, e) ==
  [e EXCEPT !.state = "granted", !.since = 0,
            !.token = s.token + Cardinality(Ahead(s, e)) + 1]

Admit(s, card) ==
  LET new == Admitted(s, card)
  IN  [s EXCEPT !.entries = (@ \ new) \cup {Grant(s, e) : e \in new},
                !.token = @ + Cardinality(new)]

-----------------------------------------------------------------------------
(* The operations: each is one transaction on an undamaged state file.       *)
(* "\E s \in {x}" is LET s == x, with x computed once by TLC.               *)

\* The end of _txn: admit, then write the file.
Commit(body, card, resume) ==
  /\ ~damaged
  /\ \E s \in {body} : st' = Admit(s, card)
  /\ handed' = resume
  /\ UNCHANGED <<alive, damaged, repairs>>

\* status, check and `init`, and every call that names an unknown lease or a
\* stale token: nothing but the pruning and the admission.
Observe(card) == Commit(Prune(st), card, {})

Tickets(s, r) == {e \in s.entries : r.key # NoKey /\ e.req.key = r.key}

\* The refusals of acquire, checked against the pruned state; `block` is whether
\* the owner's file of that name exists, which no other operation reads.
Refused(s, r, block, card) ==
  \/ block /\ r.client # "owner.interactive"
  \/ Cardinality(Queued(s)) >= QueueMax
  \/ ClientBudgets[r.client] # NoBudget /\ r.vram > ClientBudgets[r.client]
  \/ card # Unreadable /\ ~r.tiering /\ r.vram > Phys - Reserve

NewEntry(s, r) ==
  [seq |-> s.seq + 1, req |-> r, state |-> "queued", since |-> 0, idle |-> 0,
   releasing |-> FALSE, asked |-> FALSE, token |-> 0]

Enqueue(s, r) == [s EXCEPT !.seq = @ + 1, !.entries = @ \cup {NewEntry(s, r)}]

Without(s, q) == [s EXCEPT !.entries = {e \in @ : e.seq # q}]

Change(s, e, f) == [s EXCEPT !.entries = (@ \ {e}) \cup {f}]

\* acquire with the key of a ticket that is still in the file: a poll.  It
\* admits inside the body and again when the transaction ends.
AcquirePoll(r, c1, c2) ==
  /\ r.proc \in alive
  /\ \E s \in {Prune(st)} : \E e \in Tickets(s, r) :
       \E polled \in {Change(s, e, [e EXCEPT !.idle = 0])} :
         Commit(Admit(polled, c1), c2, {})

\* Whatever the reason of a refusal, the file has the same future.
AcquireRefused(r, c2) ==
  /\ r.proc \in alive
  /\ \E s \in {Prune(st)} :
       /\ Tickets(s, r) = {}
       /\ {c0 \in Cards : \E block \in BOOLEAN : Refused(s, r, block, c0)} # {}
       /\ Commit(s, c2, {})

\* With wait=False a ticket that is not granted at once is withdrawn (the
\* answer is BUSY_HOLDER), after which the transaction admits again.
AcquireNew(r, c1, c2) ==
  /\ r.proc \in alive
  /\ \E s \in {Prune(st)} :
       /\ Tickets(s, r) = {}
       /\ {c0 \in Cards : \E block \in BOOLEAN : ~Refused(s, r, block, c0)} # {}
       /\ s.seq < MaxSeq
       /\ \E enqueued \in {Enqueue(s, r)} : \E asked \in {Admit(enqueued, c1)} :
            Commit(IF r.wait \/ \E e \in Granted(asked) : e.seq = s.seq + 1
                   THEN asked ELSE Without(asked, s.seq + 1), c2, {})

\* The other operations name a lease e that is in the pruned file.
Renew(e, card) ==
  \E s \in {Prune(st)} :
    /\ e \in s.entries
    /\ Commit(Change(s, e, [e EXCEPT !.idle = 0]), card, {})

\* Faulty: whoever begins to release is handed the paused models.
BeginReleaseAny(e, card) ==
  \E s \in {Prune(st)} :
    /\ e \in Granted(s)
    /\ \E mine \in {Change(s, e, [e EXCEPT !.releasing = TRUE])} :
         Commit([mine EXCEPT !.paused = {}], card, mine.paused)

\* First half of a release: the last holder that is not itself giving the card
\* back is told which models to resume.
BeginRelease(e, card) ==
  \E s \in {Prune(st)} :
    /\ e \in Granted(s)
    /\ \E mine \in {Change(s, e, [e EXCEPT !.releasing = TRUE])} :
         IF \A g \in Granted(mine) : g.releasing
         THEN Commit([mine EXCEPT !.paused = {}], card, mine.paused)
         ELSE Commit(mine, card, {})

\* release with the lease's own token, or without a token.
Release(e, card) ==
  \E s \in {Prune(st)} :
    /\ e \in s.entries
    /\ \E left \in {Without(s, e.seq)} :
         IF e.state = "granted" /\ ~e.releasing /\ Granted(left) = {}
         THEN Commit([left EXCEPT !.paused = {}], card, left.paused)
         ELSE Commit(left, card, {})

NotePaused(e, ms, card) ==
  \E s \in {Prune(st)} :
    /\ e \in s.entries
    /\ Commit([s EXCEPT !.paused = @ \cup ms], card, {})

\* A waiter is removed; a holder keeps the card and is asked through its
\* control file, when it has one (otherwise the call only observes).
Cancel(e, card) ==
  \E s \in {Prune(st)} :
    \/ /\ e \in Queued(s)
       /\ Commit(Without(s, e.seq), card, {})
    \/ /\ e \in Granted(s) /\ e.req.control
       /\ Commit(Change(s, e, [e EXCEPT !.asked = TRUE]), card, {})

-----------------------------------------------------------------------------
(* The environment. *)

Aged(e) ==
  [e EXCEPT !.since = Capped(@ + 1, IF e.state = "queued" THEN MaxAge ELSE SettleT),
            !.idle = Capped(@ + 1, MaxIdle)]

Tick ==
  /\ st' = [st EXCEPT !.entries = {Aged(e) : e \in @}]
  /\ handed' = {}
  /\ UNCHANGED <<alive, damaged, repairs>>

\* A client crashes, or its pid is reused by another process.
Die(p) ==
  /\ p \in alive \cap Mortal
  /\ alive' = alive \ {p}
  /\ handed' = {}
  /\ UNCHANGED <<st, damaged, repairs>>

Damage ==
  /\ repairs < MaxRepairs
  /\ damaged' = TRUE
  /\ repairs' = repairs + 1
  /\ handed' = {}
  /\ UNCHANGED <<st, alive>>

\* `python3 gb_lease.py repair` moves whatever state file there is aside,
\* without the lock and without reading it.
Repair ==
  /\ repairs < MaxRepairs \/ damaged
  /\ st' = EmptyState
  /\ damaged' = FALSE
  /\ repairs' = IF damaged THEN repairs ELSE repairs + 1
  /\ handed' = {}
  /\ UNCHANGED alive

-----------------------------------------------------------------------------
Init ==
  /\ st = EmptyState
  /\ alive = Procs
  /\ damaged = FALSE
  /\ repairs = 0
  /\ handed = {}

Operation ==
  \E card \in Cards :
    \/ Observe(card)
    \/ \E r \in Requests, c1 \in Cards : AcquireNew(r, c1, card)
    \/ \E r \in Requests : AcquireRefused(r, card)
    \/ \E r \in Requests, c1 \in Cards : AcquirePoll(r, c1, card)
    \/ \E e \in st.entries :
         \/ Renew(e, card)
         \/ BeginRelease(e, card)
         \/ Release(e, card)
         \/ \E ms \in SUBSET Models : NotePaused(e, ms, card)
         \/ Cancel(e, card)

Environment ==
  \/ Tick
  \/ \E p \in Procs : Die(p)
  \/ Damage
  \/ Repair

Next == Operation \/ Environment

Holders == Granted(st)

Spec == Init /\ [][Next]_vars

\* A waiting client repeats its call once a second and a holder releases when
\* its work ends (gb_lease_client.lease does both); somebody runs `repair`.
Fairness ==
  /\ \A r \in Requests :
       /\ WF_vars(\E c1, c2 \in Cards : AcquirePoll(r, c1, c2))
       /\ WF_vars(\E e \in Holders, card \in Cards :
                     e.req = r /\ r.proc \in alive /\ Release(e, card))
  /\ WF_vars(damaged /\ Repair)

FairSpec == Spec /\ Fairness

-----------------------------------------------------------------------------
(* Properties. *)

\* The state file and the rest keep their shapes, and a lease id names one record.
TypeOK ==
  /\ st.entries \subseteq Entry
  /\ st.seq \in Nat /\ st.token \in Nat
  /\ st.paused \subseteq Models
  /\ \A e, f \in st.entries : e.seq = f.seq => e = f
  /\ alive \subseteq Procs
  /\ damaged \in BOOLEAN
  /\ repairs \in Nat
  /\ handed \subseteq Models

\* "P0 and P1 are solo classes": whatever order requests, polls, releases and
\* deaths come in, no two holders are of the same solo class (_fit).
SoloClassesExclusive ==
  \A e, f \in Holders :
    e.req.cls \in SoloClasses /\ e.req.cls = f.req.cls => e = f

\* "a job that needs tiering runs alone": next to no other holder, whichever of
\* the two was granted first (_fit).
TieringRunsAlone ==
  \A e \in Holders : e.req.tiering => Holders = {e}

\* Both: nobody holds the card next to a job that must not share it.
SoloKeptApart == SoloClassesExclusive /\ TieringRunsAlone

\* Holders that share the card claim no more than it has beside the reserve,
\* also when several are granted in one pass of _admit.
SharedBudgetFits ==
  Cardinality(Holders) > 1 => Claimed(Holders) <= Phys - Reserve

\* No client holds more than its budget over all its leases, the first of which
\* _fit grants without looking at the budget.
ClientBudgetsHold ==
  \A c \in DOMAIN ClientBudgets :
    ClientBudgets[c] # NoBudget =>
      Claimed({e \in Holders : e.req.client = c}) <= ClientBudgets[c]

\* Both: the card and the clients' shares of it are never promised twice.
BudgetsHold == SharedBudgetFits /\ ClientBudgetsHold

\* "The same idempotency_key returns the same ticket": a client that repeats its
\* call never has two records, so a retry never claims the card twice (acquire).
OneTicketPerKey ==
  \A e, f \in st.entries :
    e.req.key # NoKey /\ e.req.key = f.req.key => e = f

\* "The queue is bounded": at most queue_max wait, although a waiter is counted
\* before the admission that may take others out of the queue (acquire).
QueueBounded == Cardinality(Queued(st)) <= QueueMax

\* Both: neither retries nor a crowd of callers grow the state file.
TicketsBounded == OneTicketPerKey /\ QueueBounded

\* What the state file promises fits what there is: of the card, of the clients' shares
\* and of the queue, and no retry is promised anything twice.
ClaimsExact == BudgetsHold /\ TicketsBounded

\* A fencing token names one grant: holders' tokens differ and none is ahead of
\* the counter, with several grants in one pass included (_admit).
TokensFence ==
  /\ \A e \in Holders : e.token \in 1 .. st.token
  /\ \A e, f \in Holders : e.token = f.token => e = f

Holder(s, q) == \E e \in Granted(s) : e.seq = q
Waiting(s, q) == \E e \in Queued(s) : e.seq = q

\* A step granted the waiter e, which is a record of st.
Passes(e) == e \in Queued(st) /\ Holder(st', e.seq)

\* "No backfill": when a step grants one waiter, another that was already
\* waiting and still waits afterwards does not come before it in the queue's
\* order, whatever mix of pruning, withdrawal and double admission the step was.
HeadOfLine ==
  [][\A e, f \in Queued(st) :
       Passes(e) /\ Waiting(st', f.seq) => Before(e, f)]_vars

\* "no new grant is made while a holder is resuming": a step that ends with a
\* releasing holder has granted nothing (begin_release, _fit).
NoGrantWhileReleasing ==
  [][(\E g \in Granted(st') : g.releasing) =>
       \A e \in Granted(st') : Holder(st, e.seq)]_vars

\* "A holder that is alive is NEVER evicted, even past its ttl": only a release
\* of that very lease, its process's death or a repair takes a holder's record.
LiveHolderNeverEvicted ==
  [][\A e \in Holders :
       e.req.proc \in alive /\ ~Holder(st', e.seq) =>
         Repair \/ \E card \in Cards : Release(e, card)]_vars

\* A waiter that has been promoted as far as it goes is passed by interactive
\* requests only: not by an older class, nor by any later arrival (_eff).
\* Legacy callers, whose numeric priority is not capped, are left out.
StarvedPassedOnlyByInteractive ==
  [][\A e, f \in Queued(st) :
       /\ Passes(e) /\ Waiting(st', f.seq)
       /\ f.since >= 4 * StarveT
       /\ "legacy" \notin {e.req.cls, f.req.cls}
       => e.req.cls = "P0" \/ e.seq < f.seq]_vars

\* "the LAST holder to leave resumes them": a paused model is handed back, or
\* forgotten, only when no holder from before the step goes on using the card.
PausedUntilLastHolder ==
  [][\A m \in Models :
       m \in st.paused /\ m \notin st'.paused /\ ~Repair =>
         \A e \in Holders : Holder(st', e.seq) =>
           \E g \in Granted(st') : g.seq = e.seq /\ g.releasing]_vars

\* A release in two calls: neither is the card granted between them, nor are models
\* resumed before the first call of the last holder.
ReleaseInTwoCalls == NoGrantWhileReleasing /\ PausedUntilLastHolder

\* "Models a holder paused are recorded here so the LAST holder to leave resumes
\* them": a model leaves the list only in the `resume` answer of a call.  It does
\* not hold: see the findings.
PausedHandedBack ==
  [][\A m \in st.paused : m \in st'.paused \/ m \in handed' \/ Repair]_vars

\* "Nothing waits for ever": with the clients that the fairness describes, and
\* although holders die without releasing, no waiter stays in the queue.
WaiterServed ==
  \A r \in Requests :
    (\E e \in Queued(st) : e.req = r /\ r.proc \in alive)
      ~> ~(\E e \in Queued(st) : e.req = r /\ r.proc \in alive)
=============================================================================
