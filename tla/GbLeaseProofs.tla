---------------------------- MODULE GbLeaseProofs ----------------------------
(***************************************************************************)
(* Proofs about the arbiter, for every card, table of clients, set of       *)
(* requests and bound.  Every operation is Admit(body(Prune(st))), so each  *)
(* invariant is stated of a state record s and shown to pass through the    *)
(* three parts: first exclusion and tokens, then the sums (holders that     *)
(* share the card fit it together, a client stays within its budget over    *)
(* all its leases, the queue has its bound, a key names one record).        *)
(***************************************************************************)
EXTENDS GbLease, GbLeaseFile, FiniteSetTheorems, TLAPS

\* The shape of the state file, with what makes lease ids unique: no record is
\* numbered beyond the counter, and the records are finitely many.
StateOK(s) ==
  /\ s \in [entries : SUBSET Entry, seq : Nat, token : Nat, paused : SUBSET Models]
  /\ IsFiniteSet(s.entries)
  /\ \A e \in s.entries : e.seq <= s.seq
  /\ \A e, f \in s.entries : e.seq = f.seq => e = f

EnvOK ==
  /\ alive \subseteq Procs
  /\ damaged \in BOOLEAN
  /\ repairs \in Nat
  /\ handed \subseteq Models

-----------------------------------------------------------------------------
(* Lemmas about the parts of a transaction. *)

\* Pruning keeps the shape of the state.
LEMMA PruneOK ==
  ASSUME NEW s, StateOK(s)
  PROVE  StateOK(Prune(s))
<1> DEFINE keep == {e \in s.entries : Kept(e)}
<1>1. IsFiniteSet(keep)
  BY FS_Subset DEF StateOK
<1>2. Prune(s).entries = keep /\ Prune(s).seq = s.seq /\ Prune(s).token = s.token
  BY DEF Prune, StateOK
<1>3. Prune(s) \in [entries : SUBSET Entry, seq : Nat, token : Nat, paused : SUBSET Models]
  BY DEF Prune, StateOK
<1> QED BY <1>1, <1>2, <1>3 DEF StateOK

\* Granting the admitted waiters keeps the shape of the state.
LEMMA AdmitOK ==
  ASSUME NEW s, StateOK(s), NEW card
  PROVE  StateOK(Admit(s, card))
<1> DEFINE new == Admitted(s, card)
           granted == {Grant(s, e) : e \in new}
           t == Admit(s, card)
<1>1. new \subseteq s.entries /\ IsFiniteSet(new)
  BY FS_Subset DEF StateOK, Admitted, Queued
<1>2. \A e \in new : Grant(s, e) \in Entry /\ Grant(s, e).seq = e.seq
  <2> SUFFICES ASSUME NEW e \in new
               PROVE  Grant(s, e) \in Entry /\ Grant(s, e).seq = e.seq
    OBVIOUS
  <2>1. e \in Entry
    BY <1>1 DEF StateOK
  <2>2. Cardinality(Ahead(s, e)) \in Nat
    <3>1. IsFiniteSet(Ahead(s, e))
      BY FS_Subset DEF StateOK, Ahead, Queued
    <3> QED BY <3>1, FS_CardinalityType
  <2>3. s.token + Cardinality(Ahead(s, e)) + 1 \in Nat
    BY <2>2 DEF StateOK
  <2> QED BY <2>1, <2>3 DEF Grant, Entry
<1>3. IsFiniteSet(granted)
  <2> DEFINE grant == [e \in new |-> Grant(s, e)]
  <2>1. grant \in Surjection(new, granted)
    BY DEF Surjection
  <2> QED BY <1>1, <2>1, FS_Surjection
<1>4. IsFiniteSet((s.entries \ new) \cup granted)
  <2>1. IsFiniteSet(s.entries \ new)
    BY FS_Subset DEF StateOK
  <2> QED BY <1>3, <2>1, FS_Union
<1>5. Cardinality(new) \in Nat
  BY <1>1, FS_CardinalityType
<1>6. /\ t.entries = (s.entries \ new) \cup granted
      /\ t.seq = s.seq /\ t.token = s.token + Cardinality(new)
      /\ t.paused = s.paused
  BY DEF Admit, StateOK
<1>7. t \in [entries : SUBSET Entry, seq : Nat, token : Nat, paused : SUBSET Models]
  <2>1. (s.entries \ new) \cup granted \in SUBSET Entry
    BY <1>2 DEF StateOK
  <2>2. s.token + Cardinality(new) \in Nat
    BY <1>5 DEF StateOK
  <2> QED BY <2>1, <2>2 DEF Admit, StateOK
<1>8. \A e \in t.entries : \E f \in s.entries :
         /\ f.seq = e.seq
         /\ e = IF f \in new THEN Grant(s, f) ELSE f
  BY <1>1, <1>2, <1>6
<1>9. \A e \in t.entries : e.seq <= t.seq
  BY <1>6, <1>8 DEF StateOK
<1>10. \A e, f \in t.entries : e.seq = f.seq => e = f
  BY <1>8 DEF StateOK
<1> HIDE DEF new, granted, t
<1> QED BY <1>4, <1>6, <1>7, <1>9, <1>10 DEF StateOK, t

-----------------------------------------------------------------------------
(* Lemmas about the bodies. *)

\* Replacing a record by one of the same number keeps the shape.
LEMMA ChangeOK ==
  ASSUME NEW s, StateOK(s), NEW e \in s.entries, NEW f \in Entry, f.seq = e.seq
  PROVE  StateOK(Change(s, e, f))
<1>1. IsFiniteSet((s.entries \ {e}) \cup {f})
  BY FS_RemoveElement, FS_AddElement DEF StateOK
<1>2. /\ Change(s, e, f).entries = (s.entries \ {e}) \cup {f}
      /\ Change(s, e, f).seq = s.seq
  BY DEF Change, StateOK
<1>3. Change(s, e, f)
        \in [entries : SUBSET Entry, seq : Nat, token : Nat, paused : SUBSET Models]
  BY DEF Change, StateOK
<1> QED BY <1>1, <1>2, <1>3 DEF StateOK

LEMMA WithoutOK ==
  ASSUME NEW s, StateOK(s), NEW q
  PROVE  StateOK(Without(s, q))
<1>1. IsFiniteSet({e \in s.entries : e.seq # q})
  BY FS_Subset DEF StateOK
<1>2. /\ Without(s, q).entries = {e \in s.entries : e.seq # q}
      /\ Without(s, q).seq = s.seq
  BY DEF Without, StateOK
<1>3. Without(s, q)
        \in [entries : SUBSET Entry, seq : Nat, token : Nat, paused : SUBSET Models]
  BY DEF Without, StateOK
<1> QED BY <1>1, <1>2, <1>3 DEF StateOK

LEMMA EnqueueOK ==
  ASSUME NEW s, StateOK(s), NEW r \in Requests
  PROVE  StateOK(Enqueue(s, r))
<1> DEFINE n == NewEntry(s, r)
<1>1. s.seq \in Nat /\ s.seq + 1 \in Nat
  BY DEF StateOK
<1>2. n \in Entry /\ n.seq = s.seq + 1
  BY <1>1 DEF NewEntry, Entry
<1>3. IsFiniteSet(s.entries \cup {n})
  BY FS_AddElement DEF StateOK
<1>4. \A e \in s.entries : e.seq \in Nat /\ e.seq <= s.seq
  BY DEF StateOK, Entry
<1>5. s.entries \cup {n} \in SUBSET Entry
  BY <1>2 DEF StateOK
<1> HIDE DEF n
<1>6. Enqueue(s, r) = [s EXCEPT !.seq = s.seq + 1, !.entries = s.entries \cup {n}]
  BY DEF Enqueue, n
<1>7. /\ Enqueue(s, r).entries = s.entries \cup {n}
      /\ Enqueue(s, r).seq = s.seq + 1
  BY <1>6 DEF StateOK
<1>8. Enqueue(s, r)
        \in [entries : SUBSET Entry, seq : Nat, token : Nat, paused : SUBSET Models]
  BY <1>1, <1>5, <1>6 DEF StateOK
<1>9. \A e, f \in s.entries \cup {n} : e.seq <= s.seq + 1 /\ (e.seq = f.seq => e = f)
  BY <1>1, <1>2, <1>4 DEF StateOK
<1> QED BY <1>3, <1>7, <1>8, <1>9 DEF StateOK

LEMMA PausedOK ==
  ASSUME NEW s, StateOK(s), NEW ms \in SUBSET Models
  PROVE  StateOK([s EXCEPT !.paused = ms])
BY DEF StateOK

-----------------------------------------------------------------------------
(* Who may hold the card together, and the tokens of those who do. *)

MayShare(r1, r2) ==
  /\ ~r1.tiering /\ ~r2.tiering
  /\ r1.cls \in SoloClasses => r1.cls # r2.cls

Exclusive(s) ==
  \A e, f \in Granted(s) : e.seq # f.seq => MayShare(e.req, f.req)

TokensOK(s) ==
  /\ \A e \in Granted(s) : e.token \in 1 .. s.token
  /\ \A e, f \in Granted(s) : e.token = f.token => e = f

Good(s) == StateOK(s) /\ Exclusive(s) /\ TokensOK(s)

\* t has no holder that s does not have: what every body does to the holders.
NoNewHolder(t, s) ==
  /\ t.token = s.token
  /\ \A e \in Granted(t) : \E f \in Granted(s) :
       e.seq = f.seq /\ e.req = f.req /\ e.token = f.token

LEMMA NoNewHolderGood ==
  ASSUME NEW s, NEW t, Good(s), StateOK(t), NoNewHolder(t, s)
  PROVE  Good(t)
<1>1. Exclusive(t)
  BY DEF Good, Exclusive, NoNewHolder
<1>2. TokensOK(t)
  <2>1. \A e \in Granted(t) : e.token \in 1 .. t.token
    BY DEF Good, TokensOK, NoNewHolder
  <2>2. ASSUME NEW e \in Granted(t), NEW f \in Granted(t), e.token = f.token
        PROVE  e = f
    <3>1. e.seq = f.seq
      BY <2>2 DEF Good, TokensOK, NoNewHolder
    <3> QED BY <3>1 DEF StateOK, Granted
  <2> QED BY <2>1, <2>2 DEF TokensOK
<1> QED BY <1>1, <1>2 DEF Good

\* The queue's order is a strict total order on records of different number.
LEMMA EffInt ==
  ASSUME NEW e \in Entry
  PROVE  Eff(e) \in Int
<1>1. e.since \in Nat /\ e.req \in Request
  BY LeaseAssumption DEF Entry
<1>2. Aging * e.since \in Int /\ e.since \div StarveT \in Nat
  BY <1>1, LeaseAssumption
<1>3. e.req.prio \in Int /\ e.req.cls \in Classes
  BY <1>1 DEF Request
<1>4. CASE e.req.cls = "legacy"
  BY <1>2, <1>3, <1>4 DEF Eff
<1>5. CASE e.req.cls # "legacy"
  <2>1. LevelOf[e.req.cls] \in 1 .. 6
    BY <1>3, <1>5 DEF LevelOf, Classes
  <2>2. PromotedLevel(e) \in 1 .. 6
    BY <1>2, <2>1 DEF PromotedLevel
  <2>3. \A i \in 1 .. 6 : Points[i] \in Int
    BY DEF Points
  <2> QED BY <1>2, <1>5, <2>2, <2>3 DEF Eff, Capped
<1> QED BY <1>4, <1>5

LEMMA BeforeOrder ==
  ASSUME NEW e \in Entry, NEW f \in Entry, NEW g \in Entry
  PROVE  /\ ~Before(e, e)
         /\ e.seq # f.seq => Before(e, f) \/ Before(f, e)
         /\ Before(e, f) /\ Before(f, g) => Before(e, g)
<1>1. Eff(e) \in Int /\ Eff(f) \in Int /\ Eff(g) \in Int
  BY EffInt
<1>2. e.seq \in Nat /\ f.seq \in Nat /\ g.seq \in Nat
  BY DEF Entry
<1> QED BY <1>1, <1>2 DEF Before

\* Those served before an admitted waiter are admitted too, and it may share the
\* card with each of them and with every holder.
LEMMA AdmittedPrefix ==
  ASSUME NEW s, StateOK(s), NEW card, NEW e \in Admitted(s, card)
  PROVE  /\ e \in Entry /\ e \in Queued(s)
         /\ Ahead(s, e) \subseteq Admitted(s, card)
         /\ Fit(Granted(s) \cup Ahead(s, e), e, card)
<1>1. /\ e \in Entry /\ e \in Queued(s)
      /\ Fit(Granted(s) \cup Ahead(s, e), e, card)
  BY DEF Admitted, Queued, StateOK
<1>2. ASSUME NEW f \in Ahead(s, e)
      PROVE  f \in Admitted(s, card)
  <2>1. f \in Queued(s) /\ f \in Entry /\ Before(f, e)
    BY DEF Ahead, Queued, StateOK
  <2>2. Ahead(s, f) \subseteq Ahead(s, e)
    <3> SUFFICES ASSUME NEW g \in Ahead(s, f) PROVE g \in Ahead(s, e)
      OBVIOUS
    <3>1. g \in Queued(s) /\ g \in Entry /\ Before(g, f)
      BY DEF Ahead, Queued, StateOK
    <3>2. Before(g, e)
      BY <1>1, <2>1, <3>1, BeforeOrder
    <3> QED BY <3>1, <3>2 DEF Ahead
  <2> QED BY <2>1, <2>2 DEF Admitted
<1> QED BY <1>1, <1>2

LEMMA AdmittedShares ==
  ASSUME NEW s, StateOK(s), NEW card, NEW e \in Admitted(s, card),
         NEW g \in Granted(s) \cup Ahead(s, e)
  PROVE  MayShare(e.req, g.req) /\ MayShare(g.req, e.req)
<1>1. Fit(Granted(s) \cup Ahead(s, e), e, card)
  BY AdmittedPrefix
<1> QED BY <1>1 DEF Fit, SoloFree, MayShare

LEMMA AdmitGood ==
  ASSUME NEW s, Good(s), NEW card
  PROVE  Good(Admit(s, card))
<1> DEFINE new == Admitted(s, card)
           t == Admit(s, card)
<1>1. StateOK(s) /\ StateOK(t)
  BY AdmitOK DEF Good
<1>2. \A e \in s.entries : Grant(s, e).seq = e.seq /\ Grant(s, e).req = e.req
                           /\ Grant(s, e).state = "granted"
  BY <1>1 DEF StateOK, Entry, Grant
<1>3. \A e \in new : e \in s.entries /\ e.state = "queued" /\ e \in Entry
  BY <1>1 DEF StateOK, Admitted, Queued
\* The holders of t are those of s and the admitted waiters.
<1>4. Granted(t) = Granted(s) \cup {Grant(s, e) : e \in new}
  <2>1. t.entries = (s.entries \ new) \cup {Grant(s, e) : e \in new}
    BY <1>1 DEF Admit, StateOK
  <2> QED BY <1>2, <1>3, <2>1 DEF Granted
<1>5. \A e \in new, g \in Granted(s) : MayShare(e.req, g.req) /\ MayShare(g.req, e.req)
  BY <1>1, AdmittedShares
<1>6. \A e, f \in new : e.seq # f.seq => MayShare(e.req, f.req)
  <2> SUFFICES ASSUME NEW e \in new, NEW f \in new, e.seq # f.seq
               PROVE  MayShare(e.req, f.req)
    OBVIOUS
  <2>1. Before(e, f) \/ Before(f, e)
    BY <1>3, BeforeOrder
  <2>2. CASE Before(e, f)
    <3>1. e \in Ahead(s, f)
      BY <1>3, <2>2 DEF Ahead, Queued
    <3> QED BY <1>1, <3>1, AdmittedShares
  <2>3. CASE Before(f, e)
    <3>1. f \in Ahead(s, e)
      BY <1>3, <2>3 DEF Ahead, Queued
    <3> QED BY <1>1, <3>1, AdmittedShares
  <2> QED BY <2>1, <2>2, <2>3
<1>7. Exclusive(t)
  <2> SUFFICES ASSUME NEW e \in Granted(t), NEW f \in Granted(t), e.seq # f.seq
               PROVE  MayShare(e.req, f.req)
    BY DEF Exclusive
  <2>1. CASE e \in Granted(s) /\ f \in Granted(s)
    BY <2>1 DEF Good, Exclusive
  <2>2. CASE e \notin Granted(s) \/ f \notin Granted(s)
    BY <1>2, <1>3, <1>4, <1>5, <1>6, <2>2
  <2> QED BY <2>1, <2>2
\* The n-th admitted waiter gets the n-th token after the counter.
<1>8. \A e \in new : /\ IsFiniteSet(Ahead(s, e))
                     /\ Cardinality(Ahead(s, e)) \in Nat
                     /\ Cardinality(Ahead(s, e)) + 1 <= Cardinality(new)
  <2> SUFFICES ASSUME NEW e \in new
               PROVE  /\ IsFiniteSet(Ahead(s, e))
                      /\ Cardinality(Ahead(s, e)) \in Nat
                      /\ Cardinality(Ahead(s, e)) + 1 <= Cardinality(new)
    OBVIOUS
  <2>1. IsFiniteSet(new) /\ IsFiniteSet(Ahead(s, e))
    BY <1>1, FS_Subset DEF StateOK, Admitted, Queued, Ahead
  <2>2. e \notin Ahead(s, e)
    BY <1>3, BeforeOrder DEF Ahead
  <2>3. Ahead(s, e) \cup {e} \in SUBSET new
    BY <1>1, AdmittedPrefix
  <2>4. Cardinality(Ahead(s, e) \cup {e}) = Cardinality(Ahead(s, e)) + 1
    BY <2>1, <2>2, FS_AddElement
  <2>5. Cardinality(Ahead(s, e) \cup {e}) <= Cardinality(new)
    BY <2>1, <2>3, FS_Subset
  <2> QED BY <2>1, <2>4, <2>5, FS_CardinalityType
<1>9. \A e, f \in new : e.seq # f.seq => Cardinality(Ahead(s, e)) # Cardinality(Ahead(s, f))
  <2>1. ASSUME NEW e \in new, NEW f \in new, Before(e, f)
        PROVE  Cardinality(Ahead(s, e)) # Cardinality(Ahead(s, f))
    <3>1. Ahead(s, e) \in SUBSET Ahead(s, f)
      <4> SUFFICES ASSUME NEW g \in Ahead(s, e) PROVE g \in Ahead(s, f)
        OBVIOUS
      <4>1. g \in Queued(s) /\ g \in Entry /\ Before(g, e)
        BY <1>1 DEF Ahead, Queued, StateOK
      <4> QED BY <1>3, <2>1, <4>1, BeforeOrder DEF Ahead
    <3>2. e \in Ahead(s, f) /\ e \notin Ahead(s, e)
      BY <1>3, <2>1, BeforeOrder DEF Ahead, Queued
    <3> QED BY <1>8, <3>1, <3>2, FS_Subset
  <2> QED BY <1>3, <2>1, BeforeOrder
<1>10. \A e \in new : Grant(s, e).token = s.token + Cardinality(Ahead(s, e)) + 1
  BY <1>3 DEF Grant, Entry
<1>11. t.token = s.token + Cardinality(new) /\ s.token \in Nat /\ Cardinality(new) \in Nat
  <2>1. IsFiniteSet(new)
    BY <1>1, FS_Subset DEF StateOK, Admitted, Queued
  <2> QED BY <1>1, <2>1, FS_CardinalityType DEF Admit, StateOK
<1>12. TokensOK(t)
  <2>1. \A e \in Granted(s) : e.token \in 1 .. s.token
    BY DEF Good, TokensOK
  <2>2. \A e \in new : Grant(s, e).token \in s.token + 1 .. t.token
    BY <1>8, <1>10, <1>11
  <2>3. \A e \in Granted(t) : e.token \in 1 .. t.token
    BY <1>4, <1>11, <2>1, <2>2
  <2>4. ASSUME NEW e \in Granted(t), NEW f \in Granted(t), e.token = f.token
        PROVE  e = f
    <3>1. CASE e \in Granted(s) /\ f \in Granted(s)
      BY <2>4, <3>1 DEF Good, TokensOK
    <3>2. CASE e \notin Granted(s) /\ f \notin Granted(s)
      <4>1. PICK x \in new, y \in new : e = Grant(s, x) /\ f = Grant(s, y)
        BY <1>4, <3>2
      <4>2. x.seq = y.seq
        BY <1>8, <1>9, <1>10, <1>11, <2>4, <4>1
      <4>3. x = y
        BY <1>1, <1>3, <4>2 DEF StateOK
      <4> QED BY <4>1, <4>3
    <3>3. CASE e \in Granted(s) /\ f \notin Granted(s)
      BY <1>4, <1>11, <2>1, <2>2, <2>4, <3>3
    <3>4. CASE e \notin Granted(s) /\ f \in Granted(s)
      BY <1>4, <1>11, <2>1, <2>2, <2>4, <3>4
    <3> QED BY <3>1, <3>2, <3>3, <3>4
  <2> QED BY <2>3, <2>4 DEF TokensOK
<1> QED BY <1>1, <1>7, <1>12 DEF Good

-----------------------------------------------------------------------------
(* The inductive invariant. *)

IInv == Good(st) /\ EnvOK

LEMMA PruneGood ==
  ASSUME NEW s, Good(s)
  PROVE  Good(Prune(s)) /\ Prune(s).entries \subseteq s.entries
<1>1. StateOK(s) /\ StateOK(Prune(s))
  BY PruneOK DEF Good
<1>2. Prune(s).entries \subseteq s.entries /\ Prune(s).token = s.token
  BY <1>1 DEF Prune, StateOK
<1>3. NoNewHolder(Prune(s), s)
  BY <1>2 DEF NoNewHolder, Granted
<1> QED BY <1>1, <1>2, <1>3, NoNewHolderGood

\* Marking a record, or removing one, makes nobody a holder.
LEMMA ChangeGood ==
  ASSUME NEW s, Good(s), NEW e \in s.entries, NEW f \in Entry,
         f.seq = e.seq, f.req = e.req, f.state = e.state, f.token = e.token
  PROVE  Good(Change(s, e, f))
<1>1. StateOK(s) /\ StateOK(Change(s, e, f))
  BY ChangeOK DEF Good
<1>2. /\ Change(s, e, f).entries = (s.entries \ {e}) \cup {f}
      /\ Change(s, e, f).token = s.token
  BY <1>1 DEF Change, StateOK
<1>3. NoNewHolder(Change(s, e, f), s)
  BY <1>2 DEF NoNewHolder, Granted
<1> QED BY <1>1, <1>3, NoNewHolderGood

LEMMA WithoutGood ==
  ASSUME NEW s, Good(s), NEW q
  PROVE  Good(Without(s, q))
<1>1. StateOK(s) /\ StateOK(Without(s, q))
  BY WithoutOK DEF Good
<1>2. /\ Without(s, q).entries \subseteq s.entries
      /\ Without(s, q).token = s.token
  BY <1>1 DEF Without, StateOK
<1>3. NoNewHolder(Without(s, q), s)
  BY <1>2 DEF NoNewHolder, Granted
<1> QED BY <1>1, <1>3, NoNewHolderGood

LEMMA PausedGood ==
  ASSUME NEW s, Good(s), NEW ms \in SUBSET Models
  PROVE  Good([s EXCEPT !.paused = ms])
<1> DEFINE t == [s EXCEPT !.paused = ms]
<1>1. StateOK(s) /\ StateOK(t)
  BY PausedOK DEF Good
<1>2. t.entries = s.entries /\ t.token = s.token
  BY <1>1 DEF StateOK
<1>3. NoNewHolder(t, s)
  BY <1>2 DEF NoNewHolder, Granted
<1> HIDE DEF t
<1> QED BY <1>1, <1>3, NoNewHolderGood DEF t

LEMMA EnqueueGood ==
  ASSUME NEW s, Good(s), NEW r \in Requests
  PROVE  Good(Enqueue(s, r))
<1>1. StateOK(s) /\ StateOK(Enqueue(s, r))
  BY EnqueueOK DEF Good
<1>2. /\ Enqueue(s, r).entries = s.entries \cup {NewEntry(s, r)}
      /\ Enqueue(s, r).token = s.token
  BY <1>1 DEF Enqueue, StateOK
<1>3. NewEntry(s, r).state = "queued"
  BY DEF NewEntry
<1>4. NoNewHolder(Enqueue(s, r), s)
  BY <1>2, <1>3 DEF NoNewHolder, Granted
<1> QED BY <1>1, <1>4, NoNewHolderGood

\* A transaction whose body is good ends in a good state.
LEMMA CommitGood ==
  ASSUME NEW b, NEW card, NEW resume \in SUBSET Models, Good(b), EnvOK,
         Commit(b, card, resume)
  PROVE  IInv'
<1>1. st' = Admit(b, card)
  BY DEF Commit
<1>2. Good(Admit(b, card))
  BY AdmitGood
<1>3. Good(st)'
  BY <1>1, <1>2 DEF Good, StateOK, Exclusive, TokensOK, Granted
<1>4. EnvOK'
  BY DEF Commit, EnvOK
<1> QED BY <1>3, <1>4 DEF IInv

LEMMA TickGood ==
  ASSUME IInv, Tick
  PROVE  IInv'
<1> DEFINE aged == {Aged(e) : e \in st.entries}
<1>1. Good(st) /\ StateOK(st)
  BY DEF IInv, Good
<1>2. st' = [st EXCEPT !.entries = aged]
  BY DEF Tick
<1>3. st'.entries = aged /\ st'.seq = st.seq /\ st'.token = st.token
  BY <1>1, <1>2 DEF StateOK
<1>4. \A e \in st.entries :
        /\ Aged(e) \in Entry
        /\ Aged(e).seq = e.seq /\ Aged(e).req = e.req
        /\ Aged(e).state = e.state /\ Aged(e).token = e.token
  <2> SUFFICES ASSUME NEW e \in st.entries
               PROVE  /\ Aged(e) \in Entry
                      /\ Aged(e).seq = e.seq /\ Aged(e).req = e.req
                      /\ Aged(e).state = e.state /\ Aged(e).token = e.token
    OBVIOUS
  <2>1. e \in Entry
    BY <1>1 DEF StateOK
  <2>2. /\ Capped(e.since + 1, IF e.state = "queued" THEN MaxAge ELSE SettleT) \in Nat
        /\ Capped(e.idle + 1, MaxIdle) \in Nat
    BY <2>1, LeaseAssumption DEF Capped, Entry
  <2> QED BY <2>1, <2>2 DEF Aged, Entry
<1>5. IsFiniteSet(aged)
  <2> DEFINE age == [e \in st.entries |-> Aged(e)]
  <2>1. age \in Surjection(st.entries, aged)
    BY DEF Surjection
  <2> QED BY <1>1, <2>1, FS_Surjection DEF StateOK
<1>6. StateOK(st')
  <2>1. st' \in [entries : SUBSET Entry, seq : Nat, token : Nat, paused : SUBSET Models]
    BY <1>1, <1>2, <1>4 DEF StateOK
  <2> QED BY <1>1, <1>3, <1>4, <1>5, <2>1 DEF StateOK
<1>7. NoNewHolder(st', st)
  BY <1>3, <1>4 DEF NoNewHolder, Granted
<1>8. Good(st')
  BY <1>1, <1>6, <1>7, NoNewHolderGood
<1>9. Good(st)'
  BY <1>8 DEF Good, StateOK, Exclusive, TokensOK, Granted
<1>10. EnvOK'
  BY DEF Tick, EnvOK, IInv
<1> QED BY <1>9, <1>10 DEF IInv

LEMMA InitGood ==
  ASSUME Init
  PROVE  IInv
<1>1. StateOK(EmptyState)
  BY FS_EmptySet DEF StateOK, EmptyState
<1>2. Granted(EmptyState) = {}
  BY DEF Granted, EmptyState
<1>3. Good(EmptyState)
  BY <1>1, <1>2 DEF Good, Exclusive, TokensOK
<1> QED BY <1>3 DEF Init, IInv, EnvOK

\* Each operation is a transaction with a good body.
LEMMA OperationGood ==
  ASSUME IInv, Operation
  PROVE  IInv'
<1> DEFINE s == Prune(st)
<1>1. Good(s) /\ StateOK(s) /\ s.entries \subseteq st.entries /\ EnvOK
  BY PruneGood DEF IInv, Good
<1>2. s.paused \in SUBSET Models /\ s.entries \subseteq Entry
  BY <1>1 DEF StateOK
<1> HIDE DEF s
<1>3. ASSUME NEW card, Observe(card)
      PROVE  IInv'
  BY <1>1, <1>3, CommitGood DEF Observe, s
<1>4. ASSUME NEW r \in Requests, NEW c1, NEW card, AcquireNew(r, c1, card)
      PROVE  IInv'
  <2> DEFINE asked == Admit(Enqueue(s, r), c1)
  <2>1. Good(Enqueue(s, r))
    BY <1>1, EnqueueGood
  <2>2. Good(asked)
    BY <2>1, AdmitGood
  <2>3. Good(Without(asked, s.seq + 1))
    BY <2>2, WithoutGood
  <2> HIDE DEF asked
  <2>4. \/ Commit(asked, card, {})
        \/ Commit(Without(asked, s.seq + 1), card, {})
    BY <1>4 DEF AcquireNew, s, asked
  <2> QED BY <1>1, <2>2, <2>3, <2>4, CommitGood
<1>5. ASSUME NEW r, NEW card, AcquireRefused(r, card)
      PROVE  IInv'
  BY <1>1, <1>5, CommitGood DEF AcquireRefused, s
<1>6. ASSUME NEW r, NEW c1, NEW card, AcquirePoll(r, c1, card)
      PROVE  IInv'
  <2>1. PICK e \in s.entries :
          Commit(Admit(Change(s, e, [e EXCEPT !.idle = 0]), c1), card, {})
    BY <1>6 DEF AcquirePoll, Tickets, s
  <2>2. e \in Entry
    BY <1>2
  <2> DEFINE f == [e EXCEPT !.idle = 0]
  <2>3. /\ f \in Entry
        /\ f.seq = e.seq /\ f.req = e.req /\ f.state = e.state /\ f.token = e.token
    BY <2>2 DEF Entry
  <2> HIDE DEF f
  <2>4. Good(Change(s, e, f))
    BY <1>1, <2>3, ChangeGood
  <2>5. Good(Admit(Change(s, e, f), c1))
    BY <2>4, AdmitGood
  <2> QED BY <1>1, <2>1, <2>5, CommitGood DEF f
<1>7. ASSUME NEW e, NEW card, Renew(e, card)
      PROVE  IInv'
  <2>1. e \in s.entries /\ Commit(Change(s, e, [e EXCEPT !.idle = 0]), card, {})
    BY <1>7 DEF Renew, s
  <2>2. e \in Entry
    BY <1>2, <2>1
  <2> DEFINE f == [e EXCEPT !.idle = 0]
  <2>3. /\ f \in Entry
        /\ f.seq = e.seq /\ f.req = e.req /\ f.state = e.state /\ f.token = e.token
    BY <2>2 DEF Entry
  <2> HIDE DEF f
  <2>4. Good(Change(s, e, f))
    BY <1>1, <2>1, <2>3, ChangeGood
  <2> QED BY <1>1, <2>1, <2>4, CommitGood DEF f
<1>8. ASSUME NEW e, NEW card, BeginRelease(e, card)
      PROVE  IInv'
  <2> DEFINE f == [e EXCEPT !.releasing = TRUE]
             mine == Change(s, e, f)
  <2>1. /\ e \in s.entries
        /\ \/ Commit([mine EXCEPT !.paused = {}], card, mine.paused)
           \/ Commit(mine, card, {})
    BY <1>8 DEF BeginRelease, Granted, s
  <2>2. e \in Entry
    BY <1>2, <2>1
  <2>3. /\ f \in Entry
        /\ f.seq = e.seq /\ f.req = e.req /\ f.state = e.state /\ f.token = e.token
    BY <2>2 DEF Entry
  <2> HIDE DEF f
  <2>4. Good(mine)
    BY <1>1, <2>1, <2>3, ChangeGood
  <2> HIDE DEF mine
  <2>5. mine.paused \in SUBSET Models
    BY <2>4 DEF Good, StateOK
  <2>6. Good([mine EXCEPT !.paused = {}])
    BY <2>4, PausedGood
  <2> QED BY <1>1, <2>1, <2>4, <2>5, <2>6, CommitGood
<1>9. ASSUME NEW e, NEW card, Release(e, card)
      PROVE  IInv'
  <2> DEFINE left == Without(s, e.seq)
  <2>1. \/ Commit([left EXCEPT !.paused = {}], card, left.paused)
        \/ Commit(left, card, {})
    BY <1>9 DEF Release, s
  <2>2. Good(left)
    BY <1>1, WithoutGood
  <2> HIDE DEF left
  <2>3. left.paused \in SUBSET Models
    BY <2>2 DEF Good, StateOK
  <2>4. Good([left EXCEPT !.paused = {}])
    BY <2>2, PausedGood
  <2> QED BY <1>1, <2>1, <2>2, <2>3, <2>4, CommitGood
<1>10. ASSUME NEW e, NEW ms \in SUBSET Models, NEW card, NotePaused(e, ms, card)
       PROVE  IInv'
  <2>1. Commit([s EXCEPT !.paused = s.paused \cup ms], card, {})
    BY <1>10 DEF NotePaused, s
  <2>2. Good([s EXCEPT !.paused = s.paused \cup ms])
    BY <1>1, <1>2, PausedGood
  <2> QED BY <1>1, <2>1, <2>2, CommitGood
<1>11. ASSUME NEW e, NEW card, Cancel(e, card)
       PROVE  IInv'
  <2> DEFINE f == [e EXCEPT !.asked = TRUE]
  <2>1. /\ e \in s.entries
        /\ \/ Commit(Without(s, e.seq), card, {})
           \/ Commit(Change(s, e, f), card, {})
    BY <1>11 DEF Cancel, Queued, Granted, s
  <2>2. e \in Entry
    BY <1>2, <2>1
  <2>3. /\ f \in Entry
        /\ f.seq = e.seq /\ f.req = e.req /\ f.state = e.state /\ f.token = e.token
    BY <2>2 DEF Entry
  <2> HIDE DEF f
  <2>4. Good(Change(s, e, f)) /\ Good(Without(s, e.seq))
    BY <1>1, <2>1, <2>3, ChangeGood, WithoutGood
  <2> QED BY <1>1, <2>1, <2>4, CommitGood
<1> QED
  BY <1>3, <1>4, <1>5, <1>6, <1>7, <1>8, <1>9, <1>10, <1>11 DEF Operation

LEMMA EnvironmentGood ==
  ASSUME IInv, Environment
  PROVE  IInv'
<1>1. CASE Tick
  BY <1>1, TickGood
<1>2. CASE \E p \in Procs : Die(p)
  BY <1>2 DEF Die, IInv, EnvOK, Good, StateOK, Exclusive, TokensOK, Granted
<1>3. CASE Damage
  BY <1>3 DEF Damage, IInv, EnvOK, Good, StateOK, Exclusive, TokensOK, Granted
<1>4. CASE Repair
  <2>1. StateOK(EmptyState)
    BY FS_EmptySet DEF StateOK, EmptyState
  <2>2. Granted(EmptyState) = {}
    BY DEF Granted, EmptyState
  <2>3. Good(EmptyState)
    BY <2>1, <2>2 DEF Good, Exclusive, TokensOK
  <2>4. st' = EmptyState
    BY <1>4 DEF Repair
  <2>5. Good(st)'
    BY <2>3, <2>4 DEF Good, StateOK, Exclusive, TokensOK, Granted
  <2>6. repairs' = repairs \/ repairs' = repairs + 1
    BY <1>4, Zenon DEF Repair
  <2>7. repairs' \in Nat
    BY <2>6 DEF IInv, EnvOK
  <2>8. EnvOK'
    BY <1>4, <2>7 DEF Repair, IInv, EnvOK
  <2> QED BY <2>5, <2>8 DEF IInv
<1> QED BY <1>1, <1>2, <1>3, <1>4 DEF Environment

\* The inductive invariant holds of every reachable state.
THEOREM Invariance == Spec => []IInv
<1>1. Init => IInv
  BY InitGood
<1>2. IInv /\ [Next]_vars => IInv'
  <2> SUFFICES ASSUME IInv, [Next]_vars PROVE IInv'
    OBVIOUS
  <2>1. CASE Next
    BY <2>1, OperationGood, EnvironmentGood DEF Next
  <2>2. CASE UNCHANGED vars
    BY <2>2 DEF vars, IInv, EnvOK, Good, StateOK, Exclusive, TokensOK, Granted
  <2> QED BY <2>1, <2>2
<1> QED BY <1>1, <1>2, PTL DEF Spec

\* The state file keeps its shape, whatever the order of operations, deaths,
\* damages and repairs.
THEOREM TypeCorrect == Spec => []TypeOK
<1>1. IInv => TypeOK
  BY DEF IInv, Good, StateOK, EnvOK, TypeOK
<1> QED BY <1>1, Invariance, PTL

\* No two holders of one solo class, for every set of requests and every card.
THEOREM SoloClassesAreExclusive == Spec => []SoloClassesExclusive
<1>1. IInv => SoloClassesExclusive
  BY DEF IInv, Good, StateOK, Exclusive, MayShare, SoloClassesExclusive, Holders, Granted
<1> QED BY <1>1, Invariance, PTL

\* A tiering job never shares the card.
THEOREM TieringIsAlone == Spec => []TieringRunsAlone
<1>1. IInv => TieringRunsAlone
  BY DEF IInv, Good, StateOK, Exclusive, MayShare, TieringRunsAlone, Holders, Granted
<1> QED BY <1>1, Invariance, PTL

\* Nobody holds the card next to a job that must not share it.
THEOREM SoloJobsKeptApart == Spec => []SoloKeptApart
<1>1. SoloClassesExclusive /\ TieringRunsAlone => SoloKeptApart
  BY DEF SoloKeptApart
<1> QED BY <1>1, SoloClassesAreExclusive, TieringIsAlone, PTL

\* Fencing tokens name one holder each.
THEOREM TokensAreFencing == Spec => []TokensFence
<1>1. IInv => TokensFence
  BY DEF IInv, Good, TokensOK, TokensFence, Holders
<1> QED BY <1>1, Invariance, PTL

-----------------------------------------------------------------------------
(* What a set of records claims. *)

\* The MiB of one record.
LEMMA MibOfOne ==
  ASSUME NEW q, NEW n \in Nat
  PROVE  IsFiniteSet({q} \X (1 .. n)) /\ Cardinality({q} \X (1 .. n)) = n
<1>1. IsFiniteSet({q}) /\ Cardinality({q}) = 1
  BY FS_Singleton, Zenon
<1>2. IsFiniteSet(1 .. n) /\ Cardinality(1 .. n) = IF 1 > n THEN 0 ELSE n - 1 + 1
  <2>1. 1 \in Int /\ n \in Int
    OBVIOUS
  <2> QED BY <2>1, FS_Interval, Zenon
<1>3. Cardinality(1 .. n) = n
  BY <1>2
<1>4. /\ IsFiniteSet({q} \X (1 .. n))
      /\ Cardinality({q} \X (1 .. n)) = Cardinality({q}) * Cardinality(1 .. n)
  BY <1>1, <1>2, FS_Product, Zenon
<1> QED BY <1>1, <1>3, <1>4

LEMMA UnitsFinite ==
  ASSUME NEW H \in SUBSET Entry, IsFiniteSet(H)
  PROVE  IsFiniteSet(Units(H)) /\ Claimed(H) \in Nat
<1> DEFINE mib(e) == {e.seq} \X (1 .. e.req.vram)
           parts == {mib(e) : e \in H}
           part == [e \in H |-> mib(e)]
<1>1. part \in Surjection(H, parts)
  <2> HIDE DEF mib
  <2> QED BY DEF Surjection
<1>2. IsFiniteSet(parts)
  BY <1>1, FS_Surjection
<1>3. ASSUME NEW e \in H
      PROVE  IsFiniteSet(mib(e))
  <2>1. e.req.vram \in Nat
    BY LeaseAssumption DEF Entry, Request
  <2> QED BY <2>1, MibOfOne
<1>4. \A T \in parts : IsFiniteSet(T)
  BY <1>3
<1>5. IsFiniteSet(UNION parts)
  BY <1>2, <1>4, FS_UNION
<1>6. UNION parts = Units(H)
  BY DEF Units
<1> QED BY <1>5, <1>6, FS_CardinalityType DEF Claimed

\* The records of G are among those of H, whatever else has changed in them.
Among(G, H) == \A g \in G : \E h \in H : g.seq = h.seq /\ g.req = h.req

LEMMA AmongClaims ==
  ASSUME NEW G \in SUBSET Entry, NEW H \in SUBSET Entry, IsFiniteSet(H), Among(G, H)
  PROVE  /\ Claimed(G) \in Nat /\ Claimed(H) \in Nat
         /\ Claimed(G) <= Claimed(H)
<1>1. Units(G) \in SUBSET Units(H)
  <2> SUFFICES ASSUME NEW u \in Units(G) PROVE u \in Units(H)
    OBVIOUS
  <2>1. PICK g \in G : u \in {g.seq} \X (1 .. g.req.vram)
    BY DEF Units
  <2>2. PICK h \in H : g.seq = h.seq /\ g.req = h.req
    BY DEF Among
  <2> QED BY <2>1, <2>2 DEF Units
<1>2. IsFiniteSet(Units(H)) /\ Claimed(H) \in Nat
  BY UnitsFinite
<1> QED BY <1>1, <1>2, FS_Subset, FS_CardinalityType DEF Claimed

LEMMA OneMoreClaims ==
  ASSUME NEW H \in SUBSET Entry, IsFiniteSet(H), NEW e \in Entry
  PROVE  /\ Claimed(H) \in Nat /\ Claimed(H \cup {e}) \in Nat /\ Claimed({e}) \in Nat
         /\ Claimed(H \cup {e}) <= Claimed(H) + e.req.vram
         /\ Claimed({e}) <= e.req.vram
<1> DEFINE mine == {e.seq} \X (1 .. e.req.vram)
<1>1. e.req.vram \in Nat
  BY LeaseAssumption DEF Entry, Request
<1>4. IsFiniteSet(mine) /\ Cardinality(mine) = e.req.vram
  BY <1>1, MibOfOne
<1>5. Units(H \cup {e}) = Units(H) \cup mine /\ Units({e}) = mine
  BY DEF Units
<1>6. IsFiniteSet(Units(H)) /\ Claimed(H) \in Nat
  BY UnitsFinite
<1> HIDE DEF mine
<1>7. /\ Cardinality(Units(H) \cup mine)
           = Cardinality(Units(H)) + Cardinality(mine) - Cardinality(Units(H) \cap mine)
      /\ IsFiniteSet(Units(H) \cup mine)
  BY <1>4, <1>6, FS_Union
<1>8. Cardinality(Units(H) \cap mine) \in Nat /\ Cardinality(Units(H) \cup mine) \in Nat
  BY <1>4, <1>6, <1>7, FS_Intersection, FS_CardinalityType
<1>9. /\ Claimed(H) = Cardinality(Units(H)) /\ Claimed({e}) = Cardinality(mine)
      /\ Claimed(H \cup {e}) = Cardinality(Units(H) \cup mine)
  BY <1>5 DEF Claimed
<1> QED BY <1>1, <1>4, <1>6, <1>7, <1>8, <1>9

\* The one that is served last, of some waiters with different numbers.
LEMMA LastServed ==
  ASSUME NEW S \in SUBSET Entry, IsFiniteSet(S), S # {},
         \A e, f \in S : e.seq = f.seq => e = f
  PROVE  \E e \in S : \A f \in S \ {e} : Before(f, e)
<1> DEFINE after(e) == {f \in S : Before(e, f)}
           T == {after(e) : e \in S}
<1>1. T # {} /\ T \subseteq SUBSET S
  <2>1. PICK e : e \in S
    OBVIOUS
  <2>2. after(e) \in T
    BY <2>1
  <2>3. \A f : after(f) \in SUBSET S
    OBVIOUS
  <2> QED BY <2>2, <2>3
<1>2. \A U \in SUBSET S : IsFiniteSet(U)
  BY FS_Subset
<1>3. T \subseteq FiniteSubsetsOf(S)
  BY <1>1, <1>2 DEF FiniteSubsetsOf
<1>4. PICK A \in T : \A B \in T : ~(<<B, A>> \in StrictSubsetOrdering(S))
  <2>1. IsWellFoundedOn(StrictSubsetOrdering(S), FiniteSubsetsOf(S))
    BY FS_StrictSubsetOrderingWellFounded
  <2> HIDE DEF T
  <2> QED BY <1>1, <1>3, <2>1, WFMin
<1>5. PICK e \in S : A = after(e)
  BY <1>4
<1>6. after(e) = {}
  <2> SUFFICES ASSUME NEW f \in after(e) PROVE FALSE
    OBVIOUS
  <2>1. f \in S /\ Before(e, f)
    OBVIOUS
  <2>2. after(f) \subseteq after(e)
    <3> SUFFICES ASSUME NEW g \in after(f) PROVE g \in after(e)
      OBVIOUS
    <3>1. Before(e, g)
      BY <2>1, BeforeOrder
    <3> QED BY <3>1
  <2>3. f \notin after(f)
    BY <2>1, BeforeOrder
  <2>4. after(f) \in T /\ after(f) # after(e)
    BY <2>1, <2>3
  <2>5. after(f) \in SUBSET S /\ after(e) \in SUBSET S
    OBVIOUS
  <2>6. ~(<<after(f), A>> \in StrictSubsetOrdering(S))
    BY <1>4, <2>4
  <2> HIDE DEF after
  <2> QED BY <1>5, <2>2, <2>4, <2>5, <2>6 DEF StrictSubsetOrdering
<1>7. ASSUME NEW f \in S \ {e}
      PROVE  Before(f, e)
  <2>1. f.seq # e.seq /\ ~Before(e, f)
    BY <1>6, <1>7
  <2> QED BY <2>1, BeforeOrder
<1> QED BY <1>7

-----------------------------------------------------------------------------
(* The invariant. *)

Of(H, c) == {e \in H : e.req.client = c}

OneKey(s) ==
  \A e, f \in s.entries : e.req.key # NoKey /\ e.req.key = f.req.key => e = f

QueueOK(s) == Cardinality(Queued(s)) <= QueueMax

\* What acquire let into the file: nobody who exceeds a budget alone.
EachWithinBudget(s) ==
  \A e \in s.entries :
    ClientBudgets[e.req.client] # NoBudget => e.req.vram <= ClientBudgets[e.req.client]

SharedOK(s) == Cardinality(Granted(s)) > 1 => Claimed(Granted(s)) <= Phys - Reserve

ClientsOK(s) ==
  \A c \in DOMAIN ClientBudgets :
    ClientBudgets[c] # NoBudget => Claimed(Of(Granted(s), c)) <= ClientBudgets[c]

\* Only a holder can be releasing.
QuietQueue(s) == \A e \in Queued(s) : ~e.releasing

Sound(s) ==
  /\ OneKey(s)
  /\ QueueOK(s)
  /\ EachWithinBudget(s)
  /\ SharedOK(s)
  /\ ClientsOK(s)
  /\ QuietQueue(s)

\* Every record of t was in s, in the same state: what Prune and most bodies do.
Shrinks(t, s) ==
  \A e \in t.entries : \E f \in s.entries :
    /\ e.seq = f.seq /\ e.req = f.req /\ e.state = f.state
    /\ e.state = "queued" => e.releasing = f.releasing

\* G has no more records than H, when numbers tell them apart.
LEMMA FewerRecords ==
  ASSUME NEW G, NEW H, IsFiniteSet(H),
         \A g \in G : \E h \in H : g.seq = h.seq,
         \A g1, g2 \in G : g1.seq = g2.seq => g1 = g2
  PROVE  IsFiniteSet(G) /\ Cardinality(G) \in Nat /\ Cardinality(H) \in Nat
         /\ Cardinality(G) <= Cardinality(H)
<1> DEFINE source == [g \in G |-> CHOOSE h \in H : g.seq = h.seq]
<1>1. \A g \in G : source[g] \in H /\ g.seq = source[g].seq
  OBVIOUS
<1>2. source \in [G -> H]
  BY <1>1
<1>3. \A g1, g2 \in G : source[g1] = source[g2] => g1 = g2
  BY <1>1
<1> HIDE DEF source
<1>4. source \in Injection(G, H)
  BY <1>2, <1>3 DEF Injection, IsInjective
<1> QED BY <1>4, FS_Injection, FS_CardinalityType

LEMMA StateFinite ==
  ASSUME NEW s, StateOK(s)
  PROVE  /\ Granted(s) \in SUBSET Entry /\ IsFiniteSet(Granted(s))
         /\ Queued(s) \in SUBSET Entry /\ IsFiniteSet(Queued(s))
         /\ \A c : Of(Granted(s), c) \in SUBSET Entry /\ IsFiniteSet(Of(Granted(s), c))
<1>1. \A T \in SUBSET s.entries : IsFiniteSet(T) /\ T \in SUBSET Entry
  BY FS_Subset DEF StateOK
<1> QED BY <1>1 DEF Granted, Queued, Of

LEMMA ShrinkSound ==
  ASSUME NEW s, NEW t, StateOK(s), StateOK(t), Sound(s), Shrinks(t, s)
  PROVE  Sound(t)
<1>1. /\ \A e, f \in t.entries : e.seq = f.seq => e = f
      /\ \A e, f \in s.entries : e.seq = f.seq => e = f
  BY DEF StateOK
<1>2. OneKey(t)
  BY <1>1 DEF Sound, OneKey, Shrinks
<1>3. QueueOK(t)
  <2>1. \A g \in Queued(t) : \E h \in Queued(s) : g.seq = h.seq
    BY DEF Queued, Shrinks
  <2>2. \A g, h \in Queued(t) : g.seq = h.seq => g = h
    BY <1>1 DEF Queued
  <2>3. IsFiniteSet(Queued(s))
    BY StateFinite
  <2>4. /\ Cardinality(Queued(t)) \in Nat /\ Cardinality(Queued(s)) \in Nat
        /\ Cardinality(Queued(t)) <= Cardinality(Queued(s))
    BY <2>1, <2>2, <2>3, FewerRecords
  <2> QED BY <2>4, LeaseAssumption DEF Sound, QueueOK
<1>4. EachWithinBudget(t)
  BY DEF Sound, EachWithinBudget, Shrinks
<1>5. Among(Granted(t), Granted(s)) /\ \A c : Among(Of(Granted(t), c), Of(Granted(s), c))
  BY DEF Among, Granted, Of, Shrinks
<1>6. SharedOK(t)
  <2>1. \A g, h \in Granted(t) : g.seq = h.seq => g = h
    BY <1>1 DEF Granted
  <2>2. /\ Cardinality(Granted(t)) \in Nat /\ Cardinality(Granted(s)) \in Nat
        /\ Cardinality(Granted(t)) <= Cardinality(Granted(s))
    BY <1>5, <2>1, StateFinite, FewerRecords DEF Among
  <2>3. /\ Claimed(Granted(t)) \in Nat /\ Claimed(Granted(s)) \in Nat
        /\ Claimed(Granted(t)) <= Claimed(Granted(s))
    BY <1>5, StateFinite, AmongClaims
  <2> QED BY <2>2, <2>3, LeaseAssumption DEF Sound, SharedOK
<1>7. ClientsOK(t)
  <2> SUFFICES ASSUME NEW c \in DOMAIN ClientBudgets, ClientBudgets[c] # NoBudget
               PROVE  Claimed(Of(Granted(t), c)) <= ClientBudgets[c]
    BY DEF ClientsOK
  <2>1. Claimed(Of(Granted(s), c)) <= ClientBudgets[c]
    BY DEF Sound, ClientsOK
  <2>2. /\ Claimed(Of(Granted(t), c)) \in Nat /\ Claimed(Of(Granted(s), c)) \in Nat
        /\ Claimed(Of(Granted(t), c)) <= Claimed(Of(Granted(s), c))
    BY <1>5, StateFinite, AmongClaims
  <2>3. ClientBudgets[c] \in Nat
    BY LeaseAssumption
  <2> QED BY <2>1, <2>2, <2>3
<1>8. QuietQueue(t)
  BY DEF Sound, QuietQueue, Queued, Shrinks
<1> QED BY <1>2, <1>3, <1>4, <1>6, <1>7, <1>8 DEF Sound

-----------------------------------------------------------------------------
(* Admission and arrival. *)

\* What one admission does to the records.
LEMMA AdmitShape ==
  ASSUME NEW s, StateOK(s), NEW card
  PROVE  LET new == Admitted(s, card)
             t == Admit(s, card)
         IN  /\ new \in SUBSET Queued(s) /\ new \in SUBSET Entry /\ IsFiniteSet(new)
             /\ \A e \in new : /\ Grant(s, e).seq = e.seq /\ Grant(s, e).req = e.req
                              /\ Grant(s, e).state = "granted"
                              /\ Grant(s, e).releasing = e.releasing
             /\ Granted(t) = Granted(s) \cup {Grant(s, e) : e \in new}
             /\ Queued(t) = Queued(s) \ new
             /\ t.entries = Granted(t) \cup Queued(t)
             /\ t.seq = s.seq /\ t.paused = s.paused
<1> DEFINE new == Admitted(s, card)
           t == Admit(s, card)
<1>1. new \in SUBSET Queued(s) /\ Queued(s) \in SUBSET Entry /\ IsFiniteSet(Queued(s))
  BY StateFinite DEF Admitted
<1>2. new \in SUBSET Entry /\ IsFiniteSet(new)
  BY <1>1, FS_Subset
<1>3. \A e \in new : /\ Grant(s, e).seq = e.seq /\ Grant(s, e).req = e.req
                    /\ Grant(s, e).state = "granted"
                    /\ Grant(s, e).releasing = e.releasing
  BY <1>2 DEF Grant, Entry
<1>4. /\ t.entries = (s.entries \ new) \cup {Grant(s, e) : e \in new}
      /\ t.seq = s.seq /\ t.paused = s.paused
  BY DEF Admit, StateOK
<1>5. \A e \in s.entries : e.state \in {"queued", "granted"}
  BY DEF StateOK, Entry
<1>6. \A e \in new : e.state = "queued" /\ e \in s.entries
  BY <1>1 DEF Queued
<1> HIDE DEF new, t
<1>7. Granted(t) = Granted(s) \cup {Grant(s, e) : e \in new}
  BY <1>3, <1>4, <1>6 DEF Granted
<1>8. Queued(t) = Queued(s) \ new
  BY <1>3, <1>4, <1>6 DEF Queued
<1>9. t.entries = Granted(t) \cup Queued(t)
  BY <1>3, <1>4, <1>5 DEF Granted, Queued
<1> QED BY <1>1, <1>2, <1>3, <1>4, <1>7, <1>8, <1>9 DEF new, t

\* The holders after an admission that granted somebody, e last among the admitted
\* of a kind K, claim no more than what e was judged next to, and e.
LEMMA AdmittedTogether ==
  ASSUME NEW s, StateOK(s), NEW card, NEW K \in SUBSET Admitted(s, card), NEW e \in K,
         \A f \in K \ {e} : Before(f, e)
  PROVE  /\ e \in Entry /\ e \in Queued(s)
         /\ K \ {e} \subseteq Ahead(s, e)
         /\ Fit(Granted(s) \cup Ahead(s, e), e, card)
         /\ Granted(s) \cup Ahead(s, e) \in SUBSET Entry
         /\ IsFiniteSet(Granted(s) \cup Ahead(s, e))
<1>1. /\ e \in Entry /\ e \in Queued(s)
      /\ Fit(Granted(s) \cup Ahead(s, e), e, card)
  BY AdmittedPrefix
<1>2. K \ {e} \subseteq Ahead(s, e)
  BY DEF Ahead, Admitted
<1>3. Ahead(s, e) \in SUBSET Queued(s)
  BY DEF Ahead
<1>4. /\ Granted(s) \in SUBSET Entry /\ IsFiniteSet(Granted(s))
      /\ Queued(s) \in SUBSET Entry /\ IsFiniteSet(Queued(s))
  BY StateFinite
<1>5. IsFiniteSet(Ahead(s, e))
  BY <1>3, <1>4, FS_Subset
<1> QED BY <1>1, <1>2, <1>3, <1>4, <1>5, FS_Union

LEMMA AdmitShares ==
  ASSUME NEW s, Good(s), Sound(s), NEW card
  PROVE  SharedOK(Admit(s, card))
<1> DEFINE new == Admitted(s, card)
           t == Admit(s, card)
<1>1. StateOK(s) /\ StateOK(t)
  BY AdmitOK DEF Good
<1>2. /\ new \in SUBSET Entry /\ IsFiniteSet(new) /\ new \in SUBSET s.entries
      /\ \A e \in new : Grant(s, e).seq = e.seq /\ Grant(s, e).req = e.req
      /\ Granted(t) = Granted(s) \cup {Grant(s, e) : e \in new}
  BY <1>1, AdmitShape DEF Queued
<1>3. /\ Granted(t) \in SUBSET Entry /\ IsFiniteSet(Granted(t))
      /\ \A g, h \in Granted(t) : g.seq = h.seq => g = h
  BY <1>1, StateFinite DEF StateOK, Granted
<1> HIDE DEF t
<1>4. CASE new = {}
  <2>1. Granted(t) = Granted(s)
    BY <1>2, <1>4
  <2> QED BY <2>1 DEF Sound, SharedOK, t
<1>5. CASE new # {}
  <2>1. \A e, f \in new : e.seq = f.seq => e = f
    BY <1>1, <1>2 DEF StateOK
  <2>2. PICK e \in new : \A f \in new \ {e} : Before(f, e)
    BY <1>2, <1>5, <2>1, LastServed
  <2> DEFINE H == Granted(s) \cup Ahead(s, e)
  <2>3. /\ e \in Entry /\ H \in SUBSET Entry /\ IsFiniteSet(H)
        /\ Fit(H, e, card)
        /\ new \ {e} \subseteq Ahead(s, e)
    <3>1. new \in SUBSET Admitted(s, card)
      OBVIOUS
    <3> HIDE DEF new
    <3> QED BY <1>1, <2>2, <3>1, AdmittedTogether
  <2>4. Among(Granted(t), H \cup {e})
    BY <1>2, <2>3 DEF Among
  <2> HIDE DEF H
  <2>5. /\ H \cup {e} \in SUBSET Entry /\ IsFiniteSet(H \cup {e})
    BY <2>3, FS_AddElement
  <2>6. /\ Claimed(Granted(t)) \in Nat
        /\ Claimed(Granted(t)) <= Claimed(H \cup {e})
    BY <1>3, <2>4, <2>5, AmongClaims
  <2>7. /\ Claimed(H) \in Nat /\ Claimed(H \cup {e}) \in Nat
        /\ Claimed(H \cup {e}) <= Claimed(H) + e.req.vram
    BY <2>3, OneMoreClaims
  <2>8. CASE H = {}
    <3>1. \A g \in Granted(t) : \E h \in {e} : g.seq = h.seq
      BY <2>4, <2>8 DEF Among
    <3>2. IsFiniteSet({e}) /\ Cardinality({e}) = 1
      BY FS_Singleton
    <3>3. Cardinality(Granted(t)) \in Nat /\ Cardinality(Granted(t)) <= Cardinality({e})
      BY <1>3, <3>1, <3>2, FewerRecords
    <3>4. ~(Cardinality(Granted(t)) > 1)
      BY <3>2, <3>3
    <3> QED BY <3>4 DEF SharedOK, t
  <2>9. CASE H # {}
    <3>1. e.req.vram <= Phys - Reserve - Claimed(H)
      BY <2>3, <2>9 DEF Fit, FitsCard
    <3>2. e.req.vram \in Nat /\ Phys \in Nat /\ Reserve \in Nat
      BY <2>3, LeaseAssumption DEF Entry, Request
    <3>3. Claimed(Granted(t)) <= Phys - Reserve
      BY <2>6, <2>7, <3>1, <3>2
    <3> QED BY <3>3 DEF SharedOK, t
  <2> QED BY <2>8, <2>9
<1> QED BY <1>4, <1>5

LEMMA AdmitClients ==
  ASSUME NEW s, Good(s), Sound(s), NEW card
  PROVE  ClientsOK(Admit(s, card))
<1> DEFINE new == Admitted(s, card)
           t == Admit(s, card)
<1> SUFFICES ASSUME NEW c \in DOMAIN ClientBudgets, ClientBudgets[c] # NoBudget
             PROVE  Claimed(Of(Granted(t), c)) <= ClientBudgets[c]
  BY DEF ClientsOK
<1> DEFINE K == Of(new, c)
<1>1. StateOK(s) /\ StateOK(t)
  BY AdmitOK DEF Good
<1>2. /\ new \in SUBSET Entry /\ IsFiniteSet(new) /\ new \in SUBSET s.entries
      /\ \A e \in new : Grant(s, e).seq = e.seq /\ Grant(s, e).req = e.req
      /\ Granted(t) = Granted(s) \cup {Grant(s, e) : e \in new}
  BY <1>1, AdmitShape DEF Queued
<1>3. /\ Of(Granted(t), c) \in SUBSET Entry
      /\ Of(Granted(s), c) \in SUBSET Entry /\ IsFiniteSet(Of(Granted(s), c))
  BY <1>1, StateFinite
<1>4. ClientBudgets[c] \in Nat
  BY LeaseAssumption
<1> HIDE DEF t
<1>5. CASE K = {}
  <2>1. Among(Of(Granted(t), c), Of(Granted(s), c))
    BY <1>2, <1>5 DEF Among, Of
  <2>2. /\ Claimed(Of(Granted(t), c)) \in Nat /\ Claimed(Of(Granted(s), c)) \in Nat
        /\ Claimed(Of(Granted(t), c)) <= Claimed(Of(Granted(s), c))
    BY <1>3, <2>1, AmongClaims
  <2>3. Claimed(Of(Granted(s), c)) <= ClientBudgets[c]
    BY DEF Sound, ClientsOK
  <2> QED BY <1>4, <2>2, <2>3
<1>6. CASE K # {}
  <2>1. \A e, f \in K : e.seq = f.seq => e = f
    BY <1>1, <1>2 DEF StateOK, Of
  <2>2. K \in SUBSET new /\ K \in SUBSET Entry /\ IsFiniteSet(K)
    BY <1>2, FS_Subset DEF Of
  <2>3. PICK e \in K : \A f \in K \ {e} : Before(f, e)
    BY <1>6, <2>1, <2>2, LastServed
  <2> DEFINE H == Granted(s) \cup Ahead(s, e)
  <2>4. /\ e \in Entry /\ H \in SUBSET Entry /\ IsFiniteSet(H)
        /\ Fit(H, e, card)
        /\ K \ {e} \subseteq Ahead(s, e)
    BY <1>1, <2>2, <2>3, AdmittedTogether
  <2>5. e.req.client = c /\ e \in s.entries
    BY <1>2, <2>2 DEF Of
  <2>6. Among(Of(Granted(t), c), Of(H, c) \cup {e})
    BY <1>2, <2>4 DEF Among, Of
  <2> HIDE DEF H
  <2>7. Of(H, c) \in SUBSET Entry /\ IsFiniteSet(Of(H, c))
    BY <2>4, FS_Subset DEF Of
  <2>8. Of(H, c) \cup {e} \in SUBSET Entry /\ IsFiniteSet(Of(H, c) \cup {e})
    BY <2>4, <2>7, FS_AddElement
  <2>9. /\ Claimed(Of(Granted(t), c)) \in Nat
        /\ Claimed(Of(Granted(t), c)) <= Claimed(Of(H, c) \cup {e})
    BY <1>3, <2>6, <2>8, AmongClaims
  <2>10. /\ Claimed(Of(H, c)) \in Nat /\ Claimed(Of(H, c) \cup {e}) \in Nat
         /\ Claimed({e}) \in Nat /\ Claimed({e}) <= e.req.vram
         /\ Claimed(Of(H, c) \cup {e}) <= Claimed(Of(H, c)) + e.req.vram
    BY <2>4, <2>7, OneMoreClaims
  <2>11. e.req.vram \in Nat
    BY <2>4, LeaseAssumption DEF Entry, Request
  <2>12. CASE H = {}
    <3>1. Of(H, c) \cup {e} = {e}
      BY <2>12 DEF Of
    <3>2. e.req.vram <= ClientBudgets[c]
      BY <2>5 DEF Sound, EachWithinBudget
    <3> QED BY <1>4, <2>9, <2>10, <2>11, <3>1, <3>2
  <2>13. CASE H # {}
    <3>1. Claimed(Of(H, c)) + e.req.vram <= ClientBudgets[c]
      BY <2>4, <2>5, <2>13 DEF Fit, WithinClientBudget, Of
    <3> QED BY <1>4, <2>9, <2>10, <2>11, <3>1
  <2> QED BY <2>12, <2>13
<1> QED BY <1>5, <1>6

LEMMA AdmitSound ==
  ASSUME NEW s, Good(s), Sound(s), NEW card
  PROVE  Sound(Admit(s, card))
<1> DEFINE new == Admitted(s, card)
           t == Admit(s, card)
<1>1. StateOK(s) /\ StateOK(t)
  BY AdmitOK DEF Good
<1>2. /\ new \in SUBSET s.entries
      /\ \A e \in new : Grant(s, e).seq = e.seq /\ Grant(s, e).req = e.req
      /\ Granted(t) = Granted(s) \cup {Grant(s, e) : e \in new}
      /\ Queued(t) = Queued(s) \ new
      /\ t.entries = Granted(t) \cup Queued(t)
  BY <1>1, AdmitShape DEF Queued
<1> HIDE DEF new, t
<1>3. \A e \in t.entries : \E f \in s.entries : e.seq = f.seq /\ e.req = f.req
  BY <1>2 DEF Granted, Queued
<1>4. OneKey(t)
  BY <1>1, <1>3 DEF Sound, OneKey, StateOK
<1>5. QueueOK(t)
  <2>1. IsFiniteSet(Queued(s))
    BY <1>1, StateFinite
  <2>2. /\ Cardinality(Queued(s)) \in Nat /\ Cardinality(Queued(t)) \in Nat
        /\ Cardinality(Queued(t)) <= Cardinality(Queued(s))
    BY <1>2, <2>1, FS_Subset, FS_CardinalityType
  <2> QED BY <2>2, LeaseAssumption DEF Sound, QueueOK
<1>6. EachWithinBudget(t)
  BY <1>3 DEF Sound, EachWithinBudget
<1>7. QuietQueue(t)
  BY <1>2 DEF Sound, QuietQueue
<1>8. SharedOK(t) /\ ClientsOK(t)
  BY AdmitShares, AdmitClients DEF t
<1> QED BY <1>4, <1>5, <1>6, <1>7, <1>8 DEF Sound, t

\* A call that acquire does not refuse leaves a sound state behind.
LEMMA EnqueueSound ==
  ASSUME NEW s, Good(s), Sound(s), NEW r \in Requests, Tickets(s, r) = {},
         NEW block, NEW c0, ~Refused(s, r, block, c0)
  PROVE  Sound(Enqueue(s, r))
<1> DEFINE n == NewEntry(s, r)
           t == Enqueue(s, r)
<1>1. StateOK(s) /\ StateOK(t)
  BY EnqueueOK DEF Good
<1>2. t.entries = s.entries \cup {n}
  BY <1>1 DEF Enqueue, StateOK
<1>3. n.req = r /\ n.state = "queued" /\ n.releasing = FALSE
  BY DEF NewEntry
<1>4. /\ Cardinality(Queued(s)) < QueueMax
      /\ ClientBudgets[r.client] # NoBudget => r.vram <= ClientBudgets[r.client]
  <2>1. ~(Cardinality(Queued(s)) >= QueueMax)
    BY DEF Refused
  <2>2. Cardinality(Queued(s)) \in Nat
    BY <1>1, StateFinite, FS_CardinalityType
  <2>3. /\ r \in Request /\ r.vram \in Nat /\ r.client \in DOMAIN ClientBudgets
    BY LeaseAssumption DEF Request
  <2>4. ~(ClientBudgets[r.client] # NoBudget /\ r.vram > ClientBudgets[r.client])
    BY DEF Refused
  <2>5. ClientBudgets[r.client] \in Nat \cup {NoBudget}
    BY <2>3, LeaseAssumption
  <2> QED BY <2>1, <2>2, <2>3, <2>4, <2>5, LeaseAssumption
<1> HIDE DEF n, t
<1>5. Granted(t) = Granted(s) /\ Queued(t) = Queued(s) \cup {n}
  BY <1>2, <1>3 DEF Granted, Queued
<1>6. OneKey(t)
  <2>1. \A e \in s.entries : r.key # NoKey => e.req.key # r.key
    BY DEF Tickets
  <2> QED BY <1>2, <1>3, <2>1 DEF Sound, OneKey
<1>7. QueueOK(t)
  <2>1. IsFiniteSet(Queued(s))
    BY <1>1, StateFinite
  <2>2. Cardinality(Queued(t)) \in {Cardinality(Queued(s)), Cardinality(Queued(s)) + 1}
    BY <1>5, <2>1, FS_AddElement
  <2>3. Cardinality(Queued(s)) \in Nat
    BY <2>1, FS_CardinalityType
  <2> QED BY <1>4, <2>2, <2>3, LeaseAssumption DEF QueueOK
<1>8. EachWithinBudget(t)
  BY <1>2, <1>3, <1>4 DEF Sound, EachWithinBudget
<1>9. SharedOK(t) /\ ClientsOK(t)
  BY <1>5 DEF Sound, SharedOK, ClientsOK
<1>10. QuietQueue(t)
  BY <1>3, <1>5 DEF Sound, QuietQueue
<1> QED BY <1>6, <1>7, <1>8, <1>9, <1>10 DEF Sound, t

-----------------------------------------------------------------------------
(* The operations. *)

LEMMA PruneSound ==
  ASSUME NEW s, Good(s), Sound(s)
  PROVE  Sound(Prune(s))
<1>1. StateOK(s) /\ StateOK(Prune(s)) /\ Prune(s).entries \subseteq s.entries
  BY PruneGood DEF Good
<1>2. Shrinks(Prune(s), s)
  BY <1>1 DEF Shrinks
<1> QED BY <1>1, <1>2, ShrinkSound

LEMMA ChangeSound ==
  ASSUME NEW s, Good(s), Sound(s), NEW e \in s.entries, NEW f \in Entry,
         f.seq = e.seq, f.req = e.req, f.state = e.state,
         e.state = "queued" => f.releasing = e.releasing
  PROVE  Sound(Change(s, e, f))
<1>1. StateOK(s) /\ StateOK(Change(s, e, f))
  BY ChangeOK DEF Good
<1>2. Change(s, e, f).entries = (s.entries \ {e}) \cup {f}
  BY <1>1 DEF Change, StateOK
<1>3. Shrinks(Change(s, e, f), s)
  BY <1>2 DEF Shrinks
<1> QED BY <1>1, <1>3, ShrinkSound

LEMMA WithoutSound ==
  ASSUME NEW s, Good(s), Sound(s), NEW q
  PROVE  Sound(Without(s, q))
<1>1. StateOK(s) /\ StateOK(Without(s, q))
  BY WithoutOK DEF Good
<1>2. Without(s, q).entries \subseteq s.entries
  BY <1>1 DEF Without, StateOK
<1>3. Shrinks(Without(s, q), s)
  BY <1>2 DEF Shrinks
<1> QED BY <1>1, <1>3, ShrinkSound

LEMMA PausedSound ==
  ASSUME NEW s, Good(s), Sound(s), NEW ms \in SUBSET Models
  PROVE  Sound([s EXCEPT !.paused = ms])
<1> DEFINE t == [s EXCEPT !.paused = ms]
<1>1. StateOK(s) /\ StateOK(t)
  BY PausedOK DEF Good
<1>2. t.entries = s.entries
  BY <1>1 DEF StateOK
<1> HIDE DEF t
<1>3. Shrinks(t, s)
  BY <1>2 DEF Shrinks
<1> QED BY <1>1, <1>3, ShrinkSound DEF t

LInv == IInv /\ Sound(st)

\* A transaction whose body is sound ends in a sound state.
LEMMA CommitSound ==
  ASSUME NEW b, NEW card, NEW resume, Good(b), Sound(b), Commit(b, card, resume)
  PROVE  Sound(st')
<1>1. st' = Admit(b, card)
  BY DEF Commit
<1> QED BY <1>1, AdmitSound

LEMMA OperationSound ==
  ASSUME LInv, Operation
  PROVE  Sound(st')
<1> DEFINE s == Prune(st)
<1>1. Good(s) /\ Sound(s) /\ StateOK(s)
  BY PruneGood, PruneSound DEF LInv, IInv, Good
<1>2. s.paused \in SUBSET Models /\ s.entries \subseteq Entry
  BY <1>1 DEF StateOK
<1> HIDE DEF s
<1>3. ASSUME NEW card, Observe(card)
      PROVE  Sound(st')
  BY <1>1, <1>3, CommitSound DEF Observe, s
<1>4. ASSUME NEW r \in Requests, NEW c1, NEW card, AcquireNew(r, c1, card)
      PROVE  Sound(st')
  <2> DEFINE asked == Admit(Enqueue(s, r), c1)
  <2>1. Tickets(s, r) = {} /\ \E c0 \in Cards, block \in BOOLEAN : ~Refused(s, r, block, c0)
    BY <1>4 DEF AcquireNew, s
  <2>2. Good(Enqueue(s, r)) /\ Sound(Enqueue(s, r))
    BY <1>1, <2>1, EnqueueGood, EnqueueSound
  <2>3. Good(asked) /\ Sound(asked)
    BY <2>2, AdmitGood, AdmitSound
  <2>4. Good(Without(asked, s.seq + 1)) /\ Sound(Without(asked, s.seq + 1))
    BY <2>3, WithoutGood, WithoutSound
  <2> HIDE DEF asked
  <2>5. \/ Commit(asked, card, {})
        \/ Commit(Without(asked, s.seq + 1), card, {})
    BY <1>4 DEF AcquireNew, s, asked
  <2> QED BY <2>3, <2>4, <2>5, CommitSound
<1>5. ASSUME NEW r, NEW card, AcquireRefused(r, card)
      PROVE  Sound(st')
  BY <1>1, <1>5, CommitSound DEF AcquireRefused, s
<1>6. ASSUME NEW r, NEW c1, NEW card, AcquirePoll(r, c1, card)
      PROVE  Sound(st')
  <2>1. PICK e \in s.entries :
          Commit(Admit(Change(s, e, [e EXCEPT !.idle = 0]), c1), card, {})
    BY <1>6 DEF AcquirePoll, Tickets, s
  <2> DEFINE f == [e EXCEPT !.idle = 0]
  <2>2. /\ f \in Entry
        /\ f.seq = e.seq /\ f.req = e.req /\ f.state = e.state /\ f.token = e.token
        /\ f.releasing = e.releasing
    BY <1>2 DEF Entry
  <2> HIDE DEF f
  <2>3. Good(Change(s, e, f)) /\ Sound(Change(s, e, f))
    BY <1>1, <2>2, ChangeGood, ChangeSound
  <2>4. Good(Admit(Change(s, e, f), c1)) /\ Sound(Admit(Change(s, e, f), c1))
    BY <2>3, AdmitGood, AdmitSound
  <2> QED BY <2>1, <2>4, CommitSound DEF f
<1>7. ASSUME NEW e, NEW card, Renew(e, card)
      PROVE  Sound(st')
  <2>1. e \in s.entries /\ Commit(Change(s, e, [e EXCEPT !.idle = 0]), card, {})
    BY <1>7 DEF Renew, s
  <2> DEFINE f == [e EXCEPT !.idle = 0]
  <2>2. /\ f \in Entry
        /\ f.seq = e.seq /\ f.req = e.req /\ f.state = e.state /\ f.token = e.token
        /\ f.releasing = e.releasing
    BY <1>2, <2>1 DEF Entry
  <2> HIDE DEF f
  <2>3. Good(Change(s, e, f)) /\ Sound(Change(s, e, f))
    BY <1>1, <2>1, <2>2, ChangeGood, ChangeSound
  <2> QED BY <2>1, <2>3, CommitSound DEF f
<1>8. ASSUME NEW e, NEW card, BeginRelease(e, card)
      PROVE  Sound(st')
  <2> DEFINE f == [e EXCEPT !.releasing = TRUE]
             mine == Change(s, e, f)
  <2>1. /\ e \in s.entries /\ e.state = "granted"
        /\ \/ Commit([mine EXCEPT !.paused = {}], card, mine.paused)
           \/ Commit(mine, card, {})
    BY <1>8 DEF BeginRelease, Granted, s
  <2>2. /\ f \in Entry
        /\ f.seq = e.seq /\ f.req = e.req /\ f.state = e.state /\ f.token = e.token
    BY <1>2, <2>1 DEF Entry
  <2> HIDE DEF f
  <2>3. Good(mine) /\ Sound(mine)
    BY <1>1, <2>1, <2>2, ChangeGood, ChangeSound
  <2> HIDE DEF mine
  <2>4. Good([mine EXCEPT !.paused = {}]) /\ Sound([mine EXCEPT !.paused = {}])
    BY <2>3, PausedGood, PausedSound
  <2> QED BY <2>1, <2>3, <2>4, CommitSound
<1>9. ASSUME NEW e, NEW card, Release(e, card)
      PROVE  Sound(st')
  <2> DEFINE left == Without(s, e.seq)
  <2>1. \/ Commit([left EXCEPT !.paused = {}], card, left.paused)
        \/ Commit(left, card, {})
    BY <1>9 DEF Release, s
  <2>2. Good(left) /\ Sound(left)
    BY <1>1, WithoutGood, WithoutSound
  <2> HIDE DEF left
  <2>3. Good([left EXCEPT !.paused = {}]) /\ Sound([left EXCEPT !.paused = {}])
    BY <2>2, PausedGood, PausedSound
  <2> QED BY <2>1, <2>2, <2>3, CommitSound
<1>10. ASSUME NEW e, NEW ms \in SUBSET Models, NEW card, NotePaused(e, ms, card)
       PROVE  Sound(st')
  <2>1. Commit([s EXCEPT !.paused = s.paused \cup ms], card, {})
    BY <1>10 DEF NotePaused, s
  <2>2. /\ Good([s EXCEPT !.paused = s.paused \cup ms])
        /\ Sound([s EXCEPT !.paused = s.paused \cup ms])
    BY <1>1, <1>2, PausedGood, PausedSound
  <2> QED BY <2>1, <2>2, CommitSound
<1>11. ASSUME NEW e, NEW card, Cancel(e, card)
       PROVE  Sound(st')
  <2> DEFINE f == [e EXCEPT !.asked = TRUE]
  <2>1. /\ e \in s.entries
        /\ \/ Commit(Without(s, e.seq), card, {})
           \/ Commit(Change(s, e, f), card, {})
    BY <1>11 DEF Cancel, Queued, Granted, s
  <2>2. /\ f \in Entry
        /\ f.seq = e.seq /\ f.req = e.req /\ f.state = e.state /\ f.token = e.token
        /\ f.releasing = e.releasing
    BY <1>2, <2>1 DEF Entry
  <2> HIDE DEF f
  <2>3. /\ Good(Change(s, e, f)) /\ Good(Without(s, e.seq))
        /\ Sound(Change(s, e, f)) /\ Sound(Without(s, e.seq))
    BY <1>1, <2>1, <2>2, ChangeGood, WithoutGood, ChangeSound, WithoutSound
  <2> QED BY <2>1, <2>3, CommitSound
<1> QED
  BY <1>3, <1>4, <1>5, <1>6, <1>7, <1>8, <1>9, <1>10, <1>11 DEF Operation

LEMMA EmptySound == Sound(EmptyState)
<1>1. Granted(EmptyState) = {} /\ Queued(EmptyState) = {} /\ EmptyState.entries = {}
  BY DEF EmptyState, Granted, Queued
<1>2. Cardinality({}) = 0 /\ IsFiniteSet({})
  BY FS_EmptySet
<1>3. Units({}) = {} /\ \A c : Of({}, c) = {}
  BY DEF Units, Of
<1>4. Claimed({}) = 0
  BY <1>2, <1>3 DEF Claimed
<1>5. OneKey(EmptyState) /\ EachWithinBudget(EmptyState) /\ QuietQueue(EmptyState)
  BY <1>1 DEF OneKey, EachWithinBudget, QuietQueue
<1>6. QueueOK(EmptyState) /\ SharedOK(EmptyState)
  BY <1>1, <1>2, LeaseAssumption DEF QueueOK, SharedOK
<1>7. ClientsOK(EmptyState)
  BY <1>1, <1>3, <1>4, LeaseAssumption DEF ClientsOK
<1> QED BY <1>5, <1>6, <1>7 DEF Sound

LEMMA EnvironmentSound ==
  ASSUME LInv, Environment
  PROVE  Sound(st')
<1>1. CASE Tick
  <2>1. StateOK(st) /\ Sound(st)
    BY DEF LInv, IInv, Good
  <2>2. st' = [st EXCEPT !.entries = {Aged(e) : e \in st.entries}]
    BY <1>1 DEF Tick
  <2>3. st'.entries = {Aged(e) : e \in st.entries}
    BY <2>1, <2>2 DEF StateOK
  <2>4. \A e \in st.entries : /\ Aged(e).seq = e.seq /\ Aged(e).req = e.req
                              /\ Aged(e).state = e.state /\ Aged(e).releasing = e.releasing
    BY <2>1 DEF StateOK, Entry, Aged
  <2>5. Shrinks(st', st)
    BY <2>3, <2>4 DEF Shrinks
  <2>6. IInv'
    BY <1>1, TickGood DEF LInv
  <2>7. StateOK(st')
    BY <2>6 DEF IInv, Good, StateOK
  <2> QED BY <2>1, <2>5, <2>7, ShrinkSound
<1>2. CASE \E p \in Procs : Die(p)
  BY <1>2 DEF Die, LInv
<1>3. CASE Damage
  BY <1>3 DEF Damage, LInv
<1>4. CASE Repair
  BY <1>4, EmptySound DEF Repair
<1> QED BY <1>1, <1>2, <1>3, <1>4 DEF Environment

\* The inductive invariant of the sums.
THEOREM LeaseInvariance == Spec => []LInv
<1>1. Init => LInv
  BY InitGood, EmptySound DEF Init, LInv
<1>2. LInv /\ [Next]_vars => LInv'
  <2> SUFFICES ASSUME LInv, [Next]_vars PROVE LInv'
    OBVIOUS
  <2>1. CASE Next
    <3>1. IInv'
      BY <2>1, OperationGood, EnvironmentGood DEF LInv, Next
    <3>2. Sound(st')
      BY <2>1, OperationSound, EnvironmentSound DEF Next
    <3>3. Sound(st)'
      BY <3>2 DEF Sound, OneKey, QueueOK, EachWithinBudget, SharedOK, ClientsOK, QuietQueue,
                  Granted, Queued, Of, Claimed, Units
    <3> QED BY <3>1, <3>3 DEF LInv
  <2>2. CASE UNCHANGED vars
    BY <2>2 DEF vars, LInv, IInv, EnvOK, Good, StateOK, Exclusive, TokensOK, Sound, OneKey,
                QueueOK, EachWithinBudget, SharedOK, ClientsOK, QuietQueue, Granted, Queued,
                Of, Claimed, Units
  <2> QED BY <2>1, <2>2
<1> QED BY <1>1, <1>2, PTL DEF Spec

\* Holders that share the card never claim more than it has beside the reserve.
THEOREM SharersFit == Spec => []SharedBudgetFits
<1>1. LInv => SharedBudgetFits
  BY DEF LInv, Sound, SharedOK, SharedBudgetFits, Holders
<1> QED BY <1>1, LeaseInvariance, PTL

\* No client holds more than its budget over all its leases.
THEOREM ClientsStayWithinBudget == Spec => []ClientBudgetsHold
<1>1. LInv => ClientBudgetsHold
  BY DEF LInv, Sound, ClientsOK, ClientBudgetsHold, Holders, Of
<1> QED BY <1>1, LeaseInvariance, PTL

\* Neither the card nor a client's share of it is promised twice.
THEOREM BudgetsAreKept == Spec => []BudgetsHold
<1>1. SharedBudgetFits /\ ClientBudgetsHold => BudgetsHold
  BY DEF BudgetsHold
<1> QED BY <1>1, SharersFit, ClientsStayWithinBudget, PTL

\* A retry never makes a second record, and the queue never exceeds its bound.
THEOREM TicketsAreBounded == Spec => []TicketsBounded
<1>1. LInv => TicketsBounded
  BY DEF LInv, Sound, OneKey, QueueOK, TicketsBounded, OneTicketPerKey, QueueBounded
<1> QED BY <1>1, LeaseInvariance, PTL

\* What the state file promises fits the card, the clients' shares and the queue.
THEOREM ClaimsAreExact == Spec => []ClaimsExact
<1>1. BudgetsHold /\ TicketsBounded => ClaimsExact
  BY DEF ClaimsExact
<1> QED BY <1>1, BudgetsAreKept, TicketsAreBounded, PTL
-----------------------------------------------------------------------------
(***************************************************************************)
(* What a step of the arbiter may never do, for every card, table of        *)
(* clients and set of requests: grant past a waiter, grant next to a holder *)
(* that is leaving, drop a live holder, forget a paused model too early.    *)
(* A transaction is Prune, a body, and one or two admissions; each part is  *)
(* compared with the state that the step started from.                      *)
(***************************************************************************)

\* b comes from the pruned state without an admission: a record is the one call's
\* new one, or was there and keeps its place in the queue or on the card.
Fresh(b) ==
  \A g \in b.entries :
    \/ g.seq = st.seq + 1 /\ g.state = "queued" /\ g.since = 0
    \/ \E e \in Prune(st).entries :
         g.seq = e.seq /\ g.req = e.req /\ g.state = e.state /\ g.since = e.since

\* The same after admissions: nobody was passed, and nobody was granted the card
\* next to a holder that is leaving.
Track(b) ==
  /\ \A g \in b.entries :
       g.seq = st.seq + 1 \/ \E e \in Prune(st).entries : g.seq = e.seq
  /\ \A g \in Queued(b) : g.seq = st.seq + 1 => g.since = 0
  /\ \A g \in Queued(b), e \in st.entries :
       g.seq = e.seq => g.req = e.req /\ g.since = e.since /\ e.state = "queued"
  /\ \A e, f \in Queued(st) : Holder(b, e.seq) /\ Waiting(b, f.seq) => Before(e, f)
  /\ (\E g \in Granted(b) : g.releasing) => \A g \in Granted(b) : Holder(st, g.seq)

LEMMA PruneShape ==
  ASSUME Good(st)
  PROVE  /\ Prune(st).entries \subseteq st.entries /\ Prune(st).seq = st.seq
         /\ st.entries \subseteq Entry
         /\ \A e \in st.entries : e.seq \in Nat /\ e.seq < st.seq + 1 /\ e.seq # st.seq + 1
         /\ \A e, f \in st.entries : e.seq = f.seq => e = f
         /\ Fresh(Prune(st))
<1>1. Prune(st).entries \subseteq st.entries /\ Prune(st).seq = st.seq
  BY DEF Prune, Good, StateOK
<1>2. /\ st.entries \subseteq Entry /\ st.seq \in Nat
      /\ \A e \in st.entries : e.seq <= st.seq
      /\ \A e, f \in st.entries : e.seq = f.seq => e = f
  BY DEF Good, StateOK
<1>3. \A e \in st.entries : e.seq \in Nat
  BY <1>2 DEF Entry
<1>4. \A e \in st.entries : e.seq < st.seq + 1 /\ e.seq # st.seq + 1
  BY <1>2, <1>3
<1> QED BY <1>1, <1>2, <1>3, <1>4 DEF Fresh

LEMMA FreshTrack ==
  ASSUME Good(st), NEW b, Fresh(b)
  PROVE  Track(b)
<1>1. /\ Prune(st).entries \subseteq st.entries
      /\ \A e \in st.entries : e.seq # st.seq + 1
      /\ \A e, f \in st.entries : e.seq = f.seq => e = f
  BY PruneShape
<1>2. \A g \in b.entries :
        g.seq = st.seq + 1 \/ \E e \in Prune(st).entries : g.seq = e.seq
  BY DEF Fresh
<1>3. \A g \in b.entries, e \in st.entries :
        g.seq = e.seq => g.req = e.req /\ g.since = e.since /\ g.state = e.state
  BY <1>1 DEF Fresh
<1>4. \A g \in Granted(b) : Holder(st, g.seq)
  BY <1>1 DEF Fresh, Granted, Holder
<1>5. \A e \in Queued(st) : ~Holder(b, e.seq)
  BY <1>3 DEF Queued, Granted, Holder
<1>6. \A g \in b.entries : g.seq = st.seq + 1 => g.since = 0
  BY <1>1 DEF Fresh
<1> QED BY <1>2, <1>3, <1>4, <1>5, <1>6 DEF Track, Queued

\* Next to a holder that is leaving nobody is admitted.
LEMMA AdmitWhileReleasing ==
  ASSUME NEW b, Good(b), NEW card, NEW g \in Granted(b), g.releasing
  PROVE  Admitted(b, card) = {} /\ Granted(Admit(b, card)) = Granted(b)
<1>1. StateOK(b)
  BY DEF Good
<1>2. Admitted(b, card) = {}
  <2> SUFFICES ASSUME NEW e \in Admitted(b, card) PROVE FALSE
    OBVIOUS
  <2>1. Fit(Granted(b) \cup Ahead(b, e), e, card)
    BY <1>1, AdmittedPrefix
  <2> QED BY <2>1 DEF Fit
<1>3. Granted(Admit(b, card)) = Granted(b) \cup {Grant(b, e) : e \in Admitted(b, card)}
  BY <1>1, AdmitShape
<1> QED BY <1>2, <1>3

\* An admission passes nobody: the n-th in the queue comes before whom it leaves.
LEMMA AdmitInOrder ==
  ASSUME NEW b, StateOK(b), NEW card, NEW g \in Admitted(b, card),
         NEW h \in Queued(b), h \notin Admitted(b, card)
  PROVE  Before(g, h)
<1>1. g \in Entry /\ g \in Queued(b) /\ Ahead(b, g) \subseteq Admitted(b, card)
  BY AdmittedPrefix
<1>2. h \in Entry /\ g.seq # h.seq
  BY <1>1 DEF StateOK, Queued
<1>3. ~Before(h, g)
  BY <1>1 DEF Ahead
<1> QED BY <1>1, <1>2, <1>3, BeforeOrder

LEMMA AdmitTrack ==
  ASSUME Good(st), NEW b, Good(b), Sound(b), Track(b), NEW card
  PROVE  Track(Admit(b, card))
<1> DEFINE new == Admitted(b, card)
           t == Admit(b, card)
<1>1. StateOK(b) /\ StateOK(st) /\ StateOK(t)
  BY AdmitOK DEF Good
<1>2. /\ new \in SUBSET Queued(b)
      /\ \A e \in new : /\ Grant(b, e).seq = e.seq
                       /\ Grant(b, e).releasing = e.releasing
      /\ Granted(t) = Granted(b) \cup {Grant(b, e) : e \in new}
      /\ Queued(t) = Queued(b) \ new
      /\ t.entries = Granted(t) \cup Queued(t)
  BY <1>1, AdmitShape
<1>3. \A e \in Queued(b) : e \in b.entries /\ ~e.releasing
  BY DEF Sound, QuietQueue, Queued
<1>4. \A g \in t.entries : \E h \in b.entries : g.seq = h.seq
  BY <1>2, <1>3 DEF Granted
<1>5. \A g \in t.entries :
        g.seq = st.seq + 1 \/ \E e \in Prune(st).entries : g.seq = e.seq
  BY <1>4 DEF Track
<1>6. /\ \A g \in Queued(t) : g.seq = st.seq + 1 => g.since = 0
      /\ \A g \in Queued(t), e \in st.entries :
           g.seq = e.seq => g.req = e.req /\ g.since = e.since /\ e.state = "queued"
  BY <1>2 DEF Track
<1>7. ASSUME NEW e \in Queued(st), NEW f \in Queued(st),
             Holder(t, e.seq), Waiting(t, f.seq)
      PROVE  Before(e, f)
  <2>1. PICK h \in Queued(t) : h.seq = f.seq
    BY <1>7 DEF Waiting
  <2>2. h \in Queued(b) /\ h \notin new
    BY <1>2, <2>1
  <2>3. CASE Holder(b, e.seq)
    <3>1. Waiting(b, f.seq)
      BY <2>1, <2>2 DEF Waiting
    <3> QED BY <2>3, <3>1 DEF Track
  <2>4. CASE ~Holder(b, e.seq)
    <3>1. PICK g \in new : g.seq = e.seq
      BY <1>2, <1>7, <2>4 DEF Holder
    <3>2. Before(g, h)
      BY <1>1, <2>2, <3>1, AdmitInOrder
    <3>3. g \in Queued(b) /\ e \in st.entries /\ f \in st.entries
      BY <1>2 DEF Queued
    <3>4. /\ g.req = e.req /\ g.since = e.since
          /\ h.req = f.req /\ h.since = f.since
      BY <2>1, <2>2, <3>1, <3>3 DEF Track
    <3> QED BY <2>1, <3>1, <3>2, <3>4 DEF Before, Eff, PromotedLevel
  <2> QED BY <2>3, <2>4
<1>8. ASSUME NEW g \in Granted(t), g.releasing
      PROVE  \A e \in Granted(t) : Holder(st, e.seq)
  <2>1. g \in Granted(b)
    BY <1>2, <1>3, <1>8
  <2>2. Granted(t) = Granted(b)
    BY <1>8, <2>1, AdmitWhileReleasing
  <2> QED BY <1>8, <2>1, <2>2 DEF Track
<1> HIDE DEF t
<1> QED BY <1>5, <1>6, <1>7, <1>8 DEF Track, t

LEMMA WithoutTrack ==
  ASSUME NEW b, StateOK(b), Track(b), NEW q
  PROVE  Track(Without(b, q))
<1> DEFINE t == Without(b, q)
<1>1. t.entries \subseteq b.entries
  BY DEF Without, StateOK
<1>2. Granted(t) \subseteq Granted(b) /\ Queued(t) \subseteq Queued(b)
  BY <1>1 DEF Granted, Queued
<1> HIDE DEF t
<1> QED BY <1>1, <1>2 DEF Track, Holder, Waiting, t

-----------------------------------------------------------------------------
(* What each operation does to holders and to the paused models. *)

\* The holders that the pruning left still have the card, but for the one numbered q.
KeepsBut(b, q) == \A e \in Granted(Prune(st)) : e.seq # q => Holder(b, e.seq)

\* The holders that remain are all leaving.
Leaving(b) == \A e \in Granted(Prune(st)) :
                Holder(b, e.seq) => \E g \in Granted(b) : g.seq = e.seq /\ g.releasing

\* What every operation guarantees; q is the number of the lease that it releases.
Lawful(q) ==
  /\ Track(st')
  /\ KeepsBut(st', q)
  /\ Prune(st).paused \subseteq st'.paused \/ Leaving(st')

\* The last transaction step: an admission to a body whose models stay.
LEMMA CommitLawful ==
  ASSUME Good(st), NEW b, NEW card, NEW resume, NEW q, Good(b), Sound(b), Track(b),
         KeepsBut(b, q), Prune(st).paused \subseteq b.paused, Commit(b, card, resume)
  PROVE  Lawful(q)
<1>1. st' = Admit(b, card) /\ StateOK(b)
  BY DEF Commit, Good
<1>2. Track(st')
  BY <1>1, AdmitTrack
<1>3. Granted(b) \subseteq Granted(st') /\ st'.paused = b.paused
  BY <1>1, AdmitShape
<1>4. KeepsBut(st', q)
  BY <1>3 DEF KeepsBut, Holder
<1> QED BY <1>2, <1>3, <1>4 DEF Lawful

\* A body without an admission.
LEMMA BodyLawful ==
  ASSUME Good(st), NEW b, NEW card, NEW resume, NEW q, Good(b), Sound(b), Fresh(b),
         KeepsBut(b, q), Prune(st).paused \subseteq b.paused, Commit(b, card, resume)
  PROVE  Lawful(q)
BY FreshTrack, CommitLawful

\* A call that marks the record e.
LEMMA ChangeFresh ==
  ASSUME Good(st), NEW e \in Prune(st).entries, NEW f,
         f.seq = e.seq, f.req = e.req, f.state = e.state, f.since = e.since
  PROVE  /\ Fresh(Change(Prune(st), e, f))
         /\ Change(Prune(st), e, f).paused = Prune(st).paused
         /\ \A q : KeepsBut(Change(Prune(st), e, f), q)
<1> DEFINE s == Prune(st)
           t == Change(s, e, f)
<1>1. StateOK(s)
  BY PruneGood DEF Good
<1>2. t.entries = (s.entries \ {e}) \cup {f} /\ t.paused = s.paused
  BY <1>1 DEF Change, StateOK
<1> HIDE DEF t
<1>3. Fresh(t)
  BY <1>2 DEF Fresh
<1>4. \A q : KeepsBut(t, q)
  <2> SUFFICES ASSUME NEW g \in Granted(s) PROVE Holder(t, g.seq)
    BY DEF KeepsBut
  <2>1. CASE g = e
    BY <1>2, <2>1 DEF Holder, Granted
  <2>2. CASE g # e
    BY <1>2, <2>2 DEF Holder, Granted
  <2> QED BY <2>1, <2>2
<1> QED BY <1>2, <1>3, <1>4 DEF t

\* A call that removes the record numbered q.
LEMMA WithoutFresh ==
  ASSUME Good(st), NEW q
  PROVE  /\ Fresh(Without(Prune(st), q))
         /\ Without(Prune(st), q).paused = Prune(st).paused
         /\ KeepsBut(Without(Prune(st), q), q)
<1> DEFINE s == Prune(st)
           t == Without(s, q)
<1>1. StateOK(s) /\ Fresh(s)
  BY PruneGood, PruneShape DEF Good
<1>2. t.entries = {e \in s.entries : e.seq # q} /\ t.paused = s.paused
  BY <1>1 DEF Without, StateOK
<1> HIDE DEF t
<1>3. Fresh(t)
  BY <1>1, <1>2 DEF Fresh
<1>4. KeepsBut(t, q)
  BY <1>2 DEF KeepsBut, Holder, Granted
<1> QED BY <1>2, <1>3, <1>4 DEF t

LEMMA PruneFresh ==
  ASSUME Good(st)
  PROVE  Fresh(Prune(st)) /\ \A q : KeepsBut(Prune(st), q)
BY PruneShape DEF KeepsBut, Holder

LEMMA EnqueueFresh ==
  ASSUME Good(st), NEW r \in Requests
  PROVE  /\ Fresh(Enqueue(Prune(st), r))
         /\ Enqueue(Prune(st), r).paused = Prune(st).paused
         /\ \A q : KeepsBut(Enqueue(Prune(st), r), q)
<1> DEFINE s == Prune(st)
           t == Enqueue(s, r)
           n == NewEntry(s, r)
<1>1. StateOK(s) /\ Fresh(s) /\ s.seq = st.seq
  BY PruneGood, PruneShape DEF Good
<1>2. t.entries = s.entries \cup {n} /\ t.paused = s.paused
  BY <1>1 DEF Enqueue, StateOK
<1>3. n.seq = st.seq + 1 /\ n.state = "queued" /\ n.since = 0
  BY <1>1 DEF NewEntry
<1> HIDE DEF t, n
<1>4. Fresh(t)
  BY <1>1, <1>2, <1>3 DEF Fresh
<1>5. \A q : KeepsBut(t, q)
  BY <1>2 DEF KeepsBut, Holder, Granted
<1> QED BY <1>2, <1>4, <1>5 DEF t

\* The models are handed over in a transaction that ends with the card's last
\* users leaving.
LEMMA HandOver ==
  ASSUME Good(st), NEW b, NEW card, NEW resume, NEW q, Good(b), Sound(b), Fresh(b),
         KeepsBut(b, q), Commit(b, card, resume),
         \/ \E g \in Granted(b) : \A h \in Granted(b) : g.releasing /\ h.releasing
         \/ /\ Granted(b) = {}
            /\ b.entries \subseteq Prune(st).entries
  PROVE  Lawful(q)
<1>1. st' = Admit(b, card) /\ StateOK(b) /\ Track(b)
  BY FreshTrack DEF Commit, Good
<1>2. Track(st')
  BY <1>1, AdmitTrack
<1>3. /\ Granted(b) \subseteq Granted(st')
      /\ \A g \in Granted(st') : g \in Granted(b) \/ \E e \in Queued(b) : g.seq = e.seq
  BY <1>1, AdmitShape
<1>4. KeepsBut(st', q)
  BY <1>3 DEF KeepsBut, Holder
<1>5. CASE \E g \in Granted(b) : \A h \in Granted(b) : g.releasing /\ h.releasing
  <2>1. Granted(st') = Granted(b)
    BY <1>1, <1>5, AdmitWhileReleasing
  <2>2. Leaving(st')
    BY <1>5, <2>1 DEF Leaving, Holder
  <2> QED BY <1>2, <1>4, <2>2 DEF Lawful
<1>6. CASE Granted(b) = {} /\ b.entries \subseteq Prune(st).entries
  <2>1. Leaving(st')
    <3> SUFFICES ASSUME NEW e \in Granted(Prune(st)), Holder(st', e.seq) PROVE FALSE
      BY DEF Leaving
    <3>1. PICK f \in Queued(b) : f.seq = e.seq
      BY <1>3, <1>6 DEF Holder
    <3>2. f \in st.entries /\ e \in st.entries /\ e = f
      BY <1>6, <3>1, PruneShape DEF Queued, Granted
    <3> QED BY <3>1, <3>2 DEF Queued, Granted
  <2> QED BY <1>2, <1>4, <2>1 DEF Lawful
<1> QED BY <1>5, <1>6

LEMMA OperationLawful ==
  ASSUME LInv, Operation
  PROVE  \/ Lawful(st.seq + 1)
         \/ \E e \in st.entries, card \in Cards : Release(e, card) /\ Lawful(e.seq)
<1> DEFINE s == Prune(st)
<1> USE DEF LInv, IInv
<1>1. Good(st) /\ Good(s) /\ Sound(s) /\ StateOK(s)
  BY PruneGood, PruneSound DEF Good
<1>2. /\ s.paused \in SUBSET Models /\ s.entries \subseteq Entry
      /\ s.entries \subseteq st.entries /\ s.seq = st.seq
  BY <1>1, PruneShape DEF StateOK
<1>3. Fresh(s) /\ \A q : KeepsBut(s, q)
  BY <1>1, PruneFresh
<1>4. ASSUME NEW card, Observe(card)
      PROVE  Lawful(st.seq + 1)
  BY <1>1, <1>3, <1>4, BodyLawful DEF Observe
<1>5. ASSUME NEW r \in Requests, NEW c1, NEW card, AcquireNew(r, c1, card)
      PROVE  Lawful(st.seq + 1)
  <2> DEFINE new == Enqueue(s, r)
             asked == Admit(new, c1)
             left == Without(asked, s.seq + 1)
  <2>1. Tickets(s, r) = {} /\ \E c0 \in Cards, block \in BOOLEAN : ~Refused(s, r, block, c0)
    BY <1>5 DEF AcquireNew
  <2>2. /\ Good(new) /\ Sound(new) /\ Track(new)
        /\ new.paused = s.paused /\ \A q : KeepsBut(new, q)
    BY <1>1, <2>1, EnqueueGood, EnqueueSound, EnqueueFresh, FreshTrack
  <2> HIDE DEF new
  <2>3. /\ Good(asked) /\ Sound(asked) /\ Track(asked)
        /\ Granted(new) \subseteq Granted(asked) /\ asked.paused = s.paused
    BY <1>1, <2>2, AdmitGood, AdmitSound, AdmitTrack, AdmitShape DEF Good
  <2>4. \A q : KeepsBut(asked, q)
    BY <2>2, <2>3 DEF KeepsBut, Holder
  <2> HIDE DEF asked
  <2>5. /\ Good(left) /\ Sound(left) /\ Track(left)
    BY <2>3, WithoutGood, WithoutSound, WithoutTrack DEF Good
  <2>6. /\ left.paused = s.paused /\ left.entries = {e \in asked.entries : e.seq # s.seq + 1}
    BY <2>3 DEF Without, Good, StateOK
  <2>7. KeepsBut(left, st.seq + 1)
    BY <1>2, <2>4, <2>6 DEF KeepsBut, Holder, Granted
  <2> HIDE DEF left
  <2>8. Commit(asked, card, {}) \/ Commit(left, card, {})
    BY <1>5 DEF AcquireNew, asked, left, new
  <2> QED BY <1>1, <2>3, <2>4, <2>5, <2>6, <2>7, <2>8, CommitLawful
<1>6. ASSUME NEW r, NEW card, AcquireRefused(r, card)
      PROVE  Lawful(st.seq + 1)
  BY <1>1, <1>3, <1>6, BodyLawful DEF AcquireRefused
<1>7. ASSUME NEW r, NEW c1, NEW card, AcquirePoll(r, c1, card)
      PROVE  Lawful(st.seq + 1)
  <2>1. PICK e \in s.entries :
          Commit(Admit(Change(s, e, [e EXCEPT !.idle = 0]), c1), card, {})
    BY <1>7 DEF AcquirePoll, Tickets
  <2> DEFINE f == [e EXCEPT !.idle = 0]
             polled == Change(s, e, f)
             asked == Admit(polled, c1)
  <2>2. /\ f \in Entry
        /\ f.seq = e.seq /\ f.req = e.req /\ f.state = e.state /\ f.token = e.token
        /\ f.releasing = e.releasing /\ f.since = e.since
    BY <1>2 DEF Entry
  <2> HIDE DEF f
  <2>3. /\ Good(polled) /\ Sound(polled) /\ Track(polled)
        /\ polled.paused = s.paused /\ \A q : KeepsBut(polled, q)
    BY <1>1, <2>2, ChangeGood, ChangeSound, ChangeFresh, FreshTrack
  <2> HIDE DEF polled
  <2>4. /\ Good(asked) /\ Sound(asked) /\ Track(asked)
        /\ Granted(polled) \subseteq Granted(asked) /\ asked.paused = s.paused
    BY <1>1, <2>3, AdmitGood, AdmitSound, AdmitTrack, AdmitShape DEF Good
  <2>5. \A q : KeepsBut(asked, q)
    BY <2>3, <2>4 DEF KeepsBut, Holder
  <2> HIDE DEF asked
  <2>6. Commit(asked, card, {})
    BY <2>1 DEF asked, polled, f
  <2> QED BY <1>1, <2>4, <2>5, <2>6, CommitLawful
<1>8. ASSUME NEW e, NEW card, Renew(e, card)
      PROVE  Lawful(st.seq + 1)
  <2> DEFINE f == [e EXCEPT !.idle = 0]
             b == Change(s, e, f)
  <2>1. e \in s.entries /\ Commit(b, card, {})
    BY <1>8 DEF Renew
  <2>2. /\ f \in Entry
        /\ f.seq = e.seq /\ f.req = e.req /\ f.state = e.state /\ f.token = e.token
        /\ f.releasing = e.releasing /\ f.since = e.since
    BY <1>2, <2>1 DEF Entry
  <2> HIDE DEF f
  <2>3. /\ Good(b) /\ Sound(b) /\ Fresh(b) /\ b.paused = s.paused
        /\ KeepsBut(b, st.seq + 1)
    BY <1>1, <2>1, <2>2, ChangeGood, ChangeSound, ChangeFresh
  <2> HIDE DEF b
  <2> QED BY <1>1, <2>1, <2>3, BodyLawful
<1>9. ASSUME NEW e, NEW card, BeginRelease(e, card)
      PROVE  Lawful(st.seq + 1)
  <2> DEFINE f == [e EXCEPT !.releasing = TRUE]
             mine == Change(s, e, f)
             gone == [mine EXCEPT !.paused = {}]
  <2>1. /\ e \in s.entries /\ e.state = "granted"
        /\ \/ (\A g \in Granted(mine) : g.releasing) /\ Commit(gone, card, mine.paused)
           \/ Commit(mine, card, {})
    BY <1>9 DEF BeginRelease, Granted
  <2>2. /\ f \in Entry /\ f.releasing
        /\ f.seq = e.seq /\ f.req = e.req /\ f.state = e.state /\ f.token = e.token
        /\ f.since = e.since
    BY <1>2, <2>1 DEF Entry
  <2> HIDE DEF f
  <2>3. /\ Good(mine) /\ Sound(mine) /\ Fresh(mine) /\ mine.paused = s.paused
        /\ KeepsBut(mine, st.seq + 1)
    BY <1>1, <2>1, <2>2, ChangeGood, ChangeSound, ChangeFresh
  <2>4. f \in Granted(mine)
    BY <1>1, <2>1, <2>2 DEF Change, Granted, StateOK
  <2> HIDE DEF mine
  <2>5. Good(gone) /\ Sound(gone) /\ gone.entries = mine.entries
    BY <2>3, PausedGood, PausedSound DEF Good, StateOK
  <2>6. Granted(gone) = Granted(mine) /\ Fresh(gone) /\ KeepsBut(gone, st.seq + 1)
    BY <2>3, <2>5 DEF Granted, Fresh, KeepsBut, Holder
  <2> HIDE DEF gone
  <2>7. CASE (\A g \in Granted(mine) : g.releasing) /\ Commit(gone, card, mine.paused)
    BY <1>1, <2>2, <2>4, <2>5, <2>6, <2>7, HandOver
  <2>8. CASE Commit(mine, card, {})
    BY <1>1, <2>3, <2>8, BodyLawful
  <2> QED BY <2>1, <2>7, <2>8
<1>10. ASSUME NEW e, NEW card, Release(e, card)
       PROVE  Lawful(e.seq)
  <2> DEFINE left == Without(s, e.seq)
             gone == [left EXCEPT !.paused = {}]
  <2>1. \/ Granted(left) = {} /\ Commit(gone, card, left.paused)
        \/ Commit(left, card, {})
    BY <1>10 DEF Release
  <2>2. /\ Good(left) /\ Sound(left) /\ Fresh(left) /\ left.paused = s.paused
        /\ KeepsBut(left, e.seq)
    BY <1>1, WithoutGood, WithoutSound, WithoutFresh
  <2>3. left.entries \subseteq s.entries
    BY <1>1 DEF Without, StateOK
  <2> HIDE DEF left
  <2>4. Good(gone) /\ Sound(gone) /\ gone.entries = left.entries
    BY <2>2, PausedGood, PausedSound DEF Good, StateOK
  <2>5. Granted(gone) = Granted(left) /\ Fresh(gone) /\ KeepsBut(gone, e.seq)
    BY <2>2, <2>4 DEF Granted, Fresh, KeepsBut, Holder
  <2> HIDE DEF gone
  <2>6. CASE Granted(left) = {} /\ Commit(gone, card, left.paused)
    BY <1>1, <2>3, <2>4, <2>5, <2>6, HandOver
  <2>7. CASE Commit(left, card, {})
    BY <1>1, <2>2, <2>7, BodyLawful
  <2> QED BY <2>1, <2>6, <2>7
<1>11. ASSUME NEW e, NEW ms \in SUBSET Models, NEW card, NotePaused(e, ms, card)
       PROVE  Lawful(st.seq + 1)
  <2> DEFINE b == [s EXCEPT !.paused = s.paused \cup ms]
  <2>1. Commit(b, card, {})
    BY <1>11 DEF NotePaused
  <2>2. /\ Good(b) /\ Sound(b) /\ b.entries = s.entries /\ s.paused \subseteq b.paused
    BY <1>1, <1>2, PausedGood, PausedSound DEF StateOK
  <2>3. Fresh(b) /\ KeepsBut(b, st.seq + 1)
    BY <1>3, <2>2 DEF Fresh, KeepsBut, Holder, Granted
  <2> HIDE DEF b
  <2> QED BY <1>1, <2>1, <2>2, <2>3, BodyLawful
<1>12. ASSUME NEW e, NEW card, Cancel(e, card)
       PROVE  Lawful(st.seq + 1)
  <2> DEFINE f == [e EXCEPT !.asked = TRUE]
             left == Without(s, e.seq)
             b == Change(s, e, f)
  <2>1. /\ e \in s.entries
        /\ \/ e.state = "queued" /\ Commit(left, card, {})
           \/ Commit(b, card, {})
    BY <1>12 DEF Cancel, Queued, Granted
  <2>2. /\ f \in Entry
        /\ f.seq = e.seq /\ f.req = e.req /\ f.state = e.state /\ f.token = e.token
        /\ f.releasing = e.releasing /\ f.since = e.since
    BY <1>2, <2>1 DEF Entry
  <2> HIDE DEF f
  <2>3. CASE e.state = "queued" /\ Commit(left, card, {})
    <3>1. /\ Good(left) /\ Sound(left) /\ Fresh(left) /\ left.paused = s.paused
          /\ KeepsBut(left, e.seq)
      BY <1>1, WithoutGood, WithoutSound, WithoutFresh
    <3>2. \A g \in Granted(s) : g.seq # e.seq
      BY <1>1, <2>1, <2>3 DEF StateOK, Granted
    <3>3. KeepsBut(left, st.seq + 1)
      BY <3>1, <3>2 DEF KeepsBut
    <3> HIDE DEF left
    <3> QED BY <1>1, <2>3, <3>1, <3>3, BodyLawful
  <2>4. CASE Commit(b, card, {})
    <3>1. /\ Good(b) /\ Sound(b) /\ Fresh(b) /\ b.paused = s.paused
          /\ KeepsBut(b, st.seq + 1)
      BY <1>1, <2>1, <2>2, ChangeGood, ChangeSound, ChangeFresh
    <3> HIDE DEF b
    <3> QED BY <1>1, <2>4, <3>1, BodyLawful
  <2> QED BY <2>1, <2>3, <2>4
<1> QED
  BY <1>4, <1>5, <1>6, <1>7, <1>8, <1>9, <1>10, <1>11, <1>12 DEF Operation

-----------------------------------------------------------------------------
(* The steps of the environment. *)

\* Time, deaths and damages grant nothing and take nothing.
LEMMA EnvironmentQuiet ==
  ASSUME LInv, Environment
  PROVE  \/ Repair /\ Granted(st') = {}
         \/ st'.paused = st.paused /\ \A q : Holder(st', q) <=> Holder(st, q)
<1>1. CASE Tick
  <2>1. StateOK(st) /\ st' = [st EXCEPT !.entries = {Aged(e) : e \in st.entries}]
    BY <1>1 DEF LInv, IInv, Good, Tick
  <2>2. st'.entries = {Aged(e) : e \in st.entries} /\ st'.paused = st.paused
    BY <2>1 DEF StateOK
  <2>3. \A e \in st.entries : Aged(e).seq = e.seq /\ Aged(e).state = e.state
    BY <2>1 DEF StateOK, Entry, Aged
  <2> QED BY <2>2, <2>3 DEF Holder, Granted
<1>2. CASE \E p \in Procs : Die(p)
  BY <1>2 DEF Die
<1>3. CASE Damage
  BY <1>3 DEF Damage
<1>4. CASE Repair
  BY <1>4 DEF Repair, EmptyState, Granted
<1> QED BY <1>1, <1>2, <1>3, <1>4 DEF Environment

\* A waiter is not a holder.
LEMMA WaiterHoldsNothing ==
  ASSUME Good(st), NEW e \in Queued(st)
  PROVE  ~Holder(st, e.seq)
BY DEF Good, StateOK, Queued, Granted, Holder

-----------------------------------------------------------------------------
(* The action properties. *)

\* Nobody is passed: strict head-of-line over pruning, withdrawals and double
\* admissions, for every mix of classes, ages and budgets.
THEOREM ServesInOrder == Spec => HeadOfLine
<1>1. LInv /\ [Next]_vars =>
        [\A e, f \in Queued(st) :
           Passes(e) /\ Waiting(st', f.seq) => Before(e, f)]_vars
  <2> SUFFICES ASSUME LInv, Next, NEW e \in Queued(st), NEW f \in Queued(st),
                      Passes(e), Waiting(st', f.seq)
               PROVE  Before(e, f)
    BY DEF vars
  <2>1. CASE Operation
    BY <2>1, OperationLawful DEF Lawful, Track, Passes
  <2>2. CASE Environment
    BY <2>2, EnvironmentQuiet, WaiterHoldsNothing DEF LInv, IInv, Passes, Holder
  <2> QED BY <2>1, <2>2 DEF Next
<1> QED BY <1>1, LeaseInvariance, PTL DEF Spec, HeadOfLine

\* Nobody is granted the card while a holder resumes the model server on it.
THEOREM GrantsWaitForReleasing == Spec => NoGrantWhileReleasing
<1>1. LInv /\ [Next]_vars =>
        [(\E g \in Granted(st') : g.releasing) =>
           \A e \in Granted(st') : Holder(st, e.seq)]_vars
  <2> SUFFICES ASSUME LInv, Next, NEW g \in Granted(st'), g.releasing,
                      NEW e \in Granted(st')
               PROVE  Holder(st, e.seq)
    BY DEF vars
  <2>1. CASE Operation
    BY <2>1, OperationLawful DEF Lawful, Track
  <2>2. CASE Environment
    BY <2>2, EnvironmentQuiet DEF Holder
  <2> QED BY <2>1, <2>2 DEF Next
<1> QED BY <1>1, LeaseInvariance, PTL DEF Spec, NoGrantWhileReleasing

\* A live holder loses its lease by its own release or by a repair, and in no
\* other way, however late it renews.
THEOREM LiveHoldersStay == Spec => LiveHolderNeverEvicted
<1>1. LInv /\ [Next]_vars =>
        [\A e \in Holders :
           e.req.proc \in alive /\ ~Holder(st', e.seq) =>
             Repair \/ \E card \in Cards : Release(e, card)]_vars
  <2> SUFFICES ASSUME LInv, Next, NEW e \in Holders, e.req.proc \in alive,
                      ~Holder(st', e.seq)
               PROVE  Repair \/ \E card \in Cards : Release(e, card)
    BY DEF vars
  <2>1. e \in st.entries /\ e.state = "granted" /\ Good(st)
    BY DEF Holders, Granted, LInv, IInv
  <2>2. CASE Operation
    <3>1. e \in Granted(Prune(st))
      BY <2>1 DEF Prune, Kept, Granted, Good, StateOK
    <3>2. e.seq # st.seq + 1
      BY <2>1, PruneShape
    <3>3. PICK f \in st.entries, card \in Cards : Release(f, card) /\ Lawful(f.seq)
      BY <2>2, <3>1, <3>2, OperationLawful DEF Lawful, KeepsBut
    <3>4. f.seq = e.seq
      BY <3>1, <3>3 DEF Lawful, KeepsBut
    <3>5. f = e
      BY <2>1, <3>4, PruneShape
    <3> QED BY <3>3, <3>5
  <2>3. CASE Environment
    BY <2>1, <2>3, EnvironmentQuiet DEF Holder, Holders
  <2> QED BY <2>2, <2>3 DEF Next
<1> QED BY <1>1, LeaseInvariance, PTL DEF Spec, LiveHolderNeverEvicted

\* A paused model is given up only when every holder that stays is leaving too.
THEOREM PausedStayPaused == Spec => PausedUntilLastHolder
<1>1. LInv /\ [Next]_vars =>
        [\A m \in Models :
           m \in st.paused /\ m \notin st'.paused /\ ~Repair =>
             \A e \in Holders : Holder(st', e.seq) =>
               \E g \in Granted(st') : g.seq = e.seq /\ g.releasing]_vars
  <2> SUFFICES ASSUME LInv, Next, NEW m \in Models,
                      m \in st.paused, m \notin st'.paused, ~Repair,
                      NEW e \in Holders, Holder(st', e.seq)
               PROVE  \E g \in Granted(st') : g.seq = e.seq /\ g.releasing
    BY DEF vars
  <2>1. e \in st.entries /\ e.state = "granted" /\ Good(st)
    BY DEF Holders, Granted, LInv, IInv
  <2>2. CASE Operation
    <3>1. PICK q : Lawful(q)
      BY <2>2, OperationLawful
    <3>2. e.seq # st.seq + 1
      BY <2>1, PruneShape
    <3>3. PICK f \in Prune(st).entries : f.seq = e.seq
      BY <3>1, <3>2 DEF Lawful, Track, Holder, Granted
    <3>4. f = e
      BY <2>1, <3>3, PruneShape
    <3>5. e \in Granted(Prune(st)) /\ Prune(st).paused = st.paused
      BY <2>1, <3>3, <3>4 DEF Prune, Granted, Good, StateOK
    <3> QED BY <3>1, <3>5 DEF Lawful, Leaving
  <2>3. CASE Environment
    BY <2>3, EnvironmentQuiet
  <2> QED BY <2>2, <2>3 DEF Next
<1> QED BY <1>1, LeaseInvariance, PTL DEF Spec, PausedUntilLastHolder

\* Between the two calls of a release the card is not granted, and models are resumed
\* only when the last holder is leaving.
THEOREM ReleaseTakesTwoCalls == Spec => ReleaseInTwoCalls
<1>1. NoGrantWhileReleasing /\ PausedUntilLastHolder => ReleaseInTwoCalls
  BY DEF ReleaseInTwoCalls
<1> QED BY <1>1, GrantsWaitForReleasing, PausedStayPaused

-----------------------------------------------------------------------------
(* Starvation. *)

\* Whoever came first has waited at least as long.
Ordered(s) == \A e, f \in Queued(s) : e.seq < f.seq => f.since <= e.since

LEMMA OrderedStays ==
  ASSUME LInv, Ordered(st), Next
  PROVE  Ordered(st')
<1>1. Good(st)
  BY DEF LInv, IInv
<1>2. CASE Operation
  <2>1. Track(st')
    BY <1>2, OperationLawful DEF Lawful
  <2>2. IInv'
    BY <1>2, OperationGood DEF LInv
  <2>3. \A g \in st'.entries : g.seq \in Nat /\ g.since \in Nat
    BY <2>2 DEF IInv, Good, StateOK, Entry
  <2> SUFFICES ASSUME NEW g \in Queued(st'), NEW h \in Queued(st'), g.seq < h.seq
               PROVE  h.since <= g.since
    BY DEF Ordered
  <2>4. g \in st'.entries /\ h \in st'.entries
    BY DEF Queued
  <2>5. CASE h.seq = st.seq + 1
    BY <2>1, <2>3, <2>4, <2>5 DEF Track
  <2>6. CASE h.seq # st.seq + 1
    <3>1. PICK f \in st.entries : f.seq = h.seq
      BY <1>1, <2>1, <2>4, <2>6, PruneShape DEF Track
    <3>2. g.seq # st.seq + 1
      BY <1>1, <2>3, <2>4, <3>1, PruneShape
    <3>3. PICK e \in st.entries : e.seq = g.seq
      BY <1>1, <2>1, <2>4, <3>2, PruneShape DEF Track
    <3>4. /\ e \in Queued(st) /\ f \in Queued(st)
          /\ g.since = e.since /\ h.since = f.since
      BY <2>1, <3>1, <3>3 DEF Track, Queued
    <3> QED BY <3>1, <3>3, <3>4 DEF Ordered
  <2> QED BY <2>5, <2>6
<1>3. CASE Tick
  <2>1. StateOK(st) /\ st' = [st EXCEPT !.entries = {Aged(e) : e \in st.entries}]
    BY <1>1, <1>3 DEF Good, Tick
  <2>2. st'.entries = {Aged(e) : e \in st.entries}
    BY <2>1 DEF StateOK
  <2>3. \A e \in st.entries :
          /\ Aged(e).seq = e.seq /\ Aged(e).state = e.state
          /\ e.state = "queued" => Aged(e).since = Capped(e.since + 1, MaxAge)
          /\ e.since \in Nat
    BY <2>1 DEF StateOK, Entry, Aged
  <2> SUFFICES ASSUME NEW e \in st.entries, NEW f \in st.entries,
                      e.state = "queued", f.state = "queued", e.seq < f.seq
               PROVE  Capped(f.since + 1, MaxAge) <= Capped(e.since + 1, MaxAge)
    BY <2>2, <2>3 DEF Ordered, Queued
  <2>4. f.since <= e.since
    BY DEF Ordered, Queued
  <2> QED BY <2>3, <2>4, LeaseAssumption DEF Capped
<1>4. CASE (\E p \in Procs : Die(p)) \/ Damage
  BY <1>4 DEF Die, Damage
<1>5. CASE Repair
  BY <1>5 DEF Repair, EmptyState, Ordered, Queued
<1> QED BY <1>2, <1>3, <1>4, <1>5 DEF Next, Environment

\* A waiter that has been promoted as far as it goes comes before every later
\* arrival that is not interactive.
LEMMA PromotedFirst ==
  ASSUME NEW e \in Entry, NEW f \in Entry, Before(e, f), f.seq < e.seq, e.since <= f.since,
         f.since >= 4 * StarveT, e.req.cls # "legacy", f.req.cls # "legacy"
  PROVE  e.req.cls = "P0"
<1>1. /\ e.since \in Nat /\ f.since \in Nat /\ e.seq \in Nat /\ f.seq \in Nat
      /\ e.req.cls \in Classes /\ f.req.cls \in Classes
  BY LeaseAssumption DEF Entry, Request
<1>2. Aging * e.since \in Nat /\ Aging * f.since \in Nat /\ Aging * e.since <= Aging * f.since
  <2>1. Aging \in Nat
    BY LeaseAssumption
  <2> DEFINE d == f.since - e.since
  <2>2. d \in Nat /\ f.since = e.since + d
    BY <1>1
  <2>3. Aging * f.since = Aging * e.since + Aging * d
    BY <1>1, <2>1, <2>2
  <2>4. Aging * e.since \in Nat /\ Aging * d \in Nat
    BY <1>1, <2>1, <2>2
  <2> QED BY <2>3, <2>4
<1>3. f.since \div StarveT >= 4
  BY <1>1, LeaseAssumption
<1>4. e.since \div StarveT \in Nat /\ f.since \div StarveT \in Nat
  BY <1>1, LeaseAssumption
<1>5. LevelOf[f.req.cls] \in 1 .. 6 /\ LevelOf[e.req.cls] \in 1 .. 6
  BY <1>1 DEF LevelOf, Classes
<1>6. PromotedLevel(f) \in 1 .. 2
  BY <1>3, <1>4, <1>5 DEF PromotedLevel
<1>7. Eff(f) >= 80000 /\ (Eff(f) >= 80000 + Aging * f.since \/ Eff(f) >= 99999)
  BY <1>2, <1>6 DEF Eff, Points, Capped
<1> SUFFICES ASSUME e.req.cls # "P0" PROVE FALSE
  OBVIOUS
<1>8. PromotedLevel(e) \in 2 .. 6
  BY <1>4, <1>5 DEF PromotedLevel
<1>9. CASE PromotedLevel(e) = 2
  <2>1. Eff(e) <= 80000 + Aging * e.since /\ Eff(e) <= 99999 /\ Eff(e) \in Int
    BY <1>2, <1>9 DEF Eff, Points, Capped
  <2>2. Eff(e) <= Eff(f) /\ Eff(f) \in Int
    BY <1>2, <1>7, <2>1, EffInt
  <2> QED BY <1>1, <2>1, <2>2 DEF Before
<1>10. CASE PromotedLevel(e) \in 3 .. 6
  <2>1. Eff(e) <= 79999 /\ Eff(e) \in Int
    BY <1>2, <1>10 DEF Eff, Points, Capped
  <2>2. Eff(f) \in Int
    BY EffInt
  <2> QED BY <1>7, <2>1, <2>2 DEF Before
<1> QED BY <1>8, <1>9, <1>10

\* No waiter starves: once promoted as far as it goes it is passed by interactive
\* requests only, and by who came before it.
THEOREM StarvedAreServedFirst == Spec => StarvedPassedOnlyByInteractive
<1>1. Init => LInv /\ Ordered(st)
  <2> SUFFICES ASSUME Init PROVE LInv /\ Ordered(st)
    OBVIOUS
  <2>1. LInv
    BY InitGood, EmptySound DEF Init, LInv
  <2>2. Queued(st) = {}
    BY DEF Init, EmptyState, Queued
  <2> QED BY <2>1, <2>2 DEF Ordered
<1>2. LInv /\ LInv' /\ Ordered(st) /\ [Next]_vars => Ordered(st)'
  <2> SUFFICES ASSUME LInv, Ordered(st), [Next]_vars PROVE Ordered(st)'
    OBVIOUS
  <2>1. CASE Next
    BY <2>1, OrderedStays DEF Ordered, Queued
  <2>2. CASE UNCHANGED vars
    BY <2>2 DEF vars, Ordered, Queued
  <2> QED BY <2>1, <2>2
<1>3. LInv /\ Ordered(st) /\ [Next]_vars =>
        [\A e, f \in Queued(st) :
           /\ Passes(e) /\ Waiting(st', f.seq)
           /\ f.since >= 4 * StarveT
           /\ "legacy" \notin {e.req.cls, f.req.cls}
           => e.req.cls = "P0" \/ e.seq < f.seq]_vars
  <2> SUFFICES ASSUME LInv, Ordered(st), Next, NEW e \in Queued(st), NEW f \in Queued(st),
                      Passes(e), Waiting(st', f.seq), f.since >= 4 * StarveT,
                      "legacy" \notin {e.req.cls, f.req.cls}, ~(e.seq < f.seq)
               PROVE  e.req.cls = "P0"
    BY DEF vars
  <2>1. Before(e, f)
    <3>1. CASE Operation
      BY <3>1, OperationLawful DEF Lawful, Track, Passes
    <3>2. CASE Environment
      BY <3>2, EnvironmentQuiet, WaiterHoldsNothing DEF LInv, IInv, Passes, Holder
    <3> QED BY <3>1, <3>2 DEF Next
  <2>2. e \in Entry /\ f \in Entry
    BY DEF LInv, IInv, Good, StateOK, Queued
  <2>3. e.seq # f.seq
    <3>1. e = f => FALSE
      BY <2>1, <2>2, BeforeOrder
    <3> QED BY <3>1 DEF LInv, IInv, Good, StateOK, Queued
  <2>4. f.seq < e.seq
    BY <2>2, <2>3 DEF Entry
  <2>5. e.since <= f.since
    BY <2>4 DEF Ordered
  <2> QED BY <2>1, <2>2, <2>4, <2>5, PromotedFirst
<1> QED BY <1>1, <1>2, <1>3, LeaseInvariance, PTL DEF Spec, StarvedPassedOnlyByInteractive

-----------------------------------------------------------------------------
(***************************************************************************)
(* That the state file implements the atomic store, and that the file names *)
(* the holder, for any clients, deaths, full disks and damages, as long as  *)
(* at most one operator runs `repair`.                                      *)
(*                                                                          *)
(* A transaction is atomic because nobody else has the lock between its     *)
(* read and its rename, and because the one writer that takes no lock is an *)
(* operator who has found the file damaged, which lets nobody past the      *)
(* read.  HolderRecorded needs what a transaction may do to the record of   *)
(* another client that holds the card: nothing.                             *)
(***************************************************************************)

OneOperator == \A a, b \in Operators : a = b

\* A state that a transaction has left: names and tickets are not used twice, and
\* one entry at most is granted.
FileSound(s) ==
  /\ s \in Store!States
  /\ \A e \in s.entries : e.seq <= s.seq
  /\ \A e, f \in s.entries : e.name = f.name \/ e.seq = f.seq => e = f
  /\ \A e, f \in Store!Granted(s) : e = f

Places ==
  {"idle", "lock", "read", "write", "rename", "unlock", "poll", "leased", "unleased", "done", "failed",
   "dead"}

Shape ==
  /\ file = Damaged \/ FileSound(file)
  /\ living \subseteq Clients /\ harms \in Nat /\ lock \in Clients \cup {Nobody}
  /\ pc \in [Clients -> Places] /\ copy \in [Clients -> Store!States]
  /\ call \in [Clients -> {"ask", "release"}]
  /\ token \in [Clients -> Nat] /\ era \in [Clients -> Nat]
  /\ op \in [Operators -> {"idle", "found"}]

\* Who is in a transaction has the lock, and is alive.
Locked ==
  \A p \in Clients :
    /\ pc[p] = "dead" <=> p \notin living
    /\ pc[p] \in {"read", "write", "rename", "unlock"} => lock = p

Found == \A o \in Operators : op[o] = "found" => file = Damaged

\* What p is about to write is an operation of p on the file as it is, with nobody
\* pruned who lives or holds the card.
IsOperation(p) ==
  \E gone \in SUBSET {q \in Clients : q \notin living \/ Store!TokenIn(file, q) = 0} :
    \E body \in Store!Bodies(Store!Prune(file, gone), p) : copy[p] = Store!Admit(body)

\* It keeps the grants of the others.
KeepsGrants(p) ==
  \A e \in Store!Granted(file) : e.name # p /\ pc[e.name] = "leased" => e \in copy[p].entries

Unrenamed ==
  \A p \in Clients : pc[p] \in {"write", "rename"} =>
    file # Damaged /\ FileSound(copy[p]) /\ IsOperation(p) /\ KeepsGrants(p)

\* Since the file was damaged nobody has written it; what was written since is there
\* until the lock is dropped, and as far as a holder goes until it releases.
Eras ==
  \A p \in Clients :
    /\ era[p] <= harms /\ (file = Damaged => era[p] < harms)
    /\ pc[p] = "unlock" /\ era[p] = harms => file = copy[p]
    /\ pc[p] = "leased" => token[p] # 0 /\ (era[p] = harms => Store!TokenIn(file, p) = token[p])

FileInv == Shape /\ Locked /\ Found /\ Unrenamed /\ Eras

-----------------------------------------------------------------------------
(* What the operations do to a state. *)

LEMMA TokenOfEntry ==
  ASSUME NEW s, FileSound(s), NEW e \in s.entries
  PROVE  Store!TokenIn(s, e.name) = e.token
<1>1. Store!Of(s, e.name) = {e}
  BY DEF Store!Of, FileSound
<1> QED BY <1>1 DEF Store!TokenIn

LEMMA TokenIsOfAnEntry ==
  ASSUME NEW s, FileSound(s), NEW p, Store!TokenIn(s, p) # 0
  PROVE  \E e \in Store!Granted(s) : e.name = p /\ e.token = Store!TokenIn(s, p)
<1>1. PICK e \in Store!Of(s, p) : TRUE
  BY DEF Store!TokenIn
<1>2. e \in s.entries /\ e.name = p
  BY <1>1 DEF Store!Of
<1> QED BY <1>2, TokenOfEntry DEF Store!Granted

LEMMA TokenIsNat ==
  ASSUME NEW s \in Store!States, NEW p
  PROVE  Store!TokenIn(s, p) \in Nat
<1>1. CASE Store!Of(s, p) = {}
  BY <1>1 DEF Store!TokenIn
<1>2. CASE Store!Of(s, p) # {}
  <2>1. (CHOOSE e \in Store!Of(s, p) : TRUE) \in Store!Of(s, p)
    BY <1>2
  <2> QED BY <1>2, <2>1 DEF Store!TokenIn, Store!Of, Store!States, Store!Entries
<1> QED BY <1>1, <1>2

LEMMA PruneIsSound ==
  ASSUME NEW s, FileSound(s), NEW gone
  PROVE  /\ FileSound(Store!Prune(s, gone))
         /\ \A e \in Store!Granted(s) : e.name \notin gone => e \in Store!Granted(Store!Prune(s, gone))
<1>1. Store!Prune(s, gone).entries = {e \in s.entries : e.name \notin gone}
  BY DEF Store!Prune, FileSound, Store!States
<1>2. Store!Prune(s, gone) \in Store!States /\ Store!Prune(s, gone).seq = s.seq
  BY DEF Store!Prune, FileSound, Store!States
<1> QED BY <1>1, <1>2 DEF FileSound, Store!Granted

LEMMA AdmitIsSound ==
  ASSUME NEW s, FileSound(s)
  PROVE  FileSound(Store!Admit(s)) /\ Store!Granted(s) \subseteq Store!Granted(Store!Admit(s))
<1>1. CASE s.entries = {} \/ Store!Granted(s) # {}
  BY <1>1 DEF Store!Admit
<1>2. CASE s.entries # {} /\ Store!Granted(s) = {}
  <2> DEFINE t == Store!Admit(s)
             On(e) == IF Store!Ahead(s, e) THEN [e EXCEPT !.token = s.token + 1] ELSE e
  <2>1. s \in Store!States /\ s.token \in Nat
    BY DEF FileSound, Store!States
  <2>2. t = [s EXCEPT !.token = s.token + 1, !.entries = {On(e) : e \in s.entries}]
    BY <1>2 DEF Store!Admit
  <2>3. ASSUME NEW e \in s.entries
        PROVE  /\ On(e) \in Store!Entries /\ On(e).name = e.name /\ On(e).seq = e.seq
               /\ On(e).token # 0 => Store!Ahead(s, e)
    BY <1>2, <2>1, <2>3 DEF Store!States, Store!Entries, Store!Granted
  <2> HIDE DEF On
  <2>4. t.seq = s.seq /\ t.entries = {On(e) : e \in s.entries} /\ t.token = s.token + 1
    BY <2>1, <2>2 DEF Store!States
  <2>5. t \in Store!States
    <3>1. t = [token |-> t.token, seq |-> t.seq, entries |-> t.entries]
      BY <2>1, <2>2 DEF Store!States
    <3>2. t.entries \subseteq Store!Entries
      BY <2>3, <2>4
    <3> QED BY <2>1, <2>4, <3>1, <3>2 DEF Store!States
  <2>6. \A e \in t.entries : e.seq <= t.seq
    BY <2>3, <2>4 DEF FileSound
  <2>7. \A e, f \in t.entries : e.name = f.name \/ e.seq = f.seq => e = f
    BY <2>3, <2>4 DEF FileSound
  <2>8. ASSUME NEW e \in s.entries, NEW f \in s.entries, On(e).token # 0, On(f).token # 0
        PROVE  e = f
    <3>1. e.seq <= f.seq /\ f.seq <= e.seq
      BY <2>3, <2>8 DEF Store!Ahead
    <3>2. e.seq \in Nat /\ f.seq \in Nat
      BY <2>1 DEF Store!States, Store!Entries
    <3> QED BY <3>1, <3>2 DEF FileSound
  <2>9. \A e, f \in Store!Granted(t) : e = f
    BY <2>4, <2>8 DEF Store!Granted
  <2> QED BY <1>2, <2>5, <2>6, <2>7, <2>9 DEF FileSound
<1> QED BY <1>1, <1>2

LEMMA QueuedIsSound ==
  ASSUME NEW s, FileSound(s), NEW p \in Clients
  PROVE  FileSound(Store!Queued(s, p)) /\ Store!Granted(s) \subseteq Store!Granted(Store!Queued(s, p))
<1>1. CASE Store!Of(s, p) # {}
  BY <1>1 DEF Store!Queued
<1>2. CASE Store!Of(s, p) = {}
  <2> DEFINE new == [name |-> p, seq |-> s.seq + 1, token |-> 0]
             t == Store!Queued(s, p)
  <2>1. s \in Store!States /\ s.seq \in Nat
    BY DEF FileSound, Store!States
  <2>2. t = [s EXCEPT !.seq = s.seq + 1, !.entries = s.entries \cup {new}]
    BY <1>2 DEF Store!Queued
  <2>3. t.seq = s.seq + 1 /\ t.entries = s.entries \cup {new} /\ t \in Store!States
    <3>1. new \in Store!Entries /\ s.entries \subseteq Store!Entries
      BY <2>1 DEF Store!States, Store!Entries
    <3>2. t = [token |-> s.token, seq |-> s.seq + 1, entries |-> s.entries \cup {new}]
      BY <2>1, <2>2 DEF Store!States
    <3> QED BY <2>1, <3>1, <3>2 DEF Store!States
  <2>4. \A e \in s.entries : e.name # p /\ e.seq \in Nat /\ e.seq <= s.seq
    BY <1>2, <2>1 DEF Store!Of, FileSound, Store!States, Store!Entries
  <2> QED BY <2>1, <2>3, <2>4 DEF FileSound, Store!Granted
<1> QED BY <1>1, <1>2

LEMMA AskIsSound ==
  ASSUME NEW s, FileSound(s), NEW p \in Clients, NEW wait
  PROVE  /\ FileSound(Store!Ask(s, p, wait))
         /\ \A e \in Store!Granted(s) : e.name # p => e \in Store!Granted(Store!Ask(s, p, wait))
<1> DEFINE in == Store!Admit(Store!Queued(s, p))
<1>1. FileSound(in) /\ Store!Granted(s) \subseteq Store!Granted(in)
  BY QueuedIsSound, AdmitIsSound
<1>2. /\ FileSound(Store!Prune(in, {p}))
      /\ \A e \in Store!Granted(in) : e.name # p => e \in Store!Granted(Store!Prune(in, {p}))
  BY <1>1, PruneIsSound
<1>3. Store!Ask(s, p, wait) \in {in, Store!Prune(in, {p})}
  BY DEF Store!Ask
<1> QED BY <1>1, <1>2, <1>3

LEMMA LeaveIsSound ==
  ASSUME NEW s, FileSound(s), NEW p \in Clients, NEW t
  PROVE  /\ FileSound(Store!Leave(s, p, t))
         /\ \A e \in Store!Granted(s) : e.name # p => e \in Store!Granted(Store!Leave(s, p, t))
BY PruneIsSound DEF Store!Leave

-----------------------------------------------------------------------------
(* The invariant. *)

LEMMA EmptyIsSound == FileSound(Store!EmptyStore)
BY DEF FileSound, Store!EmptyStore, Store!States, Store!Granted

LEMMA InitIInv == FInit => FileInv
<1> SUFFICES ASSUME FInit PROVE FileInv
  OBVIOUS
<1>1. Shape
  <2>1. FileSound(file) /\ file \in Store!States
    BY EmptyIsSound DEF FInit, FileSound
  <2> QED BY <2>1 DEF FInit, Shape, Places
<1>2. Locked /\ Found /\ Unrenamed
  BY DEF FInit, Locked, Found, Unrenamed
<1>3. file # Damaged
  BY EmptyIsSound, FileAssumption DEF FInit, FileSound
<1>4. Eras
  <2>1. \A p \in Clients : era[p] = 0 /\ pc[p] = "idle" /\ harms = 0
    BY DEF FInit
  <2>2. ASSUME NEW p \in Clients
        PROVE  /\ era[p] <= harms /\ (file = Damaged => era[p] < harms)
               /\ pc[p] # "unlock" /\ pc[p] # "leased"
    BY <1>3, <2>1
  <2> QED BY <2>2 DEF Eras
<1> QED BY <1>1, <1>2, <1>4 DEF FileInv

LEMMA StepShape == ASSUME FileInv, [FNext]_fvars PROVE Shape'
<1> USE DEF FileInv, Shape, Places
<1>1. ASSUME NEW p \in Clients, Begin(p) \/ TakeLock(p) \/ ReadDamaged(p) \/ DiskFull(p)
      PROVE  Shape'
  BY <1>1 DEF Begin, TakeLock, ReadDamaged, DiskFull, Goto, cvars
<1>2. ASSUME NEW p \in Clients, Poll(p) \/ EndUnleased(p) \/ FRelease(p)
      PROVE  Shape'
  BY <1>2 DEF Poll, FRelease, EndUnleased, Goto, cvars
<1>3. ASSUME NEW p \in Clients, Crash(p)
      PROVE  Shape'
  <2>1. lock' \in Clients \cup {Nobody} /\ living' \subseteq Clients
    BY <1>3 DEF Crash
  <2> QED BY <1>3, <2>1 DEF Crash, Goto, cvars
<1>4. ASSUME NEW p \in Clients, Read(p)
      PROVE  Shape' /\ FileSound(copy[p])'
  <2>1. PICK late \in SUBSET {q \in Clients : pc[q] = "failed" /\ Store!TokenIn(file, q) = 0} :
          LET kept == Store!Prune(file, late \cup Gone)
          IN  copy' = [copy EXCEPT ![p] = Store!Admit(
                IF call[p] = "ask" THEN Store!Ask(kept, p, p \in Patient)
                                   ELSE Store!Leave(kept, p, token[p]))]
    BY <1>4 DEF Read
  <2> DEFINE kept == Store!Prune(file, late \cup Gone)
             body == IF call[p] = "ask" THEN Store!Ask(kept, p, p \in Patient)
                                        ELSE Store!Leave(kept, p, token[p])
  <2>2. FileSound(kept)
    BY <1>4, PruneIsSound DEF Read
  <2> HIDE DEF kept
  <2>3. FileSound(body)
    <3>1. FileSound(Store!Ask(kept, p, p \in Patient))
      BY <2>2, AskIsSound
    <3>2. FileSound(Store!Leave(kept, p, token[p]))
      BY <2>2, LeaveIsSound
    <3> QED BY <3>1, <3>2
  <2>4. FileSound(Store!Admit(body))
    BY <2>3, AdmitIsSound
  <2>5. copy' = [copy EXCEPT ![p] = Store!Admit(body)]
    BY <2>1 DEF kept
  <2> HIDE DEF body
  <2>6. copy' \in [Clients -> Store!States] /\ copy'[p] = Store!Admit(body)
    BY <2>4, <2>5 DEF FileSound
  <2>7. FileSound(copy[p])'
    BY <2>4, <2>6 DEF FileSound
  <2> QED BY <1>4, <2>6, <2>7 DEF Read, Goto
<1>5. ASSUME NEW p \in Clients, WriteTemp(p)
      PROVE  Shape'
  BY <1>5 DEF WriteTemp, Written, Goto, cvars
<1>6. ASSUME NEW p \in Clients, Rename(p)
      PROVE  Shape'
  <2>1. FileSound(file)'
    BY <1>6 DEF Rename, Unrenamed, FileSound
  <2> QED BY <1>6, <2>1 DEF Rename, Goto
<1>7. ASSUME NEW p \in Clients, Unlock(p)
      PROVE  Shape'
  <2>1. Store!TokenIn(copy[p], p) \in Nat
    BY TokenIsNat
  <2>2. token' \in [Clients -> Nat] /\ pc' \in [Clients -> Places]
    BY <1>7, <2>1 DEF Unlock, Goto
  <2> QED BY <1>7, <2>2 DEF Unlock
<1>8. CASE Harm
  BY <1>8 DEF Harm, cvars
<1>9. ASSUME NEW o \in Operators, RepairFound(o) \/ RepairRename(o)
      PROVE  Shape'
  <2>1. FileSound(file)' \/ file' = Damaged
    BY <1>9, EmptyIsSound DEF RepairFound, RepairRename, FileSound
  <2> QED BY <1>9, <2>1 DEF RepairFound, RepairRename, cvars
<1>10. CASE UNCHANGED fvars
  BY <1>10 DEF fvars, cvars, FileSound
<1> QED
  BY <1>1, <1>2, <1>3, <1>4, <1>5, <1>6, <1>7, <1>8, <1>9, <1>10 DEF FNext, Go

LEMMA StepLocked == ASSUME FileInv, [FNext]_fvars PROVE Locked'
<1> USE DEF FileInv, Shape, Locked, Goto
<1>1. ASSUME NEW p \in Clients,
             Begin(p) \/ TakeLock(p) \/ ReadDamaged(p) \/ DiskFull(p) \/ FRelease(p) \/ Crash(p)
      PROVE  Locked'
  BY <1>1, FileAssumption DEF Begin, TakeLock, MayLock, ReadDamaged, DiskFull, FRelease, Crash
<1>2. ASSUME NEW p \in Clients, Go(p)
      PROVE  Locked'
  BY <1>2 DEF Go, Read, ReadDamaged, WriteTemp, Rename, Unlock, Poll, EndUnleased
<1>3. CASE Harm \/ \E o \in Operators : RepairFound(o) \/ RepairRename(o)
  BY <1>3 DEF Harm, RepairFound, RepairRename
<1>4. CASE UNCHANGED fvars
  BY <1>4 DEF fvars
<1> QED BY <1>1, <1>2, <1>3, <1>4 DEF FNext

LEMMA StepFound == ASSUME OneOperator, FileInv, [FNext]_fvars PROVE Found'
<1> USE DEF FileInv, Found
<1>1. ASSUME NEW p \in Clients, Begin(p) \/ TakeLock(p) \/ Go(p) \/ DiskFull(p) \/ FRelease(p) \/ Crash(p)
      PROVE  Found'
  <2>1. CASE Rename(p)
    <3>1. file # Damaged
      BY <2>1 DEF Rename, Unrenamed
    <3> QED BY <2>1, <3>1 DEF Rename
  <2>2. CASE file' = file /\ op' = op
    BY <2>2
  <2> QED
    BY <1>1, <2>1, <2>2 DEF Begin, TakeLock, Go, Read, ReadDamaged, WriteTemp, Written, Unlock, Poll,
                            EndUnleased, DiskFull, FRelease, Crash
<1>2. CASE Harm
  BY <1>2 DEF Harm
<1>3. ASSUME NEW o \in Operators, RepairFound(o) \/ RepairRename(o)
      PROVE  Found'
  BY <1>3 DEF RepairFound, RepairRename, OneOperator, Shape
<1>4. CASE UNCHANGED fvars
  BY <1>4 DEF fvars
<1> QED BY <1>1, <1>2, <1>3, <1>4 DEF FNext

\* What a step leaves alone keeps what p is about to write an operation.
LEMMA PendingStays ==
  ASSUME FileInv, NEW p \in Clients, pc[p] \in {"write", "rename"}, file' = file, copy'[p] = copy[p],
         living' \subseteq living, \A q \in Clients : pc'[q] = "leased" => pc[q] = "leased"
  PROVE  (file # Damaged /\ FileSound(copy[p]) /\ IsOperation(p) /\ KeepsGrants(p))'
<1>1. file # Damaged /\ FileSound(copy[p]) /\ IsOperation(p) /\ KeepsGrants(p)
  BY DEF FileInv, Unrenamed
<1>2. IsOperation(p)'
  <2>1. PICK gone \in SUBSET {q \in Clients : q \notin living \/ Store!TokenIn(file, q) = 0} :
          \E body \in Store!Bodies(Store!Prune(file, gone), p) : copy[p] = Store!Admit(body)
    BY <1>1 DEF IsOperation
  <2>2. gone \in SUBSET {q \in Clients : q \notin living' \/ Store!TokenIn(file', q) = 0}
    OBVIOUS
  <2> QED BY <2>1, <2>2 DEF IsOperation
<1>3. KeepsGrants(p)'
  BY <1>1 DEF KeepsGrants, Store!Granted, FileInv, Shape, FileSound, Store!States, Store!Entries
<1> QED BY <1>1, <1>2, <1>3

LEMMA ReadPends ==
  ASSUME FileInv, NEW p \in Clients, Read(p)
  PROVE  (file # Damaged /\ FileSound(copy[p]) /\ IsOperation(p) /\ KeepsGrants(p))'
<1> USE DEF FileInv, Shape
<1>1. PICK late \in SUBSET {q \in Clients : pc[q] = "failed" /\ Store!TokenIn(file, q) = 0} :
        LET kept == Store!Prune(file, late \cup Gone)
        IN  copy' = [copy EXCEPT ![p] = Store!Admit(
              IF call[p] = "ask" THEN Store!Ask(kept, p, p \in Patient)
                                 ELSE Store!Leave(kept, p, token[p]))]
  BY DEF Read
<1> DEFINE gone == late \cup Gone
           kept == Store!Prune(file, gone)
           body == IF call[p] = "ask" THEN Store!Ask(kept, p, p \in Patient)
                                      ELSE Store!Leave(kept, p, token[p])
<1>2. /\ file # Damaged /\ FileSound(file) /\ file' = file /\ living' = living
      /\ \A q \in Clients : pc'[q] = "leased" => pc[q] = "leased"
  BY DEF Read, Goto
<1>3. copy'[p] = Store!Admit(body)
  BY <1>1
<1>4. gone \in SUBSET {q \in Clients : q \notin living \/ Store!TokenIn(file, q) = 0}
  BY DEF Gone
<1>5. \A e \in Store!Granted(file) : pc[e.name] = "leased" => e.name \notin gone
  BY DEF Gone, Locked
<1> HIDE DEF gone
<1>6. FileSound(kept) /\ \A e \in Store!Granted(file) : e.name \notin gone => e \in Store!Granted(kept)
  BY <1>2, PruneIsSound
<1> HIDE DEF kept
<1>7. /\ FileSound(body) /\ body \in Store!Bodies(kept, p)
      /\ \A e \in Store!Granted(kept) : e.name # p => e \in Store!Granted(body)
  <2> DEFINE asked == Store!Ask(kept, p, p \in Patient)
             left == Store!Leave(kept, p, token[p])
  <2>1. FileSound(asked) /\ \A e \in Store!Granted(kept) : e.name # p => e \in Store!Granted(asked)
    BY <1>6, AskIsSound
  <2>2. FileSound(left) /\ \A e \in Store!Granted(kept) : e.name # p => e \in Store!Granted(left)
    BY <1>6, LeaveIsSound
  <2>3. asked \in {Store!Ask(kept, p, TRUE), Store!Ask(kept, p, FALSE)}
    BY DEF Store!Ask
  <2>4. left \in {Store!Prune(kept, {p}), kept}
    BY DEF Store!Leave
  <2>5. body = asked \/ body = left
    OBVIOUS
  <2> QED BY <2>1, <2>2, <2>3, <2>4, <2>5 DEF Store!Bodies
<1> HIDE DEF body
<1>8. FileSound(Store!Admit(body)) /\ Store!Granted(body) \subseteq Store!Granted(Store!Admit(body))
  BY <1>7, AdmitIsSound
<1>9. (file # Damaged /\ FileSound(copy[p]))'
  BY <1>2, <1>3, <1>8 DEF FileSound
<1>10. IsOperation(p)'
  BY <1>2, <1>3, <1>4, <1>7 DEF IsOperation, kept
<1>11. KeepsGrants(p)'
  <2>1. ASSUME NEW e \in Store!Granted(file), e.name # p, pc[e.name] = "leased"
        PROVE  e \in Store!Admit(body).entries
    BY <1>5, <1>6, <1>7, <1>8, <2>1 DEF Store!Granted
  <2>2. \A e \in Store!Granted(file) : e.name \in Clients
    BY <1>2 DEF FileSound, Store!Granted, Store!States, Store!Entries
  <2> QED BY <1>2, <1>3, <2>1, <2>2 DEF KeepsGrants, Store!Granted
<1> QED BY <1>9, <1>10, <1>11

LEMMA StepPending == ASSUME FileInv, [FNext]_fvars PROVE Unrenamed'
<1> SUFFICES ASSUME NEW p \in Clients, pc'[p] \in {"write", "rename"}
             PROVE  (file # Damaged /\ FileSound(copy[p]) /\ IsOperation(p) /\ KeepsGrants(p))'
  BY DEF Unrenamed
<1> USE DEF FileInv, Shape, Goto
<1>1. ASSUME NEW q \in Clients, Begin(q) \/ TakeLock(q) \/ ReadDamaged(q) \/ Poll(q)
                                \/ EndUnleased(q) \/ DiskFull(q) \/ FRelease(q) \/ Crash(q)
      PROVE  (file # Damaged /\ FileSound(copy[p]) /\ IsOperation(p) /\ KeepsGrants(p))'
  <2>1. /\ file' = file /\ copy' = copy /\ living' \subseteq living
        /\ \A r \in Clients : pc'[r] = "leased" => pc[r] = "leased"
        /\ pc[p] \in {"write", "rename"}
    BY <1>1 DEF Begin, TakeLock, ReadDamaged, Poll, EndUnleased, DiskFull, FRelease, Crash, cvars
  <2> QED BY <2>1, PendingStays
<1>2. ASSUME NEW q \in Clients, Read(q)
      PROVE  (file # Damaged /\ FileSound(copy[p]) /\ IsOperation(p) /\ KeepsGrants(p))'
  <2>1. p = q
    BY <1>2 DEF Read, Locked
  <2> QED BY <1>2, <2>1, ReadPends
<1>3. ASSUME NEW q \in Clients, WriteTemp(q)
      PROVE  (file # Damaged /\ FileSound(copy[p]) /\ IsOperation(p) /\ KeepsGrants(p))'
  <2>1. /\ file' = file /\ copy' = copy /\ living' = living
        /\ \A r \in Clients : pc'[r] = "leased" => pc[r] = "leased"
        /\ pc[p] \in {"write", "rename"}
    BY <1>3 DEF WriteTemp, Written, cvars
  <2> QED BY <2>1, PendingStays
<1>4. ASSUME NEW q \in Clients, Rename(q) \/ Unlock(q)
      PROVE  FALSE
  BY <1>4 DEF Rename, Unlock, Locked
<1>5. ~Harm
  BY DEF Harm
<1>6. ASSUME NEW o \in Operators, RepairFound(o) \/ RepairRename(o)
      PROVE  (file # Damaged /\ FileSound(copy[p]) /\ IsOperation(p) /\ KeepsGrants(p))'
  BY <1>6 DEF RepairFound, RepairRename, Found, Unrenamed
<1>7. CASE UNCHANGED fvars
  <2>1. file' = file /\ copy' = copy /\ living' = living /\ pc' = pc
    BY <1>7 DEF fvars, cvars
  <2> QED BY <2>1, PendingStays
<1> QED BY <1>1, <1>2, <1>3, <1>4, <1>5, <1>6, <1>7 DEF FNext, Go

LEMMA StepEras == ASSUME FileInv, [FNext]_fvars PROVE Eras'
<1> USE DEF FileInv, Shape, Goto
<1>1. ASSUME NEW p \in Clients, Begin(p) \/ TakeLock(p) \/ ReadDamaged(p) \/ WriteTemp(p) \/ Poll(p)
                                \/ EndUnleased(p) \/ DiskFull(p) \/ FRelease(p) \/ Crash(p)
      PROVE  Eras'
  <2>1. /\ file' = file /\ copy' = copy /\ era' = era /\ harms' = harms /\ token' = token
        /\ \A q \in Clients : pc'[q] \in {"unlock", "leased"} => pc[q] = pc'[q]
    BY <1>1 DEF Begin, TakeLock, ReadDamaged, WriteTemp, Written, Poll, EndUnleased, DiskFull, FRelease,
                Crash, cvars
  <2> QED BY <2>1 DEF Eras
<1>2. ASSUME NEW p \in Clients, Read(p)
      PROVE  Eras'
  <2>1. /\ file' = file /\ era' = era /\ harms' = harms /\ token' = token
        /\ \A q \in Clients : pc'[q] \in {"unlock", "leased"} => pc[q] = pc'[q] /\ copy'[q] = copy[q]
    BY <1>2 DEF Read
  <2> QED BY <2>1 DEF Eras
<1>3. ASSUME NEW p \in Clients, Rename(p)
      PROVE  Eras'
  <2>1. /\ file # Damaged /\ FileSound(copy[p]) /\ KeepsGrants(p) /\ FileSound(file)
        /\ file' = copy[p] /\ copy' = copy /\ harms' = harms /\ token' = token
        /\ era' = [era EXCEPT ![p] = harms] /\ pc' = [pc EXCEPT ![p] = "unlock"]
    BY <1>3 DEF Rename, Unrenamed
  <2>2. file' # Damaged
    BY <2>1, FileAssumption DEF FileSound
  <2> SUFFICES ASSUME NEW q \in Clients
               PROVE  /\ era'[q] <= harms'
                      /\ pc'[q] = "unlock" /\ era'[q] = harms' => file' = copy'[q]
                      /\ pc'[q] = "leased" =>
                           token'[q] # 0 /\ (era'[q] = harms' => Store!TokenIn(file', q) = token'[q])
    BY <2>2 DEF Eras
  <2>3. CASE q = p
    BY <2>1, <2>3
  <2>4. CASE q # p
    <3>1. pc'[q] = pc[q] /\ era'[q] = era[q] /\ pc[q] # "unlock"
      BY <1>3, <2>1, <2>4 DEF Rename, Locked
    <3>2. ASSUME pc[q] = "leased", era[q] = harms
          PROVE  Store!TokenIn(copy[p], q) = token[q]
      <4>1. Store!TokenIn(file, q) = token[q] /\ token[q] # 0
        BY <3>2 DEF Eras
      <4>2. PICK e \in Store!Granted(file) : e.name = q /\ e.token = token[q]
        BY <2>1, <4>1, TokenIsOfAnEntry
      <4>3. e \in copy[p].entries
        BY <2>1, <2>4, <3>2, <4>2 DEF KeepsGrants
      <4> QED BY <2>1, <4>2, <4>3, TokenOfEntry
    <3> QED BY <2>1, <3>1, <3>2 DEF Eras
  <2> QED BY <2>3, <2>4
<1>4. ASSUME NEW p \in Clients, Unlock(p)
      PROVE  Eras'
  <2> DEFINE t == Store!TokenIn(copy[p], p)
  <2>1. /\ file' = file /\ copy' = copy /\ era' = era /\ harms' = harms
        /\ \A q \in Clients \ {p} : pc'[q] = pc[q] /\ token'[q] = token[q]
        /\ pc'[p] # "unlock" /\ (pc'[p] = "leased" => t # 0 /\ token'[p] = t)
    BY <1>4 DEF Unlock
  <2>2. era[p] = harms => file = copy[p]
    BY <1>4 DEF Unlock, Eras
  <2> QED BY <2>1, <2>2 DEF Eras
<1>5. CASE Harm
  <2>1. harms' = harms + 1 /\ era' = era /\ token' = token /\ pc' = pc
    BY <1>5 DEF Harm, cvars
  <2>2. \A q \in Clients : era'[q] < harms'
    BY <2>1 DEF Eras
  <2>3. \A q \in Clients : pc'[q] = "leased" => token'[q] # 0
    BY <2>1 DEF Eras
  <2>4. \A q \in Clients : era'[q] \in Nat /\ harms' \in Nat
    BY <2>1
  <2> QED BY <2>2, <2>3, <2>4 DEF Eras
<1>6. ASSUME NEW o \in Operators, RepairFound(o) \/ RepairRename(o)
      PROVE  Eras'
  <2>1. /\ era' = era /\ harms' = harms /\ token' = token /\ pc' = pc /\ copy' = copy
        /\ file = Damaged \/ file' = file
    BY <1>6 DEF RepairFound, RepairRename, Found, cvars
  <2>2. CASE file = Damaged
    <3>1. \A q \in Clients : era'[q] < harms'
      BY <2>1, <2>2 DEF Eras
    <3>2. \A q \in Clients : pc'[q] = "leased" => token'[q] # 0
      BY <2>1 DEF Eras
    <3>3. \A q \in Clients : era'[q] \in Nat /\ harms' \in Nat
      BY <2>1
    <3> QED BY <3>1, <3>2, <3>3 DEF Eras
  <2>3. CASE file' = file
    BY <2>1, <2>3 DEF Eras
  <2> QED BY <2>1, <2>2, <2>3
<1>7. CASE UNCHANGED fvars
  BY <1>7 DEF fvars, cvars, Eras
<1> QED BY <1>1, <1>2, <1>3, <1>4, <1>5, <1>6, <1>7 DEF FNext, Go

-----------------------------------------------------------------------------
(* The theorems. *)

\* Whoever dies in a transaction, and whatever is damaged or repaired by one operator: only the holder
\* of the flock is between a read and a rename, and what it will write is one operation on the file.
THEOREM FileInvariance == ASSUME OneOperator PROVE FSpec => []FileInv
<1>1. FileInv /\ [FNext]_fvars => FileInv'
  BY StepShape, StepLocked, StepFound, StepPending, StepEras DEF FileInv
<1> QED BY <1>1, InitIInv, PTL DEF FSpec

\* A job granted since the last damage is the holder that the file names, with its token, and the only
\* such job.
THEOREM FileNamesTheHolder == ASSUME OneOperator PROVE FSpec => []HolderRecorded
<1>1. FileInv => HolderRecorded
  <2> SUFFICES ASSUME FileInv PROVE HolderRecorded
    OBVIOUS
  <2>1. \A p \in Since : Store!TokenIn(file, p) = token[p] /\ token[p] # 0 /\ file # Damaged
    <3> SUFFICES ASSUME NEW p \in Since
                 PROVE  Store!TokenIn(file, p) = token[p] /\ token[p] # 0 /\ file # Damaged
      OBVIOUS
    <3>1. p \in Clients /\ pc[p] = "leased" /\ era[p] = harms
      BY DEF Since
    <3>2. ~(era[p] < harms)
      BY <3>1 DEF FileInv, Shape
    <3> QED BY <3>1, <3>2 DEF FileInv, Eras
  <2>2. ASSUME NEW p \in Since, NEW q \in Since
        PROVE  p = q
    <3>1. FileSound(file)
      BY <2>1, <2>2 DEF FileInv, Shape
    <3>2. PICK e \in Store!Granted(file) : e.name = p
      BY <2>1, <3>1, TokenIsOfAnEntry
    <3>3. PICK f \in Store!Granted(file) : f.name = q
      BY <2>1, <3>1, TokenIsOfAnEntry
    <3> QED BY <3>1, <3>2, <3>3 DEF FileSound
  <2> QED BY <2>1, <2>2 DEF HolderRecorded
<1> QED BY <1>1, FileInvariance, PTL

LEMMA StoreInit == FInit => Store!Init
BY DEF FInit, Store!Init

LEMMA StoreStep == FileInv /\ [FNext]_fvars => [Store!Next]_<<file, living, harms>>
<1> SUFFICES ASSUME FileInv, FNext PROVE Store!Next \/ UNCHANGED <<file, living, harms>>
  BY DEF fvars
<1>1. ASSUME NEW p \in Clients, Begin(p) \/ TakeLock(p) \/ DiskFull(p) \/ FRelease(p)
      PROVE  UNCHANGED <<file, living, harms>>
  BY <1>1 DEF Begin, TakeLock, DiskFull, FRelease
<1>2. ASSUME NEW p \in Clients, Go(p), ~Rename(p)
      PROVE  UNCHANGED <<file, living, harms>>
  BY <1>2 DEF Go, Read, ReadDamaged, WriteTemp, Written, Unlock, Poll, EndUnleased
<1>3. ASSUME NEW p \in Clients, Rename(p)
      PROVE  Store!Operate(p)
  <2>1. p \in living /\ file # Damaged /\ IsOperation(p)
    BY <1>3 DEF Rename, FileInv, Locked, Unrenamed
  <2>2. file' = copy[p] /\ UNCHANGED <<living, harms>>
    BY <1>3 DEF Rename
  <2> QED BY <2>1, <2>2 DEF Store!Operate, IsOperation
<1>4. ASSUME NEW p \in Clients, Crash(p)
      PROVE  Store!Die(p)
  BY <1>4 DEF Crash, Store!Die
<1>5. Harm => Store!Damage
  BY DEF Harm, Store!Damage
<1>6. ASSUME NEW o \in Operators, RepairFound(o) \/ RepairRename(o)
      PROVE  Store!SetAside \/ UNCHANGED <<file, living, harms>>
  BY <1>6 DEF RepairFound, RepairRename, Store!SetAside, FileInv, Found
<1> QED BY <1>1, <1>2, <1>3, <1>4, <1>5, <1>6 DEF FNext, Store!Next

\* The transactions of the file are the operations of the store: one step each, done or not begun when
\* their process dies, and nothing but a damaged file is set aside.
THEOREM FileImplementsStore == ASSUME OneOperator PROVE FSpec => ImplementsStore
<1>1. FileInv /\ [FNext]_fvars => [Store!Next]_<<file, living, harms>>
  BY StoreStep
<1> QED BY <1>1, StoreInit, FileInvariance, PTL DEF FSpec, ImplementsStore, Store!Spec
==============================================================================
