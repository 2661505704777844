-------------------------- MODULE GbSchedulerProofs --------------------------
(***************************************************************************)
(* What the calls of the serving engine's scheduler do, for every load,     *)
(* page size, pool and policy parameter: each of them is a function from a  *)
(* scheduler to a scheduler, and each lemma says what the result has of the *)
(* argument.  None of them loses or repeats a request, starts one it cannot *)
(* give pages, or touches the tokens of one; a decoding request always has  *)
(* the pages of what it has computed.                                       *)
(*                                                                          *)
(* The loops of the code are recursive functions, which the provers unfold  *)
(* in the lemmas named Loop; what holds of every turn then follows from     *)
(* Induct.                                                                  *)
(*                                                                          *)
(* The second half is about pages.  Book says whose they are: a count is    *)
(* the number of holders, a hash is that of the holder's own prefix.  Kv    *)
(* says which slots are written: what a request has computed, but for the   *)
(* rows of the batch that is being built.  Ledger is both, and Sound says   *)
(* it of a scheduler whose requests are placed; one lemma per call.         *)
(***************************************************************************)
EXTENDS GbScheduler, FiniteSetTheorems, WellFoundedInduction, TLAPS

\* A set of numbers has a least one.
LEMMA LeastNat ==
  ASSUME NEW T \in SUBSET Nat, T # {}
  PROVE  \E m \in T : \A k \in T : m <= k
<1> DEFINE R == {ss \in Nat \X Nat : ss[1] < ss[2]}
<1>1. IsWellFoundedOn(R, Nat)
  <2>1. IsWellFoundedOn(OpToRel(<, Nat), Nat)
    BY NatLessThanWellFounded
  <2>2. R = OpToRel(<, Nat)
    BY DEF OpToRel
  <2> QED BY <2>1, <2>2
<1> HIDE DEF R
<1>2. PICK m \in T : \A k \in T : ~(<<k, m>> \in R)
  BY <1>1, WFMin
<1>3. ASSUME NEW k \in T PROVE m <= k
  <2>1. k \in Nat /\ m \in Nat
    OBVIOUS
  <2>2. <<k, m>> \notin {ss \in Nat \X Nat : ss[1] < ss[2]}
    BY <1>2 DEF R
  <2> QED BY <2>1, <2>2
<1> QED BY <1>2, <1>3

\* Induction up to N, over a set.
LEMMA Induct ==
  ASSUME NEW N \in Nat, NEW G, 0 \in G, \A n \in 1 .. N : n - 1 \in G => n \in G
  PROVE  \A n \in 0 .. N : n \in G
<1> DEFINE T == {n \in 0 .. N : n \notin G}
<1>1. T \in SUBSET Nat
  OBVIOUS
<1>2. ASSUME T # {} PROVE FALSE
  <2> HIDE DEF T
  <2>1. PICK m \in T : \A k \in T : m <= k
    BY <1>1, <1>2, LeastNat
  <2>2. m \in 0 .. N /\ m \notin G
    BY <2>1 DEF T
  <2>3. m \in 1 .. N /\ m - 1 \in 0 .. N
    BY <2>2
  <2>4. m - 1 \notin G
    BY <2>2, <2>3
  <2>5. m - 1 \in T
    BY <2>3, <2>4 DEF T
  <2>6. m <= m - 1
    BY <2>1, <2>5
  <2> QED BY <2>3, <2>6
<1> QED BY <1>2

\* has_computed, page after page.
LEMMA SharesLoop ==
  ASSUME NEW pool, NEW hit, Len(hit) \in Nat
  PROVE  \E f : /\ f[0] = pool
                /\ \A n \in 1 .. Len(hit) : f[n] = Share(f[n - 1], hit[n])
                /\ Shares(pool, hit) = f[Len(hit)]
<1> DEFINE Good(k, f) ==
             f = [n \in 0 .. k |-> IF n = 0 THEN pool ELSE Share(f[n - 1], hit[n])]
           G == {k \in 0 .. Len(hit) : \E f : Good(k, f)}
           c == CHOOSE f : Good(Len(hit), f)
<1>1. Good(0, [n \in 0 .. 0 |-> pool])
  OBVIOUS
<1>2. ASSUME NEW m \in 1 .. Len(hit), NEW g, Good(m - 1, g)
      PROVE  Good(m, [n \in 0 .. m |-> IF n = m THEN Share(g[m - 1], hit[m]) ELSE g[n]])
  <2> DEFINE next == Share(g[m - 1], hit[m])
             h == [n \in 0 .. m |-> IF n = m THEN next ELSE g[n]]
  <2> HIDE DEF next
  <2>1. \A n \in 0 .. m - 1 : g[n] = IF n = 0 THEN pool ELSE Share(g[n - 1], hit[n])
    BY <1>2
  <2>2. \A n \in 0 .. m - 1 : h[n] = g[n]
    OBVIOUS
  <2>3. \A n \in 0 .. m : h[n] = IF n = 0 THEN pool ELSE Share(h[n - 1], hit[n])
    BY <2>1, <2>2 DEF next
  <2>4. Good(m, h)
    BY <2>3
  <2> QED BY <2>4 DEF next
<1>3. ASSUME Good(Len(hit), c)
      PROVE  /\ c[0] = pool
             /\ \A n \in 1 .. Len(hit) : c[n] = Share(c[n - 1], hit[n])
  <2> HIDE DEF c
  <2> QED BY <1>3
<1>4. Shares(pool, hit) = c[Len(hit)]
  BY DEF Shares
<1> HIDE DEF Good, c
<1>5. 0 \in G
  BY <1>1
<1>6. ASSUME NEW m \in 1 .. Len(hit), m - 1 \in G
      PROVE  m \in G
  <2>1. PICK g : Good(m - 1, g)
    BY <1>6 DEF G
  <2>2. m \in 0 .. Len(hit)
    OBVIOUS
  <2> QED BY <1>2, <2>1, <2>2 DEF G
<1> HIDE DEF G
<1>7. \A n \in 0 .. Len(hit) : n \in G
  BY <1>5, <1>6, Induct, Zenon
<1>8. \E f : Good(Len(hit), f)
  BY <1>7 DEF G
<1>9. Good(Len(hit), c)
  BY <1>8 DEF c
<1> QED BY <1>3, <1>4, <1>9

\* free, page after page.
LEMMA DropsLoop ==
  ASSUME NEW pool, NEW pages, Len(pages) \in Nat
  PROVE  \E f : /\ f[0] = pool
                /\ \A n \in 1 .. Len(pages) : f[n] = Drop(f[n - 1], pages[n])
                /\ Drops(pool, pages) = f[Len(pages)]
<1> DEFINE Good(k, f) ==
             f = [n \in 0 .. k |-> IF n = 0 THEN pool ELSE Drop(f[n - 1], pages[n])]
           G == {k \in 0 .. Len(pages) : \E f : Good(k, f)}
           c == CHOOSE f : Good(Len(pages), f)
<1>1. Good(0, [n \in 0 .. 0 |-> pool])
  OBVIOUS
<1>2. ASSUME NEW m \in 1 .. Len(pages), NEW g, Good(m - 1, g)
      PROVE  Good(m, [n \in 0 .. m |-> IF n = m THEN Drop(g[m - 1], pages[m]) ELSE g[n]])
  <2> DEFINE next == Drop(g[m - 1], pages[m])
             h == [n \in 0 .. m |-> IF n = m THEN next ELSE g[n]]
  <2> HIDE DEF next
  <2>1. \A n \in 0 .. m - 1 : g[n] = IF n = 0 THEN pool ELSE Drop(g[n - 1], pages[n])
    BY <1>2
  <2>2. \A n \in 0 .. m - 1 : h[n] = g[n]
    OBVIOUS
  <2>3. \A n \in 0 .. m : h[n] = IF n = 0 THEN pool ELSE Drop(h[n - 1], pages[n])
    BY <2>1, <2>2 DEF next
  <2>4. Good(m, h)
    BY <2>3
  <2> QED BY <2>4 DEF next
<1>3. ASSUME Good(Len(pages), c)
      PROVE  /\ c[0] = pool
             /\ \A n \in 1 .. Len(pages) : c[n] = Drop(c[n - 1], pages[n])
  <2> HIDE DEF c
  <2> QED BY <1>3
<1>4. Drops(pool, pages) = c[Len(pages)]
  BY DEF Drops
<1> HIDE DEF Good, c
<1>5. 0 \in G
  BY <1>1
<1>6. ASSUME NEW m \in 1 .. Len(pages), m - 1 \in G
      PROVE  m \in G
  <2>1. PICK g : Good(m - 1, g)
    BY <1>6 DEF G
  <2>2. m \in 0 .. Len(pages)
    OBVIOUS
  <2> QED BY <1>2, <2>1, <2>2 DEF G
<1> HIDE DEF G
<1>7. \A n \in 0 .. Len(pages) : n \in G
  BY <1>5, <1>6, Induct, Zenon
<1>8. \E f : Good(Len(pages), f)
  BY <1>7 DEF G
<1>9. Good(Len(pages), c)
  BY <1>8 DEF c
<1> QED BY <1>3, <1>4, <1>9

\* pre_allocate_page, page after page.
LEMMA PreAllocateLoop ==
  ASSUME NEW sch, NEW q, PagesWanted(sch.obj[q]) \in Nat
  PROVE  \E f : /\ f[0] = sch
                /\ \A n \in 1 .. PagesWanted(sch.obj[q]) : f[n] = AddPage(f[n - 1], q)
                /\ PreAllocate(sch, q) = f[PagesWanted(sch.obj[q])]
<1> DEFINE Good(k, f) ==
             f = [n \in 0 .. k |-> IF n = 0 THEN sch ELSE AddPage(f[n - 1], q)]
           G == {k \in 0 .. PagesWanted(sch.obj[q]) : \E f : Good(k, f)}
           c == CHOOSE f : Good(PagesWanted(sch.obj[q]), f)
<1>1. Good(0, [n \in 0 .. 0 |-> sch])
  OBVIOUS
<1>2. ASSUME NEW m \in 1 .. PagesWanted(sch.obj[q]), NEW g, Good(m - 1, g)
      PROVE  Good(m, [n \in 0 .. m |-> IF n = m THEN AddPage(g[m - 1], q) ELSE g[n]])
  <2> DEFINE next == AddPage(g[m - 1], q)
             h == [n \in 0 .. m |-> IF n = m THEN next ELSE g[n]]
  <2> HIDE DEF next
  <2>1. \A n \in 0 .. m - 1 : g[n] = IF n = 0 THEN sch ELSE AddPage(g[n - 1], q)
    BY <1>2
  <2>2. \A n \in 0 .. m - 1 : h[n] = g[n]
    OBVIOUS
  <2>3. \A n \in 0 .. m : h[n] = IF n = 0 THEN sch ELSE AddPage(h[n - 1], q)
    BY <2>1, <2>2 DEF next
  <2>4. Good(m, h)
    BY <2>3
  <2> QED BY <2>4 DEF next
<1>3. ASSUME Good(PagesWanted(sch.obj[q]), c)
      PROVE  /\ c[0] = sch
             /\ \A n \in 1 .. PagesWanted(sch.obj[q]) : c[n] = AddPage(c[n - 1], q)
  <2> HIDE DEF c
  <2> QED BY <1>3
<1>4. PreAllocate(sch, q) = c[PagesWanted(sch.obj[q])]
  BY DEF PreAllocate
<1> HIDE DEF Good, c
<1>5. 0 \in G
  BY <1>1
<1>6. ASSUME NEW m \in 1 .. PagesWanted(sch.obj[q]), m - 1 \in G
      PROVE  m \in G
  <2>1. PICK g : Good(m - 1, g)
    BY <1>6 DEF G
  <2>2. m \in 0 .. PagesWanted(sch.obj[q])
    OBVIOUS
  <2> QED BY <1>2, <2>1, <2>2 DEF G
<1> HIDE DEF G
<1>7. \A n \in 0 .. PagesWanted(sch.obj[q]) : n \in G
  BY <1>5, <1>6, Induct, Zenon
<1>8. \E f : Good(PagesWanted(sch.obj[q]), f)
  BY <1>7 DEF G
<1>9. Good(PagesWanted(sch.obj[q]), c)
  BY <1>8 DEF c
<1> QED BY <1>3, <1>4, <1>9

\* pre_allocate_page, request after request.
LEMMA PreAllocatesLoop ==
  ASSUME NEW sch, NEW taken, Len(taken) \in Nat
  PROVE  \E f : /\ f[0] = sch
                /\ \A n \in 1 .. Len(taken) : f[n] = PreAllocate(f[n - 1], taken[n])
                /\ PreAllocates(sch, taken) = f[Len(taken)]
<1> DEFINE Good(k, f) ==
             f = [n \in 0 .. k |-> IF n = 0 THEN sch ELSE PreAllocate(f[n - 1], taken[n])]
           G == {k \in 0 .. Len(taken) : \E f : Good(k, f)}
           c == CHOOSE f : Good(Len(taken), f)
<1>1. Good(0, [n \in 0 .. 0 |-> sch])
  OBVIOUS
<1>2. ASSUME NEW m \in 1 .. Len(taken), NEW g, Good(m - 1, g)
      PROVE  Good(m, [n \in 0 .. m |-> IF n = m THEN PreAllocate(g[m - 1], taken[m]) ELSE g[n]])
  <2> DEFINE next == PreAllocate(g[m - 1], taken[m])
             h == [n \in 0 .. m |-> IF n = m THEN next ELSE g[n]]
  <2> HIDE DEF next
  <2>1. \A n \in 0 .. m - 1 : g[n] = IF n = 0 THEN sch ELSE PreAllocate(g[n - 1], taken[n])
    BY <1>2
  <2>2. \A n \in 0 .. m - 1 : h[n] = g[n]
    OBVIOUS
  <2>3. \A n \in 0 .. m : h[n] = IF n = 0 THEN sch ELSE PreAllocate(h[n - 1], taken[n])
    BY <2>1, <2>2 DEF next
  <2>4. Good(m, h)
    BY <2>3
  <2> QED BY <2>4 DEF next
<1>3. ASSUME Good(Len(taken), c)
      PROVE  /\ c[0] = sch
             /\ \A n \in 1 .. Len(taken) : c[n] = PreAllocate(c[n - 1], taken[n])
  <2> HIDE DEF c
  <2> QED BY <1>3
<1>4. PreAllocates(sch, taken) = c[Len(taken)]
  BY DEF PreAllocates
<1> HIDE DEF Good, c
<1>5. 0 \in G
  BY <1>1
<1>6. ASSUME NEW m \in 1 .. Len(taken), m - 1 \in G
      PROVE  m \in G
  <2>1. PICK g : Good(m - 1, g)
    BY <1>6 DEF G
  <2>2. m \in 0 .. Len(taken)
    OBVIOUS
  <2> QED BY <1>2, <2>1, <2>2 DEF G
<1> HIDE DEF G
<1>7. \A n \in 0 .. Len(taken) : n \in G
  BY <1>5, <1>6, Induct, Zenon
<1>8. \E f : Good(Len(taken), f)
  BY <1>7 DEF G
<1>9. Good(Len(taken), c)
  BY <1>8 DEF c
<1> QED BY <1>3, <1>4, <1>9

\* check_preempt, victim after victim.
LEMMA PreemptLoop ==
  ASSUME NEW sch, NEW need, Len(sch.decode) \in Nat
  PROVE  \E f : /\ f[0] = sch
                /\ \A n \in 1 .. Len(sch.decode) : f[n] = PreemptNext(f[n - 1], need)
                /\ Preempt(sch, need) = f[Len(sch.decode)]
<1> DEFINE Good(k, f) ==
             f = [n \in 0 .. k |-> IF n = 0 THEN sch ELSE PreemptNext(f[n - 1], need)]
           G == {k \in 0 .. Len(sch.decode) : \E f : Good(k, f)}
           c == CHOOSE f : Good(Len(sch.decode), f)
<1>1. Good(0, [n \in 0 .. 0 |-> sch])
  OBVIOUS
<1>2. ASSUME NEW m \in 1 .. Len(sch.decode), NEW g, Good(m - 1, g)
      PROVE  Good(m, [n \in 0 .. m |-> IF n = m THEN PreemptNext(g[m - 1], need) ELSE g[n]])
  <2> DEFINE next == PreemptNext(g[m - 1], need)
             h == [n \in 0 .. m |-> IF n = m THEN next ELSE g[n]]
  <2> HIDE DEF next
  <2>1. \A n \in 0 .. m - 1 : g[n] = IF n = 0 THEN sch ELSE PreemptNext(g[n - 1], need)
    BY <1>2
  <2>2. \A n \in 0 .. m - 1 : h[n] = g[n]
    OBVIOUS
  <2>3. \A n \in 0 .. m : h[n] = IF n = 0 THEN sch ELSE PreemptNext(h[n - 1], need)
    BY <2>1, <2>2 DEF next
  <2>4. Good(m, h)
    BY <2>3
  <2> QED BY <2>4 DEF next
<1>3. ASSUME Good(Len(sch.decode), c)
      PROVE  /\ c[0] = sch
             /\ \A n \in 1 .. Len(sch.decode) : c[n] = PreemptNext(c[n - 1], need)
  <2> HIDE DEF c
  <2> QED BY <1>3
<1>4. Preempt(sch, need) = c[Len(sch.decode)]
  BY DEF Preempt
<1> HIDE DEF Good, c
<1>5. 0 \in G
  BY <1>1
<1>6. ASSUME NEW m \in 1 .. Len(sch.decode), m - 1 \in G
      PROVE  m \in G
  <2>1. PICK g : Good(m - 1, g)
    BY <1>6 DEF G
  <2>2. m \in 0 .. Len(sch.decode)
    OBVIOUS
  <2> QED BY <1>2, <2>1, <2>2 DEF G
<1> HIDE DEF G
<1>7. \A n \in 0 .. Len(sch.decode) : n \in G
  BY <1>5, <1>6, Induct, Zenon
<1>8. \E f : Good(Len(sch.decode), f)
  BY <1>7 DEF G
<1>9. Good(Len(sch.decode), c)
  BY <1>8 DEF c
<1> QED BY <1>3, <1>4, <1>9

\* schedule_prefill_batch, request after request.
LEMMA PrefilledLoop ==
  ASSUME NEW start, NEW queue, NEW room, NEW reserve, Len(queue) \in Nat
  PROVE  \E f : /\ f[0] = start
                /\ \A n \in 1 .. Len(queue) : f[n] = PrefillNext(f[n - 1], queue[n], room, reserve)
                /\ Prefilled(start, queue, room, reserve) = f[Len(queue)]
<1> DEFINE Good(k, f) ==
             f = [n \in 0 .. k |-> IF n = 0 THEN start ELSE PrefillNext(f[n - 1], queue[n], room, reserve)]
           G == {k \in 0 .. Len(queue) : \E f : Good(k, f)}
           c == CHOOSE f : Good(Len(queue), f)
<1>1. Good(0, [n \in 0 .. 0 |-> start])
  OBVIOUS
<1>2. ASSUME NEW m \in 1 .. Len(queue), NEW g, Good(m - 1, g)
      PROVE  Good(m, [n \in 0 .. m |-> IF n = m THEN PrefillNext(g[m - 1], queue[m], room, reserve) ELSE g[n]])
  <2> DEFINE next == PrefillNext(g[m - 1], queue[m], room, reserve)
             h == [n \in 0 .. m |-> IF n = m THEN next ELSE g[n]]
  <2> HIDE DEF next
  <2>1. \A n \in 0 .. m - 1 : g[n] = IF n = 0 THEN start ELSE PrefillNext(g[n - 1], queue[n], room, reserve)
    BY <1>2
  <2>2. \A n \in 0 .. m - 1 : h[n] = g[n]
    OBVIOUS
  <2>3. \A n \in 0 .. m : h[n] = IF n = 0 THEN start ELSE PrefillNext(h[n - 1], queue[n], room, reserve)
    BY <2>1, <2>2 DEF next
  <2>4. Good(m, h)
    BY <2>3
  <2> QED BY <2>4 DEF next
<1>3. ASSUME Good(Len(queue), c)
      PROVE  /\ c[0] = start
             /\ \A n \in 1 .. Len(queue) : c[n] = PrefillNext(c[n - 1], queue[n], room, reserve)
  <2> HIDE DEF c
  <2> QED BY <1>3
<1>4. Prefilled(start, queue, room, reserve) = c[Len(queue)]
  BY DEF Prefilled
<1> HIDE DEF Good, c
<1>5. 0 \in G
  BY <1>1
<1>6. ASSUME NEW m \in 1 .. Len(queue), m - 1 \in G
      PROVE  m \in G
  <2>1. PICK g : Good(m - 1, g)
    BY <1>6 DEF G
  <2>2. m \in 0 .. Len(queue)
    OBVIOUS
  <2> QED BY <1>2, <2>1, <2>2 DEF G
<1> HIDE DEF G
<1>7. \A n \in 0 .. Len(queue) : n \in G
  BY <1>5, <1>6, Induct, Zenon
<1>8. \E f : Good(Len(queue), f)
  BY <1>7 DEF G
<1>9. Good(Len(queue), c)
  BY <1>8 DEF c
<1> QED BY <1>3, <1>4, <1>9

\* check_abort_seqs, request after request.
LEMMA AbortEachLoop ==
  ASSUME NEW sch, NEW queue, Len(queue) \in Nat
  PROVE  \E f : /\ f[0] = sch
                /\ \A n \in 1 .. Len(queue) : f[n] = AbortNext(f[n - 1], queue[n])
                /\ AbortEach(sch, queue) = f[Len(queue)]
<1> DEFINE Good(k, f) ==
             f = [n \in 0 .. k |-> IF n = 0 THEN sch ELSE AbortNext(f[n - 1], queue[n])]
           G == {k \in 0 .. Len(queue) : \E f : Good(k, f)}
           c == CHOOSE f : Good(Len(queue), f)
<1>1. Good(0, [n \in 0 .. 0 |-> sch])
  OBVIOUS
<1>2. ASSUME NEW m \in 1 .. Len(queue), NEW g, Good(m - 1, g)
      PROVE  Good(m, [n \in 0 .. m |-> IF n = m THEN AbortNext(g[m - 1], queue[m]) ELSE g[n]])
  <2> DEFINE next == AbortNext(g[m - 1], queue[m])
             h == [n \in 0 .. m |-> IF n = m THEN next ELSE g[n]]
  <2> HIDE DEF next
  <2>1. \A n \in 0 .. m - 1 : g[n] = IF n = 0 THEN sch ELSE AbortNext(g[n - 1], queue[n])
    BY <1>2
  <2>2. \A n \in 0 .. m - 1 : h[n] = g[n]
    OBVIOUS
  <2>3. \A n \in 0 .. m : h[n] = IF n = 0 THEN sch ELSE AbortNext(h[n - 1], queue[n])
    BY <2>1, <2>2 DEF next
  <2>4. Good(m, h)
    BY <2>3
  <2> QED BY <2>4 DEF next
<1>3. ASSUME Good(Len(queue), c)
      PROVE  /\ c[0] = sch
             /\ \A n \in 1 .. Len(queue) : c[n] = AbortNext(c[n - 1], queue[n])
  <2> HIDE DEF c
  <2> QED BY <1>3
<1>4. AbortEach(sch, queue) = c[Len(queue)]
  BY DEF AbortEach
<1> HIDE DEF Good, c
<1>5. 0 \in G
  BY <1>1
<1>6. ASSUME NEW m \in 1 .. Len(queue), m - 1 \in G
      PROVE  m \in G
  <2>1. PICK g : Good(m - 1, g)
    BY <1>6 DEF G
  <2>2. m \in 0 .. Len(queue)
    OBVIOUS
  <2> QED BY <1>2, <2>1, <2>2 DEF G
<1> HIDE DEF G
<1>7. \A n \in 0 .. Len(queue) : n \in G
  BY <1>5, <1>6, Induct, Zenon
<1>8. \E f : Good(Len(queue), f)
  BY <1>7 DEF G
<1>9. Good(Len(queue), c)
  BY <1>8 DEF c
<1> QED BY <1>3, <1>4, <1>9

-----------------------------------------------------------------------------
(* Queues without repetition. *)

Injective(s) == \A i, j \in 1 .. Len(s) : s[i] = s[j] => i = j

\* The elements of s are those of S, once each.
Lists(s, S) ==
  /\ s \in Seq(Reqs) /\ Injective(s)
  /\ \A q : q \in S <=> \E i \in 1 .. Len(s) : s[i] = q

LEMMA ListsNone == Lists(<<>>, {})
BY DEF Lists, Injective

LEMMA ListsWithout ==
  ASSUME NEW s, NEW S, Lists(s, S), NEW x
  PROVE  Lists(Without(s, x), S \ {x})
<1>1. CASE ~\E i \in 1 .. Len(s) : s[i] = x
  BY <1>1 DEF Without, Lists
<1>2. CASE \E i \in 1 .. Len(s) : s[i] = x
  <2> DEFINE k == CHOOSE i \in 1 .. Len(s) : s[i] = x
             w == [i \in 1 .. Len(s) - 1 |-> IF i < k THEN s[i] ELSE s[i + 1]]
             pos(n) == IF n < k THEN n ELSE n + 1
  <2>0. s \in Seq(Reqs) /\ Injective(s)
    BY DEF Lists
  <2>1. k \in 1 .. Len(s) /\ s[k] = x
    BY <1>2
  <2>2. Without(s, x) = w
    BY <1>2 DEF Without
  <2> HIDE DEF k
  <2>3. w \in Seq(Reqs) /\ Len(w) = Len(s) - 1
    BY <2>0, <2>1
  <2>4. Injective(w)
    <3> SUFFICES ASSUME NEW i \in 1 .. Len(s) - 1, NEW j \in 1 .. Len(s) - 1, w[i] = w[j]
                 PROVE  i = j
      BY <2>3 DEF Injective
    <3>1. pos(i) \in 1 .. Len(s) /\ pos(j) \in 1 .. Len(s) /\ s[pos(i)] = s[pos(j)]
      BY <2>0, <2>1
    <3>2. pos(i) = pos(j)
      BY <2>0, <3>1 DEF Injective
    <3> QED
      BY <3>2, <2>0, <2>1
  <2>5. ASSUME NEW q
        PROVE  (\E i \in 1 .. Len(w) : w[i] = q) <=> q # x /\ \E i \in 1 .. Len(s) : s[i] = q
    <3>1. ASSUME NEW i \in 1 .. Len(w), w[i] = q
          PROVE  q # x /\ \E j \in 1 .. Len(s) : s[j] = q
      <4>1. pos(i) \in 1 .. Len(s) /\ s[pos(i)] = q /\ pos(i) # k
        BY <2>0, <2>1, <2>3, <3>1
      <4> QED BY <4>1, <2>0, <2>1 DEF Injective
    <3>2. ASSUME q # x, NEW j \in 1 .. Len(s), s[j] = q
          PROVE  \E i \in 1 .. Len(w) : w[i] = q
      <4> DEFINE i == IF j < k THEN j ELSE j - 1
      <4>1. i \in 1 .. Len(w) /\ w[i] = q
        BY <2>0, <2>1, <2>3, <3>2
      <4> QED BY <4>1
    <3> QED BY <3>1, <3>2
  <2> QED BY <2>2, <2>3, <2>4, <2>5 DEF Lists
<1> QED BY <1>1, <1>2

\* Two queues after one another.
LEMMA ListsConcat ==
  ASSUME NEW s, NEW S, Lists(s, S), NEW t, NEW T, Lists(t, T), S \cap T = {}
  PROVE  Lists(s \o t, S \cup T)
<1>0. s \in Seq(Reqs) /\ t \in Seq(Reqs)
  BY DEF Lists
<1>1. /\ s \o t \in Seq(Reqs) /\ Len(s \o t) = Len(s) + Len(t)
      /\ Len(s) \in Nat /\ Len(t) \in Nat
  BY <1>0
<1>2. \A i \in 1 .. Len(s) + Len(t) :
        (s \o t)[i] = IF i <= Len(s) THEN s[i] ELSE t[i - Len(s)]
  BY <1>0
<1> DEFINE u == s \o t
<1> HIDE DEF u
<1>3. Injective(u)
  <2> SUFFICES ASSUME NEW i \in 1 .. Len(u), NEW j \in 1 .. Len(u), u[i] = u[j]
               PROVE  i = j
    BY DEF Injective
  <2>1. CASE i <= Len(s) /\ j <= Len(s)
    BY <2>1, <1>1, <1>2 DEF u, Lists, Injective
  <2>2. CASE i > Len(s) /\ j > Len(s)
    <3>1. i - Len(s) \in 1 .. Len(t) /\ j - Len(s) \in 1 .. Len(t)
      BY <2>2, <1>1 DEF u
    <3>2. t[i - Len(s)] = t[j - Len(s)]
      BY <2>2, <1>1, <1>2 DEF u
    <3> QED BY <3>1, <3>2, <1>1 DEF Lists, Injective, u
  <2>3. CASE i <= Len(s) /\ j > Len(s)
    <3>1. i \in 1 .. Len(s) /\ j - Len(s) \in 1 .. Len(t)
      BY <2>3, <1>1 DEF u
    <3>2. s[i] = t[j - Len(s)]
      BY <2>3, <1>1, <1>2 DEF u
    <3> QED BY <3>1, <3>2 DEF Lists
  <2>4. CASE i > Len(s) /\ j <= Len(s)
    <3>1. j \in 1 .. Len(s) /\ i - Len(s) \in 1 .. Len(t)
      BY <2>4, <1>1 DEF u
    <3>2. s[j] = t[i - Len(s)]
      BY <2>4, <1>1, <1>2 DEF u
    <3> QED BY <3>1, <3>2 DEF Lists
  <2> QED BY <2>1, <2>2, <2>3, <2>4, <1>1 DEF u
<1>4. ASSUME NEW q PROVE q \in S \cup T <=> \E i \in 1 .. Len(u) : u[i] = q
  <2>1. ASSUME NEW i \in 1 .. Len(u), u[i] = q PROVE q \in S \cup T
    <3>1. CASE i <= Len(s)
      <4>1. i \in 1 .. Len(s) /\ s[i] = q
        BY <2>1, <3>1, <1>1, <1>2 DEF u
      <4> QED BY <4>1 DEF Lists
    <3>2. CASE i > Len(s)
      <4>1. i - Len(s) \in 1 .. Len(t) /\ t[i - Len(s)] = q
        BY <2>1, <3>2, <1>1, <1>2 DEF u
      <4> QED BY <4>1 DEF Lists
    <3> QED BY <3>1, <3>2, <1>1 DEF u
  <2>2. ASSUME q \in S PROVE \E i \in 1 .. Len(u) : u[i] = q
    <3>1. PICK i \in 1 .. Len(s) : s[i] = q
      BY <2>2 DEF Lists
    <3>2. i \in 1 .. Len(u) /\ u[i] = q
      BY <3>1, <1>1, <1>2 DEF u
    <3> QED BY <3>2
  <2>3. ASSUME q \in T PROVE \E i \in 1 .. Len(u) : u[i] = q
    <3>1. PICK i \in 1 .. Len(t) : t[i] = q
      BY <2>3 DEF Lists
    <3>2. Len(s) + i \in 1 .. Len(u) /\ u[Len(s) + i] = q
      BY <3>1, <1>1, <1>2 DEF u
    <3> QED BY <3>2
  <2> QED BY <2>1, <2>2, <2>3
<1> QED BY <1>1, <1>3, <1>4 DEF Lists, u

LEMMA ListsOne ==
  ASSUME NEW q \in Reqs
  PROVE  Lists(<<q>>, {q})
<1>1. <<q>> \in Seq(Reqs) /\ Len(<<q>>) = 1 /\ <<q>>[1] = q
  OBVIOUS
<1> QED BY <1>1 DEF Lists, Injective

LEMMA ListsPrepend ==
  ASSUME NEW s, NEW S, Lists(s, S), NEW q \in Reqs \ S
  PROVE  Lists(<<q>> \o s, S \cup {q})
<1>1. Lists(<<q>> \o s, {q} \cup S)
  BY ListsOne, ListsConcat
<1>2. {q} \cup S = S \cup {q}
  OBVIOUS
<1> QED BY <1>1, <1>2

LEMMA ListsAppend ==
  ASSUME NEW s, NEW S, Lists(s, S), NEW q \in Reqs \ S
  PROVE  Lists(Append(s, q), S \cup {q})
<1>1. Lists(s \o <<q>>, S \cup {q})
  BY ListsOne, ListsConcat
<1>2. s \o <<q>> = Append(s, q)
  BY DEF Lists
<1> QED BY <1>1, <1>2

\* The first n of a queue, and the others.
LEMMA ListsSplit ==
  ASSUME NEW s, NEW S, Lists(s, S), NEW n \in 0 .. Len(s)
  PROVE  LET T == {s[i] : i \in 1 .. n}
         IN  /\ T \subseteq S
             /\ Lists(SubSeq(s, 1, n), T)
             /\ Lists(SubSeq(s, n + 1, Len(s)), S \ T)
<1> DEFINE T == {s[i] : i \in 1 .. n}
           a == SubSeq(s, 1, n)
           b == SubSeq(s, n + 1, Len(s))
<1>0. s \in Seq(Reqs) /\ Len(s) \in Nat /\ Injective(s)
  BY DEF Lists
<1>1. a \in Seq(Reqs) /\ Len(a) = n /\ \A i \in 1 .. n : a[i] = s[i]
  BY <1>0
<1>2. /\ b \in Seq(Reqs) /\ Len(b) = Len(s) - n
      /\ \A i \in 1 .. Len(s) - n : b[i] = s[n + i]
  BY <1>0
<1> HIDE DEF a, b
<1>3. T \subseteq S
  BY <1>0 DEF Lists
<1>4. Lists(a, T)
  BY <1>0, <1>1 DEF Lists, Injective
<1>5. Injective(b)
  <2> SUFFICES ASSUME NEW i \in 1 .. Len(s) - n, NEW j \in 1 .. Len(s) - n, b[i] = b[j]
               PROVE  i = j
    BY <1>2 DEF Injective
  <2>1. n + i \in 1 .. Len(s) /\ n + j \in 1 .. Len(s) /\ s[n + i] = s[n + j]
    BY <1>0, <1>2
  <2>2. n + i = n + j
    BY <1>0, <2>1 DEF Injective
  <2> QED BY <2>2
<1>6. ASSUME NEW q PROVE q \in S \ T <=> \E i \in 1 .. Len(b) : b[i] = q
  <2>1. ASSUME NEW i \in 1 .. Len(b), b[i] = q PROVE q \in S \ T
    <3>1. n + i \in 1 .. Len(s) /\ s[n + i] = q
      BY <1>0, <1>2, <2>1
    <3>2. \A j \in 1 .. n : s[j] # q
      BY <1>0, <3>1, <1>2, <2>1 DEF Injective
    <3> QED BY <3>1, <3>2 DEF Lists
  <2>2. ASSUME q \in S \ T PROVE \E i \in 1 .. Len(b) : b[i] = q
    <3>1. PICK j \in 1 .. Len(s) : s[j] = q
      BY <2>2 DEF Lists
    <3>2. ~(j \in 1 .. n)
      BY <2>2, <3>1
    <3>3. j - n \in 1 .. Len(b) /\ b[j - n] = q
      BY <1>0, <1>2, <3>1, <3>2
    <3> QED BY <3>3
  <2> QED BY <2>1, <2>2
<1>7. Lists(b, S \ T)
  BY <1>2, <1>5, <1>6 DEF Lists
<1> QED BY <1>3, <1>4, <1>7 DEF a, b

LEMMA ListsSize ==
  ASSUME NEW s, NEW S, Lists(s, S)
  PROVE  IsFiniteSet(S) /\ Cardinality(S) = Len(s)
<1> DEFINE N == Len(s)
<1>1. N \in Nat /\ s \in [1 .. N -> Reqs] /\ Injective(s)
  BY DEF Lists
<1>2. s \in Bijection(1 .. N, S)
  <2>1. s \in [1 .. N -> S]
    BY <1>1 DEF Lists
  <2> QED BY <1>1, <2>1 DEF Lists, Injective, Bijection, Injection, Surjection, IsInjective
<1>3. IsFiniteSet(1 .. N) /\ Cardinality(1 .. N) = N
  BY <1>1, FS_Interval
<1> HIDE DEF N
<1>4. ExistsBijection(1 .. N, S)
  BY <1>2 DEF ExistsBijection
<1> QED BY <1>3, <1>4, FS_Bijection DEF N

-----------------------------------------------------------------------------
(* Numbers. *)

LEMMA DivBounds ==
  ASSUME NEW b \in Nat \ {0}, NEW n \in Nat
  PROVE  n \div b \in Nat /\ b * (n \div b) <= n /\ n < b * (n \div b) + b
OBVIOUS

LEMMA ProductMono ==
  ASSUME NEW b \in Nat \ {0}, NEW x \in Int, NEW y \in Int, b * x < b * y
  PROVE  x < y
<1> SUFFICES ASSUME y <= x PROVE FALSE
  OBVIOUS
<1>1. b * y <= b * x
  OBVIOUS
<1> QED BY <1>1

LEMMA DivNext ==
  ASSUME NEW b \in Nat \ {0}, NEW n \in Nat
  PROVE  (n + 1) \div b <= n \div b + 1 /\ n \div b <= (n + 1) \div b
<1> DEFINE q == n \div b
           r == (n + 1) \div b
<1>1. q \in Nat /\ b * q <= n /\ n < b * q + b
  BY DivBounds
<1>2. r \in Nat /\ b * r <= n + 1 /\ n + 1 < b * r + b
  BY DivBounds
<1> HIDE DEF q, r
<1>3. b * (q + 1) = b * q + b /\ b * (r + 1) = b * r + b /\ b * (q + 2) = b * q + b + b
  BY <1>1, <1>2
<1>4. b * r < b * (q + 2)
  BY <1>1, <1>2, <1>3
<1>5. b * q < b * (r + 1)
  BY <1>1, <1>2, <1>3
<1>6. r < q + 2 /\ q < r + 1
  BY <1>1, <1>2, <1>4, <1>5, ProductMono
<1> QED BY <1>1, <1>2, <1>6 DEF q, r

LEMMA DivMod ==
  ASSUME NEW b \in Nat \ {0}, NEW n \in Nat
  PROVE  n = b * (n \div b) + (n % b)
OBVIOUS
LEMMA DivPos ==
  ASSUME NEW b \in Nat \ {0}, NEW n \in Nat \ {0}, n % b = 0
  PROVE  n \div b \in Nat \ {0}
<1>1. n \div b \in Nat
  BY DivBounds
<1>2. n = b * (n \div b) + (n % b)
  BY DivMod
<1>3. ASSUME n \div b = 0 PROVE FALSE
  <2>1. b * 0 = 0
    OBVIOUS
  <2> QED BY <1>2, <1>3, <2>1
<1> QED BY <1>1, <1>3

LEMMA MinMax ==
  ASSUME NEW a \in Int, NEW b \in Int
  PROVE  /\ MinOf(a, b) \in {a, b} /\ MinOf(a, b) <= a /\ MinOf(a, b) <= b
         /\ MaxOf(a, b) \in {a, b} /\ MaxOf(a, b) >= a /\ MaxOf(a, b) >= b
BY DEF MinOf, MaxOf

\* One token more needs at most one page more.
LEMMA PagesForNext ==
  ASSUME NEW n \in Nat
  PROVE  PagesFor(n) \in Nat /\ PagesFor(n + 1) \in Nat /\ PagesFor(n + 1) <= PagesFor(n) + 1
<1> DEFINE m == n + PageSize - 1
<1>1. m \in Nat /\ PageSize \in Nat \ {0} /\ (n + 1) + PageSize - 1 = m + 1
  BY SchedulerAssumption
<1>2. m \div PageSize \in Nat /\ (m + 1) \div PageSize \in Nat
  BY <1>1, DivBounds
<1>3. (m + 1) \div PageSize <= m \div PageSize + 1
  BY <1>1, DivNext
<1> QED BY <1>1, <1>2, <1>3 DEF PagesFor

-----------------------------------------------------------------------------
(* The pool. *)

PoolOK(pool) ==
  /\ DOMAIN pool = {"free", "ref", "p2h", "h2p"}
  /\ pool.free \in Seq(Pages)
  /\ pool.ref \in [Pages -> Int]
  /\ DOMAIN pool.p2h = Pages
  /\ \A h \in DOMAIN pool.h2p : pool.h2p[h] \in Pages

LEMMA WithoutSeq ==
  ASSUME NEW S, NEW s \in Seq(S), NEW x
  PROVE  Without(s, x) \in Seq(S)
<1>1. CASE ~\E i \in 1 .. Len(s) : s[i] = x
  BY <1>1 DEF Without
<1>2. CASE \E i \in 1 .. Len(s) : s[i] = x
  <2> DEFINE k == CHOOSE i \in 1 .. Len(s) : s[i] = x
  <2>1. k \in 1 .. Len(s)
    BY <1>2
  <2>2. Without(s, x) = [i \in 1 .. Len(s) - 1 |-> IF i < k THEN s[i] ELSE s[i + 1]]
    BY <1>2 DEF Without
  <2> HIDE DEF k
  <2> QED BY <2>1, <2>2
<1> QED BY <1>1, <1>2

LEMMA ShareOK ==
  ASSUME NEW pool, PoolOK(pool), NEW p \in Pages
  PROVE  PoolOK(Share(pool, p))
<1>1. Without(pool.free, p) \in Seq(Pages)
  BY WithoutSeq DEF PoolOK
<1> QED BY <1>1 DEF PoolOK, Share

LEMMA DropOK ==
  ASSUME NEW pool, PoolOK(pool), NEW p \in Pages
  PROVE  PoolOK(Drop(pool, p)) /\ Len(pool.free) <= Len(Drop(pool, p).free)
BY DEF PoolOK, Drop

LEMMA MintOK ==
  ASSUME NEW pool, PoolOK(pool), NEW h, pool.free # <<>>
  PROVE  /\ PoolOK(Mint(pool, h))
         /\ Len(Mint(pool, h).free) = Len(pool.free) - 1
         /\ Head(pool.free) \in Pages
<1>1. Head(pool.free) \in Pages
  BY DEF PoolOK
<1>2. /\ Tail(pool.free) \in Seq(Pages)
      /\ Len(Tail(pool.free)) = Len(pool.free) - 1
  BY DEF PoolOK
<1> DEFINE p == Head(pool.free)
           u == Unbind(pool.h2p, pool.p2h[p])
<1>3. \A g \in DOMAIN u : u[g] \in Pages
  BY DEF PoolOK, Unbind
<1>4. \A g \in DOMAIN Bind(u, h, p) : Bind(u, h, p)[g] \in Pages
  BY <1>1, <1>3 DEF Bind
<1> HIDE DEF p, u
<1>5. Mint(pool, h) =
        [free |-> Tail(pool.free), ref |-> [pool.ref EXCEPT ![p] = @ + 1],
         p2h |-> [pool.p2h EXCEPT ![p] = h],
         h2p |-> IF h = NoHash THEN u ELSE Bind(u, h, p)]
  BY DEF Mint, p, u
<1> QED BY <1>1, <1>2, <1>3, <1>4, <1>5 DEF PoolOK, p

LEMMA RegisterOK ==
  ASSUME NEW pool, PoolOK(pool), NEW p \in Pages, NEW h
  PROVE  PoolOK(Register(pool, p, h)) /\ Register(pool, p, h).free = pool.free
<1>1. \A g \in DOMAIN Bind(pool.h2p, h, p) : Bind(pool.h2p, h, p)[g] \in Pages
  BY DEF PoolOK, Bind
<1> QED BY <1>1 DEF PoolOK, Register

LEMMA SharesOK ==
  ASSUME NEW pool, PoolOK(pool), NEW hit \in Seq(Pages)
  PROVE  PoolOK(Shares(pool, hit))
<1>1. Len(hit) \in Nat
  OBVIOUS
<1>2. PICK f : /\ f[0] = pool
               /\ \A n \in 1 .. Len(hit) : f[n] = Share(f[n - 1], hit[n])
               /\ Shares(pool, hit) = f[Len(hit)]
  BY <1>1, SharesLoop
<1> DEFINE G == {n \in 0 .. Len(hit) : PoolOK(f[n])}
<1>3. 0 \in G
  BY <1>2
<1>4. ASSUME NEW n \in 1 .. Len(hit), n - 1 \in G PROVE n \in G
  <2>1. PoolOK(f[n - 1]) /\ hit[n] \in Pages
    BY <1>4
  <2>2. PoolOK(f[n])
    BY <2>1, <1>2, ShareOK
  <2> QED BY <2>2
<1> HIDE DEF G
<1>5. \A n \in 0 .. Len(hit) : n \in G
  BY <1>1, <1>3, <1>4, Induct, Zenon
<1> QED BY <1>1, <1>2, <1>5 DEF G

LEMMA DropsOK ==
  ASSUME NEW pool, PoolOK(pool), NEW pages \in Seq(Pages)
  PROVE  PoolOK(Drops(pool, pages)) /\ Len(pool.free) <= Len(Drops(pool, pages).free)
<1>1. Len(pages) \in Nat
  OBVIOUS
<1>2. PICK f : /\ f[0] = pool
               /\ \A n \in 1 .. Len(pages) : f[n] = Drop(f[n - 1], pages[n])
               /\ Drops(pool, pages) = f[Len(pages)]
  BY <1>1, DropsLoop
<1> DEFINE G == {n \in 0 .. Len(pages) : PoolOK(f[n]) /\ Len(pool.free) <= Len(f[n].free)}
<1>3. 0 \in G
  BY <1>2 DEF PoolOK
<1>4. ASSUME NEW n \in 1 .. Len(pages), n - 1 \in G PROVE n \in G
  <2>1. PoolOK(f[n - 1]) /\ pages[n] \in Pages /\ Len(pool.free) <= Len(f[n - 1].free)
    BY <1>4
  <2>2. PoolOK(f[n]) /\ Len(f[n - 1].free) <= Len(f[n].free)
    BY <2>1, <1>2, DropOK
  <2>3. Len(pool.free) \in Nat /\ Len(f[n - 1].free) \in Nat /\ Len(f[n].free) \in Nat
    BY <2>1, <2>2 DEF PoolOK
  <2> QED BY <2>1, <2>2, <2>3
<1> HIDE DEF G
<1>5. \A n \in 0 .. Len(pages) : n \in G
  BY <1>1, <1>3, <1>4, Induct, Zenon
<1> QED BY <1>1, <1>2, <1>5 DEF G

-----------------------------------------------------------------------------
(* Sequences and schedulers.  A is the alphabet of the tokens. *)

ObjOK(A, o) ==
  /\ DOMAIN o = {"tok", "prompt", "table", "computed", "todo", "chain"}
  /\ o.tok \in Seq(A) /\ o.tok # <<>>
  /\ o.table \in Seq(Pages)
  /\ o.prompt \in Nat /\ o.computed \in Nat /\ o.todo \in Nat
  /\ o.prompt <= Len(o.tok) /\ o.computed <= Len(o.tok)

Rows == [req : Reqs, part : BOOLEAN]

SchFields ==
  {"obj", "prefill", "decode", "running", "pool", "filled", "jitter", "abort", "frees",
   "preempted", "hitters", "unwritten"}

Typed(A, s) ==
  /\ DOMAIN s = SchFields
  /\ DOMAIN s.obj = Reqs
  /\ \A q \in Reqs : ObjOK(A, s.obj[q])
  /\ PoolOK(s.pool)
  /\ s.jitter \in Nat
  /\ s.running \in Seq(Seq(Rows))
  /\ s.frees \in Seq(Reqs)

LEMMA FreePagesNat ==
  ASSUME NEW A, NEW s, Typed(A, s)
  PROVE  FreePages(s) \in Nat
<1>1. PoolOK(s.pool)
  BY DEF Typed
<1> QED BY <1>1 DEF PoolOK, FreePages

LEMMA WantedInt ==
  ASSUME NEW A, NEW s, Typed(A, s), NEW q \in Reqs
  PROVE  PagesWanted(s.obj[q]) \in Nat
<1> DEFINE o == s.obj[q]
           a == PagesFor(o.computed + o.todo) - Len(o.table)
<1>1. ObjOK(A, o)
  BY DEF Typed
<1> HIDE DEF o
<1>2. o.computed + o.todo \in Nat /\ Len(o.table) \in Nat
  BY <1>1 DEF ObjOK
<1>3. PagesFor(o.computed + o.todo) \in Nat
  BY <1>2, PagesForNext
<1>4. a \in Int /\ PagesWanted(o) = MaxOf(0, a)
  BY <1>2, <1>3 DEF PagesWanted
<1> HIDE DEF a
<1> QED BY <1>4, MinMax DEF o

\* t goes on where s ends.
Extends(s, t) == Len(s) <= Len(t) /\ \A i \in 1 .. Len(s) : t[i] = s[i]

\* Pages may have been added to an object.
Grown(o, p) ==
  /\ p.tok = o.tok /\ p.prompt = o.prompt /\ p.computed = o.computed /\ p.todo = o.todo
  /\ Extends(o.table, p.table)

\* Nothing but pages changes from s to t.
Around(s, t) ==
  /\ t.prefill = s.prefill /\ t.decode = s.decode /\ t.running = s.running
  /\ t.jitter = s.jitter /\ t.abort = s.abort /\ t.frees = s.frees
  /\ t.preempted = s.preempted
  /\ \A q \in Reqs : Grown(s.obj[q], t.obj[q])

LEMMA AroundSelf ==
  ASSUME NEW A, NEW s, Typed(A, s)
  PROVE  Around(s, s)
BY DEF Typed, ObjOK, Around, Grown, Extends

LEMMA AroundTrans ==
  ASSUME NEW A, NEW r, NEW s, NEW t, Typed(A, r), Typed(A, s), Typed(A, t),
         Around(r, s), Around(s, t)
  PROVE  Around(r, t)
<1>1. ASSUME NEW q \in Reqs PROVE Extends(r.obj[q].table, t.obj[q].table)
  <2> DEFINE a == r.obj[q].table
             b == s.obj[q].table
             c == t.obj[q].table
  <2>1. a \in Seq(Pages) /\ b \in Seq(Pages) /\ c \in Seq(Pages)
    BY DEF Typed, ObjOK
  <2>2. Extends(a, b) /\ Extends(b, c)
    BY DEF Around, Grown
  <2> HIDE DEF a, b, c
  <2>3. Extends(a, c)
    BY <2>1, <2>2 DEF Extends
  <2> QED BY <2>3 DEF a, b, c
<1> QED BY <1>1 DEF Around, Grown

\* One page more, from the pool.
LEMMA AddPageOK ==
  ASSUME NEW A, NEW s, Typed(A, s), NEW q \in Reqs, s.pool.free # <<>>
  PROVE  LET t == AddPage(s, q)
         IN  /\ Typed(A, t) /\ Around(s, t)
             /\ \A x \in Reqs \ {q} : t.obj[x] = s.obj[x]
             /\ Len(t.obj[q].table) = Len(s.obj[q].table) + 1
             /\ FreePages(t) = FreePages(s) - 1
<1> DEFINE o == s.obj[q]
           i == Len(o.table) + 1
           h == IF i * PageSize <= Len(o.tok) THEN HashOf(o, i) ELSE NoHash
           c == IF i * PageSize <= Len(o.tok) THEN Hashed(o, i) ELSE o.chain
           p == Head(s.pool.free)
           n == [o EXCEPT !.table = Append(@, p), !.chain = c]
           t == AddPage(s, q)
<1>1. t = [s EXCEPT !.pool = Mint(@, h), !.filled[p] = {}, !.obj[q] = n]
  BY DEF AddPage
<1>2. PoolOK(s.pool) /\ ObjOK(A, o)
  BY DEF Typed
<1>3. PoolOK(Mint(s.pool, h)) /\ Len(Mint(s.pool, h).free) = Len(s.pool.free) - 1 /\ p \in Pages
  BY <1>2, MintOK
<1> HIDE DEF h, c, p
<1>4. /\ ObjOK(A, n) /\ Grown(o, n) /\ Len(n.table) = Len(o.table) + 1
  BY <1>2, <1>3 DEF ObjOK, Grown, Extends
<1> HIDE DEF n, o, t
<1>5. /\ DOMAIN t = SchFields /\ DOMAIN t.obj = Reqs
      /\ t.pool = Mint(s.pool, h)
      /\ t.obj[q] = n /\ \A x \in Reqs \ {q} : t.obj[x] = s.obj[x]
      /\ t.prefill = s.prefill /\ t.decode = s.decode /\ t.running = s.running
      /\ t.jitter = s.jitter /\ t.abort = s.abort /\ t.frees = s.frees
      /\ t.preempted = s.preempted
  BY <1>1 DEF Typed, SchFields
<1>6. Typed(A, t)
  BY <1>3, <1>4, <1>5 DEF Typed
<1>7. Around(s, t)
  BY <1>4, <1>5, AroundSelf DEF Around, o
<1> QED BY <1>3, <1>4, <1>5, <1>6, <1>7 DEF t, o, FreePages

\* The pages that are wanted are added.
LEMMA PreAllocateOK ==
  ASSUME NEW A, NEW s, Typed(A, s), NEW q \in Reqs,
         PagesWanted(s.obj[q]) <= FreePages(s)
  PROVE  LET t == PreAllocate(s, q)
         IN  /\ Typed(A, t) /\ Around(s, t)
             /\ \A x \in Reqs \ {q} : t.obj[x] = s.obj[x]
             /\ PagesFor(t.obj[q].computed + t.obj[q].todo) <= Len(t.obj[q].table)
             /\ FreePages(t) = FreePages(s) - PagesWanted(s.obj[q])
<1> DEFINE o == s.obj[q]
           N == PagesWanted(o)
           m == PagesFor(o.computed + o.todo)
<1>0. /\ ObjOK(A, o) /\ Len(o.table) \in Nat /\ o.computed + o.todo \in Nat
      /\ FreePages(s) \in Nat /\ N <= FreePages(s)
  <2>1. ObjOK(A, o) /\ PoolOK(s.pool) /\ N <= FreePages(s)
    BY DEF Typed
  <2> HIDE DEF o, N
  <2> QED BY <2>1 DEF ObjOK, PoolOK, FreePages
<1>1. m \in Nat
  BY <1>0, PagesForNext
<1>2. N \in Nat /\ N >= m - Len(o.table) /\ N <= FreePages(s)
  <2>1. N = MaxOf(0, m - Len(o.table))
    BY DEF PagesWanted
  <2> HIDE DEF m, o, N
  <2>2. m - Len(o.table) \in Int
    BY <1>0, <1>1
  <2>3. N \in {0, m - Len(o.table)} /\ N >= 0 /\ N >= m - Len(o.table)
    BY <2>1, <2>2, MinMax
  <2> QED BY <1>0, <2>2, <2>3
<1>3. PICK f : /\ f[0] = s
               /\ \A n \in 1 .. N : f[n] = AddPage(f[n - 1], q)
               /\ PreAllocate(s, q) = f[N]
  BY <1>2, PreAllocateLoop
<1> HIDE DEF N
<1> DEFINE OK(n) == /\ Typed(A, f[n]) /\ Around(s, f[n])
                    /\ \A x \in Reqs \ {q} : f[n].obj[x] = s.obj[x]
                    /\ Len(f[n].obj[q].table) = Len(o.table) + n
                    /\ FreePages(f[n]) = FreePages(s) - n
           G == {n \in 0 .. N : OK(n)}
<1>4. OK(0)
  BY <1>0, <1>3, AroundSelf
<1>5. ASSUME NEW n \in 1 .. N, OK(n - 1) PROVE OK(n)
  <2> DEFINE r == f[n - 1]
             t == f[n]
  <2>1. /\ Typed(A, r) /\ Around(s, r)
        /\ \A x \in Reqs \ {q} : r.obj[x] = s.obj[x]
        /\ Len(r.obj[q].table) = Len(o.table) + (n - 1)
        /\ FreePages(r) = FreePages(s) - (n - 1)
    BY <1>5
  <2>2. t = AddPage(r, q)
    BY <1>3
  <2> HIDE DEF r, t
  <2>3. r.pool.free # <<>>
    BY <1>0, <1>2, <2>1 DEF FreePages
  <2>4. /\ Typed(A, t) /\ Around(r, t)
        /\ \A x \in Reqs \ {q} : t.obj[x] = r.obj[x]
        /\ Len(t.obj[q].table) = Len(r.obj[q].table) + 1
        /\ FreePages(t) = FreePages(r) - 1
    BY <2>1, <2>2, <2>3, AddPageOK
  <2>5. Around(s, t)
    BY <2>1, <2>4, AroundTrans
  <2>6. /\ Len(t.obj[q].table) = Len(o.table) + n
        /\ FreePages(t) = FreePages(s) - n
    BY <1>0, <2>1, <2>4
  <2> QED BY <2>1, <2>4, <2>5, <2>6 DEF t
<1> HIDE DEF OK
<1>6. 0 \in G
  BY <1>2, <1>4
<1>7. ASSUME NEW n \in 1 .. N, n - 1 \in G PROVE n \in G
  BY <1>5, <1>7
<1> HIDE DEF G
<1>8. \A n \in 0 .. N : n \in G
  BY <1>2, <1>6, <1>7, Induct, Zenon
<1>9. OK(N)
  BY <1>2, <1>8 DEF G
<1> DEFINE t == f[N]
<1>10. /\ Typed(A, t) /\ Around(s, t)
       /\ \A x \in Reqs \ {q} : t.obj[x] = s.obj[x]
       /\ Len(t.obj[q].table) = Len(o.table) + N
       /\ FreePages(t) = FreePages(s) - N
  BY <1>9 DEF OK
<1> HIDE DEF t
<1>11. t.obj[q].computed = o.computed /\ t.obj[q].todo = o.todo
  BY <1>10 DEF Around, Grown
<1>12. m <= Len(t.obj[q].table)
  BY <1>0, <1>1, <1>2, <1>10
<1> QED BY <1>3, <1>10, <1>11, <1>12 DEF t, N

-----------------------------------------------------------------------------
(* The prefix cache. *)

\* The leading pages before the first miss.
LEMMA CachedPagesOK ==
  ASSUME NEW A, NEW pool, NEW o, ObjOK(A, o)
  PROVE  LET k == CachedPages(pool, o)
         IN  /\ k \in Nat /\ \A i \in 1 .. k : HashOf(o, i) \in DOMAIN pool.h2p
             /\ PageSize * k <= Len(o.tok)
<1> DEFINE M == Len(o.tok) \div PageSize
           Hit(i) == HashOf(o, i) \in DOMAIN pool.h2p
           Good(n) == /\ \A i \in 1 .. n : Hit(i)
                      /\ (n + 1) * PageSize <= Len(o.tok) => ~Hit(n + 1)
           T == {n \in 0 .. M : n = M \/ ~Hit(n + 1)}
<1>0. Len(o.tok) \in Nat /\ PageSize \in Nat \ {0}
  BY SchedulerAssumption DEF ObjOK
<1>1. /\ M \in Nat /\ PageSize * M <= Len(o.tok) /\ Len(o.tok) < PageSize * M + PageSize
  BY <1>0, DivBounds
<1>2. CachedPages(pool, o) = CHOOSE n \in 0 .. M : Good(n)
  BY DEF CachedPages
<1> HIDE DEF Hit, M
<1>3. T \in SUBSET Nat /\ M \in T
  BY <1>1
<1>4. PICK n \in T : \A k \in T : n <= k
  BY <1>3, LeastNat
<1>5. n \in 0 .. M
  OBVIOUS
<1>6. ASSUME NEW i \in 1 .. n PROVE Hit(i)
  <2>1. i - 1 \in 0 .. M /\ i - 1 < n /\ i - 1 # M /\ (i - 1) + 1 = i
    BY <1>1, <1>5
  <2>2. i - 1 \notin T
    BY <1>4, <1>5, <2>1
  <2> QED BY <2>1, <2>2
<1>7. ASSUME (n + 1) * PageSize <= Len(o.tok) PROVE ~Hit(n + 1)
  <2>1. CASE n = M
    <3>1. (M + 1) * PageSize = PageSize * M + PageSize
      BY <1>0, <1>1
    <3>2. (M + 1) * PageSize \in Int /\ PageSize * M \in Int
      BY <1>0, <1>1
    <3> QED BY <1>0, <1>1, <1>7, <2>1, <3>1, <3>2
  <2>2. CASE n # M
    BY <2>2
  <2> QED BY <2>1, <2>2
<1>8. \E k \in 0 .. M : Good(k)
  BY <1>5, <1>6, <1>7
<1> HIDE DEF Good
<1> DEFINE k == CHOOSE j \in 0 .. M : Good(j)
<1>9. k \in 0 .. M /\ Good(k)
  BY <1>8
<1>10. PageSize * k <= Len(o.tok)
  <2> HIDE DEF k
  <2>1. k \in Nat /\ k <= M
    BY <1>1, <1>9
  <2>2. PageSize * k <= PageSize * M
    BY <1>0, <1>1, <2>1
  <2>3. PageSize * k \in Nat /\ PageSize * M \in Nat
    BY <1>0, <1>1, <2>1
  <2> QED BY <1>0, <1>1, <2>2, <2>3
<1> QED BY <1>1, <1>2, <1>9, <1>10 DEF Good, Hit

\* has_computed: pages are taken over from the cache, and the first token that is
\* not in them is where the request starts.
LEMMA LookUpOK ==
  ASSUME NEW A, NEW s, Typed(A, s), NEW q \in Reqs
  PROVE  LET t == LookUp(s, q)
         IN  /\ Typed(A, t)
             /\ t.prefill = s.prefill /\ t.decode = s.decode /\ t.running = s.running
             /\ t.jitter = s.jitter /\ t.abort = s.abort /\ t.frees = s.frees
             /\ t.preempted = s.preempted
             /\ \A x \in Reqs \ {q} : t.obj[x] = s.obj[x]
             /\ t.obj[q].tok = s.obj[q].tok /\ t.obj[q].prompt = s.obj[q].prompt
             /\ t.obj[q].computed < Len(t.obj[q].tok)
<1> DEFINE o == s.obj[q]
           k == CachedPages(s.pool, o)
           hit == [i \in 1 .. k |-> s.pool.h2p[HashOf(o, i)]]
           c == Hashed(o, MinOf(k + 1, Len(o.tok) \div PageSize))
           d == MinOf(k * PageSize, Len(o.tok) - 1)
           n == [o EXCEPT !.table = hit, !.computed = d, !.chain = c]
           t == LookUp(s, q)
<1>0. ObjOK(A, o) /\ PoolOK(s.pool) /\ PageSize \in Nat \ {0}
  BY SchedulerAssumption DEF Typed
<1>1. t = [s EXCEPT !.pool = Shares(@, hit),
                    !.hitters = IF k = 0 THEN @ ELSE @ \cup {q},
                    !.obj[q] = n]
  BY DEF LookUp, TakeCached
<1>2. k \in Nat /\ \A i \in 1 .. k : HashOf(o, i) \in DOMAIN s.pool.h2p
  BY <1>0, CachedPagesOK
<1> HIDE DEF k
<1>3. hit \in Seq(Pages)
  BY <1>0, <1>2 DEF PoolOK
<1>4. PoolOK(Shares(s.pool, hit))
  BY <1>0, <1>3, SharesOK
<1>5. d \in Nat /\ d < Len(o.tok)
  <2>1. k * PageSize \in Nat
    BY <1>0, <1>2
  <2>2. Len(o.tok) - 1 \in Nat
    BY <1>0 DEF ObjOK
  <2> QED BY <2>1, <2>2, MinMax
<1> HIDE DEF hit, c, d, o
<1>6. ObjOK(A, n) /\ n.tok = o.tok /\ n.prompt = o.prompt /\ n.computed = d
  BY <1>0, <1>3, <1>5 DEF ObjOK
<1> HIDE DEF n, t
<1>7. /\ DOMAIN t = SchFields /\ DOMAIN t.obj = Reqs
      /\ t.pool = Shares(s.pool, hit)
      /\ t.obj[q] = n /\ \A x \in Reqs \ {q} : t.obj[x] = s.obj[x]
      /\ t.prefill = s.prefill /\ t.decode = s.decode /\ t.running = s.running
      /\ t.jitter = s.jitter /\ t.abort = s.abort /\ t.frees = s.frees
      /\ t.preempted = s.preempted
  BY <1>1 DEF Typed, SchFields
<1>8. Typed(A, t)
  BY <1>4, <1>6, <1>7 DEF Typed
<1> QED BY <1>5, <1>6, <1>7, <1>8 DEF t, o

\* free: the pages of a request go back, and nothing else changes.
LEMMA GiveBackOK ==
  ASSUME NEW A, NEW s, Typed(A, s), NEW q \in Reqs
  PROVE  LET t == GiveBack(s, q)
         IN  /\ Typed(A, t) /\ Around(s, t) /\ t.obj = s.obj
             /\ FreePages(s) <= FreePages(t)
<1> DEFINE t == GiveBack(s, q)
           pool == Drops(s.pool, s.obj[q].table)
<1>1. PoolOK(pool) /\ Len(s.pool.free) <= Len(pool.free)
  BY DropsOK DEF Typed, ObjOK
<1>2. t = [s EXCEPT !.pool = pool]
  BY DEF GiveBack
<1> HIDE DEF pool, t
<1>3. /\ DOMAIN t = SchFields /\ t.obj = s.obj /\ t.pool = pool
      /\ t.prefill = s.prefill /\ t.decode = s.decode /\ t.running = s.running
      /\ t.jitter = s.jitter /\ t.abort = s.abort /\ t.frees = s.frees
      /\ t.preempted = s.preempted
  BY <1>2 DEF Typed, SchFields
<1>4. Typed(A, t)
  BY <1>1, <1>3 DEF Typed
<1> QED BY <1>1, <1>3, <1>4, AroundSelf DEF t, FreePages, Around

-----------------------------------------------------------------------------
(* Where the requests are: W wait for a prefill, D for a decode, and those of *)
(* F are in a batch that computes their last chunk or their next token.       *)

Waits(o) == o.computed < Len(o.tok)

Decodes(o) ==
  /\ o.prompt <= o.computed /\ o.computed < Len(o.tok)
  /\ PagesFor(o.computed) <= Len(o.table)

Flies(o) ==
  /\ o.prompt <= o.computed + o.todo /\ o.computed + o.todo <= Len(o.tok)
  /\ PagesFor(o.computed + o.todo) <= Len(o.table)

Placed(s, W, D, F) ==
  /\ Lists(s.prefill, W) /\ Lists(s.decode, D) /\ F \subseteq Reqs
  /\ W \cap D = {} /\ W \cap F = {} /\ D \cap F = {}
  /\ \A q \in W : Waits(s.obj[q])
  /\ \A q \in D : Decodes(s.obj[q])
  /\ \A q \in F : Flies(s.obj[q])

LEMMA ListsIn ==
  ASSUME NEW s, NEW S, Lists(s, S)
  PROVE  S \subseteq Reqs
BY DEF Lists

LEMMA WithoutLen ==
  ASSUME NEW s \in Seq(Reqs), NEW x, \E i \in 1 .. Len(s) : s[i] = x
  PROVE  Len(Without(s, x)) = Len(s) - 1
<1> DEFINE k == CHOOSE i \in 1 .. Len(s) : s[i] = x
<1>1. Without(s, x) = [i \in 1 .. Len(s) - 1 |-> IF i < k THEN s[i] ELSE s[i + 1]]
  BY DEF Without
<1>2. Len(s) - 1 \in Nat
  OBVIOUS
<1> HIDE DEF k
<1> QED BY <1>1, <1>2

-----------------------------------------------------------------------------
(* Preemption. *)

\* The victim is a decoding request.
LEMMA LargestIn ==
  ASSUME NEW A, NEW s, Typed(A, s), NEW D, Lists(s.decode, D), s.decode # <<>>
  PROVE  Largest(s) \in D
<1> DEFINE size(i) == Len(s.obj[s.decode[i]].table)
           N == Len(s.decode)
           Best(i, n) == \A j \in 1 .. n : size(j) < size(i) \/ (size(j) = size(i) /\ i <= j)
           G == {n \in 0 .. N : n = 0 \/ \E i \in 1 .. n : Best(i, n)}
<1>1. N \in Nat \ {0} /\ DOMAIN s.decode = 1 .. N /\ s.decode \in Seq(Reqs)
  BY DEF Lists
<1>2. ASSUME NEW i \in 1 .. N PROVE size(i) \in Nat
  <2>1. s.decode[i] \in Reqs
    BY <1>1
  <2>2. ObjOK(A, s.obj[s.decode[i]])
    BY <2>1 DEF Typed
  <2> QED BY <2>2 DEF ObjOK
<1>3. Largest(s) = s.decode[CHOOSE i \in 1 .. N : Best(i, N)]
  BY <1>1 DEF Largest
<1> HIDE DEF size, N
<1>4. 0 \in G
  BY <1>1
<1>5. ASSUME NEW n \in 1 .. N, n - 1 \in G PROVE n \in G
  <2>1. CASE n - 1 = 0
    <3>1. Best(n, n)
      BY <1>2, <2>1
    <3> QED BY <3>1
  <2>2. CASE n - 1 # 0
    <3>1. PICK i \in 1 .. n - 1 : Best(i, n - 1)
      BY <1>5, <2>2
    <3>2. CASE size(n) <= size(i)
      <4>1. ASSUME NEW j \in 1 .. n
            PROVE  size(j) < size(i) \/ (size(j) = size(i) /\ i <= j)
        <5>1. CASE j = n
          BY <1>1, <1>2, <3>2, <5>1
        <5>2. CASE j # n
          BY <1>1, <3>1, <5>2
        <5> QED BY <5>1, <5>2
      <4>2. i \in 1 .. n
        OBVIOUS
      <4> QED BY <4>1, <4>2
    <3>3. CASE size(i) < size(n)
      <4>1. Best(n, n)
        BY <1>1, <1>2, <3>1, <3>3
      <4> QED BY <4>1
    <3>4. size(n) \in Nat /\ size(i) \in Nat
      BY <1>1, <1>2
    <3> QED BY <3>2, <3>3, <3>4
  <2> QED BY <2>1, <2>2
<1> HIDE DEF G
<1>6. \A n \in 0 .. N : n \in G
  BY <1>1, <1>4, <1>5, Induct, Zenon
<1> HIDE DEF Best
<1>7. \E i \in 1 .. N : Best(i, N)
  <2>1. N \in G /\ N # 0
    BY <1>1, <1>6
  <2> QED BY <2>1 DEF G
<1> DEFINE m == CHOOSE i \in 1 .. N : Best(i, N)
<1>8. m \in 1 .. N
  BY <1>7
<1> QED BY <1>1, <1>3, <1>8 DEF Lists, N

\* t is s after the requests of V were preempted.
Preempted(A, s, t, W, D, F, V) ==
  /\ V \subseteq D
  /\ Typed(A, t) /\ Placed(t, W \cup V, D \ V, F)
  /\ t.running = s.running /\ t.jitter = s.jitter /\ t.abort = s.abort /\ t.frees = s.frees
  /\ t.preempted = s.preempted \cup V
  /\ FreePages(s) <= FreePages(t)
  /\ \A x \in Reqs \ V : t.obj[x] = s.obj[x]
  /\ \A x \in V : t.obj[x].tok = s.obj[x].tok /\ t.obj[x].prompt = Len(s.obj[x].tok)

\* A victim waits again, its output a part of its prompt.
LEMMA PreemptOneOK ==
  ASSUME NEW A, NEW s, Typed(A, s), NEW W, NEW D, NEW F, Placed(s, W, D, F), NEW q \in D
  PROVE  /\ Preempted(A, s, PreemptOne(s, q), W, D, F, {q})
         /\ Len(PreemptOne(s, q).decode) = Len(s.decode) - 1
<1> DEFINE g == GiveBack(s, q)
           o == s.obj[q]
           n == Restarted(o)
           t == PreemptOne(s, q)
<1>0. q \in Reqs /\ ObjOK(A, o)
  BY ListsIn DEF Placed, Typed
<1>1. Typed(A, g) /\ Around(s, g) /\ g.obj = s.obj /\ FreePages(s) <= FreePages(g)
  BY <1>0, GiveBackOK
<1>2. t = [g EXCEPT !.decode = Without(@, q), !.prefill = <<q>> \o @,
                    !.preempted = @ \cup {q}, !.obj[q] = Restarted(@)]
  BY DEF PreemptOne
<1> HIDE DEF g, t
<1>3. /\ DOMAIN t = SchFields /\ DOMAIN t.obj = Reqs
      /\ t.pool = g.pool /\ t.decode = Without(s.decode, q) /\ t.prefill = <<q>> \o s.prefill
      /\ t.preempted = s.preempted \cup {q}
      /\ t.obj[q] = n /\ \A x \in Reqs \ {q} : t.obj[x] = s.obj[x]
      /\ t.running = s.running /\ t.jitter = s.jitter /\ t.abort = s.abort
      /\ t.frees = s.frees
  BY <1>0, <1>1, <1>2 DEF Typed, SchFields, Around
<1>4. /\ ObjOK(A, n) /\ n.tok = o.tok /\ n.prompt = Len(o.tok) /\ Waits(n)
  BY <1>0 DEF ObjOK, Restarted, Waits
<1> HIDE DEF n
<1>5. Typed(A, t)
  BY <1>0, <1>1, <1>3, <1>4 DEF Typed
<1>6. Lists(t.decode, D \ {q}) /\ Lists(t.prefill, W \cup {q})
  BY <1>0, <1>3, ListsWithout, ListsPrepend DEF Placed
<1>7. Placed(t, W \cup {q}, D \ {q}, F)
  <2>1. \A x \in (W \cup {q}) \cup D \cup F : x \in Reqs
    BY <1>0, ListsIn DEF Placed
  <2>2. \A x \in W \cup {q} : Waits(t.obj[x])
    BY <1>3, <1>4, <2>1 DEF Placed
  <2>3. \A x \in D \ {q} : Decodes(t.obj[x])
    BY <1>3, <2>1 DEF Placed
  <2>4. \A x \in F : Flies(t.obj[x])
    BY <1>3, <2>1 DEF Placed
  <2> QED BY <1>6, <2>2, <2>3, <2>4 DEF Placed
<1>8. Len(t.decode) = Len(s.decode) - 1
  BY <1>3, WithoutLen DEF Placed, Lists
<1>9. FreePages(s) <= FreePages(t)
  BY <1>1, <1>3 DEF FreePages
<1> QED BY <1>3, <1>4, <1>5, <1>7, <1>8, <1>9 DEF Preempted, t

LEMMA PreemptedSelf ==
  ASSUME NEW A, NEW s, Typed(A, s), NEW W, NEW D, NEW F, Placed(s, W, D, F)
  PROVE  Preempted(A, s, s, W, D, F, {})
<1>1. W \cup {} = W /\ D \ {} = D /\ s.preempted \cup {} = s.preempted
  OBVIOUS
<1>2. FreePages(s) \in Nat
  BY DEF FreePages, Typed, PoolOK
<1> QED BY <1>1, <1>2 DEF Preempted

LEMMA PreemptedTrans ==
  ASSUME NEW A, NEW r, NEW s, NEW t, Typed(A, r), Typed(A, s), Typed(A, t),
         NEW W, NEW D, NEW F, NEW V, NEW X, D \subseteq Reqs,
         Preempted(A, r, s, W, D, F, V), Preempted(A, s, t, W \cup V, D \ V, F, X)
  PROVE  Preempted(A, r, t, W, D, F, V \cup X)
<1>1. (W \cup V) \cup X = W \cup (V \cup X) /\ (D \ V) \ X = D \ (V \cup X)
  OBVIOUS
<1>2. FreePages(r) \in Nat /\ FreePages(s) \in Nat /\ FreePages(t) \in Nat
  BY DEF FreePages, Typed, PoolOK
<1>3. /\ FreePages(r) <= FreePages(t)
      /\ V \cup X \subseteq D
      /\ t.preempted = r.preempted \cup (V \cup X)
  BY <1>2 DEF Preempted
<1>4. /\ \A x \in Reqs \ (V \cup X) : t.obj[x] = r.obj[x]
      /\ t.running = r.running /\ t.jitter = r.jitter /\ t.abort = r.abort
      /\ t.frees = r.frees
      /\ Typed(A, t) /\ Placed(t, (W \cup V) \cup X, (D \ V) \ X, F)
  BY DEF Preempted
<1>5. ASSUME NEW x \in V \cup X
      PROVE  t.obj[x].tok = r.obj[x].tok /\ t.obj[x].prompt = Len(r.obj[x].tok)
  <2>1. CASE x \in V
    BY <2>1 DEF Preempted
  <2>2. CASE x \in X
    BY <2>2 DEF Preempted
  <2> QED BY <2>1, <2>2
<1> QED BY <1>1, <1>3, <1>4, <1>5 DEF Preempted

\* check_preempt: some decoding requests wait again, and there are pages enough or
\* none decodes.
LEMMA PreemptOK ==
  ASSUME NEW A, NEW s, Typed(A, s), NEW W, NEW D, NEW F, Placed(s, W, D, F),
         NEW need \in Nat
  PROVE  LET t == Preempt(s, need)
         IN  /\ \E V : Preempted(A, s, t, W, D, F, V)
             /\ FreePages(t) >= need \/ t.decode = <<>>
<1> DEFINE N == Len(s.decode)
<1>1. N \in Nat /\ D \subseteq Reqs
  BY ListsIn DEF Placed, Lists
<1>2. PICK f : /\ f[0] = s
               /\ \A n \in 1 .. N : f[n] = PreemptNext(f[n - 1], need)
               /\ Preempt(s, need) = f[N]
  BY <1>1, PreemptLoop
<1> DEFINE OK(n) == /\ \E V : Preempted(A, s, f[n], W, D, F, V)
                    /\ FreePages(f[n]) >= need \/ Len(f[n].decode) <= N - n
           G == {n \in 0 .. N : OK(n)}
<1>3. OK(0)
  BY <1>1, <1>2, PreemptedSelf
<1> HIDE DEF N
<1>4. ASSUME NEW n \in 1 .. N, OK(n - 1) PROVE OK(n)
  <2> DEFINE r == f[n - 1]
             t == f[n]
  <2>1. PICK V : Preempted(A, s, r, W, D, F, V)
    BY <1>4
  <2>2. FreePages(r) >= need \/ Len(r.decode) <= N - (n - 1)
    BY <1>4
  <2>3. t = PreemptNext(r, need)
    BY <1>2
  <2> HIDE DEF r, t
  <2>4. Typed(A, r) /\ Placed(r, W \cup V, D \ V, F) /\ Lists(r.decode, D \ V)
    BY <2>1 DEF Preempted, Placed
  <2>5. FreePages(r) \in Nat /\ Len(r.decode) \in Nat
    BY <2>4 DEF FreePages, Typed, PoolOK, Lists
  <2>6. CASE FreePages(r) >= need \/ r.decode = <<>>
    <3>1. t = r
      BY <2>3, <2>6 DEF PreemptNext
    <3>2. FreePages(r) >= need \/ Len(r.decode) = 0
      BY <2>6
    <3>3. FreePages(t) >= need \/ Len(t.decode) <= N - n
      BY <1>1, <2>5, <3>1, <3>2
    <3> QED BY <2>1, <3>1, <3>3 DEF t
  <2>7. CASE ~(FreePages(r) >= need \/ r.decode = <<>>)
    <3> DEFINE q == Largest(r)
    <3>1. t = PreemptOne(r, q)
      BY <2>3, <2>7 DEF PreemptNext
    <3>2. q \in D \ V
      BY <2>4, <2>7, LargestIn
    <3> HIDE DEF q
    <3>3. /\ Preempted(A, r, t, W \cup V, D \ V, F, {q})
          /\ Len(t.decode) = Len(r.decode) - 1
      BY <2>4, <3>1, <3>2, PreemptOneOK
    <3>4. Typed(A, t)
      BY <3>3 DEF Preempted
    <3>5. Preempted(A, s, t, W, D, F, V \cup {q})
      BY <1>1, <2>1, <2>4, <3>3, <3>4, PreemptedTrans
    <3>6. Len(t.decode) <= N - n
      BY <1>1, <2>2, <2>5, <2>7, <3>3
    <3> QED BY <3>5, <3>6 DEF t
  <2> QED BY <2>6, <2>7
<1> HIDE DEF OK
<1>5. 0 \in G
  BY <1>1, <1>3
<1>6. ASSUME NEW n \in 1 .. N, n - 1 \in G PROVE n \in G
  BY <1>4, <1>6
<1> HIDE DEF G
<1>7. \A n \in 0 .. N : n \in G
  BY <1>1, <1>5, <1>6, Induct, Zenon
<1>8. OK(N)
  BY <1>1, <1>7 DEF G
<1> DEFINE t == f[N]
<1>9. /\ \E V : Preempted(A, s, t, W, D, F, V)
      /\ FreePages(t) >= need \/ Len(t.decode) <= N - N
  BY <1>8 DEF OK
<1> HIDE DEF t
<1>10. t.decode \in Seq(Reqs)
  BY <1>9 DEF Preempted, Placed, Lists
<1>11. FreePages(t) >= need \/ t.decode = <<>>
  BY <1>1, <1>9, <1>10
<1> QED BY <1>2, <1>9, <1>11 DEF t

-----------------------------------------------------------------------------
(* Decode batches. *)

IsSeq(b) == \E S : b \in Seq(S)

\* The rows of b are of different requests: those of B, whose token it samples, and
\* those of U, with an unfinished chunk.
IsBatch(b, B, U) ==
  /\ IsSeq(b)
  /\ \A i \in 1 .. Len(b) : b[i].req \in Reqs /\ b[i].part \in BOOLEAN
  /\ \A i, j \in 1 .. Len(b) : b[i].req = b[j].req => i = j
  /\ \A q : q \in B <=> \E i \in 1 .. Len(b) : b[i].req = q /\ ~b[i].part
  /\ \A q : q \in U <=> \E i \in 1 .. Len(b) : b[i].req = q /\ b[i].part

\* What the rows say of their requests.
Shows(b, s) ==
  \A i \in 1 .. Len(b) : LET o == s.obj[b[i].req]
                         IN  b[i].table = o.table /\ b[i].prompt = o.prompt

LEMMA FcnIsSeq ==
  ASSUME NEW n \in Nat, NEW b, b = [i \in 1 .. n |-> b[i]]
  PROVE  IsSeq(b) /\ Len(b) = n
<1> DEFINE S == {b[i] : i \in 1 .. n}
<1>1. b \in [1 .. n -> S]
  OBVIOUS
<1> HIDE DEF S
<1>2. b \in Seq(S) /\ Len(b) = n
  BY <1>1
<1>3. \E T : b \in Seq(T)
  BY <1>2, Zenon
<1> QED BY <1>2, <1>3 DEF IsSeq

\* The rows of the decoding requests that are taken.
LEMMA DecodesBatch ==
  ASSUME NEW s, NEW taken, NEW T, Lists(taken, T)
  PROVE  LET b == [i \in DOMAIN taken |-> Element(s.obj[taken[i]], taken[i], FALSE)]
         IN  IsBatch(b, T, {}) /\ Shows(b, s)
<1> DEFINE e(i) == Element(s.obj[taken[i]], taken[i], FALSE)
           b == [i \in DOMAIN taken |-> e(i)]
           n == Len(taken)
<1>1. /\ n \in Nat /\ DOMAIN taken = 1 .. n /\ taken \in Seq(Reqs) /\ Injective(taken)
      /\ \A q : q \in T <=> \E i \in 1 .. n : taken[i] = q
  BY DEF Lists
<1>2. ASSUME NEW i \in 1 .. n
      PROVE  /\ e(i).req = taken[i] /\ e(i).part = FALSE /\ taken[i] \in Reqs
             /\ e(i).table = s.obj[taken[i]].table /\ e(i).prompt = s.obj[taken[i]].prompt
  BY <1>1 DEF Element
<1> HIDE DEF e
<1>3. b = [i \in 1 .. n |-> b[i]] /\ \A i \in 1 .. n : b[i] = e(i)
  BY <1>1
<1> HIDE DEF b
<1>4. IsSeq(b) /\ Len(b) = n
  BY <1>1, <1>3, FcnIsSeq
<1> HIDE DEF n
<1>5. \A i \in 1 .. n : /\ b[i].req = taken[i] /\ ~b[i].part /\ b[i].part \in BOOLEAN
                         /\ taken[i] \in Reqs
                         /\ b[i].table = s.obj[taken[i]].table
                         /\ b[i].prompt = s.obj[taken[i]].prompt
  BY <1>2, <1>3
<1>6. \A i, j \in 1 .. n : b[i].req = b[j].req => i = j
  BY <1>1, <1>5 DEF Injective, n
<1>7. \A q : q \in T <=> \E i \in 1 .. n : b[i].req = q /\ ~b[i].part
  BY <1>1, <1>5
<1>8. \A q : q \in {} <=> \E i \in 1 .. n : b[i].req = q /\ b[i].part
  BY <1>5
<1>9. IsBatch(b, T, {})
  BY <1>4, <1>5, <1>6, <1>7, <1>8 DEF IsBatch
<1>10. Shows(b, s)
  BY <1>4, <1>5 DEF Shows
<1> QED BY <1>9, <1>10 DEF b, e

\* The decoding requests of T get their next token.
LEMMA SteppedOK ==
  ASSUME NEW A, NEW s, Typed(A, s), NEW W, NEW D, NEW F, Placed(s, W, D, F),
         NEW n \in 0 .. Len(s.decode)
  PROVE  LET t == Stepped(s, n)
             T == {s.decode[i] : i \in 1 .. n}
         IN  /\ Typed(A, t) /\ T \subseteq D
             /\ Lists(SubSeq(s.decode, 1, n), T) /\ Lists(t.decode, D \ T)
             /\ t.prefill = s.prefill /\ t.running = s.running /\ t.jitter = s.jitter
             /\ t.abort = s.abort /\ t.frees = s.frees /\ t.preempted = s.preempted
             /\ t.pool = s.pool
             /\ \A x \in Reqs \ T : t.obj[x] = s.obj[x]
             /\ \A x \in T : /\ t.obj[x] = [s.obj[x] EXCEPT !.todo = 1]
                             /\ PagesWanted(t.obj[x]) <= 1
<1> DEFINE T == {s.decode[i] : i \in 1 .. n}
           taken == SubSeq(s.decode, 1, n)
           t == Stepped(s, n)
<1>1. /\ T \subseteq D /\ Lists(taken, T)
      /\ Lists(SubSeq(s.decode, n + 1, Len(s.decode)), D \ T)
  BY ListsSplit DEF Placed
<1>2. t = [s EXCEPT !.decode = SubSeq(@, n + 1, Len(@)),
                    !.obj = [q \in Reqs |-> IF q \in Range(taken)
                                            THEN [@[q] EXCEPT !.todo = 1] ELSE @[q]]]
  BY DEF Stepped
<1>3. Range(taken) = T
  <2>1. DOMAIN taken = 1 .. Len(taken)
    BY <1>1 DEF Lists
  <2> HIDE DEF taken, T
  <2> QED BY <1>1, <2>1 DEF Lists, Range
<1> HIDE DEF T, t, taken
<1>4. /\ DOMAIN t = SchFields /\ DOMAIN t.obj = Reqs
      /\ t.decode = SubSeq(s.decode, n + 1, Len(s.decode))
      /\ t.prefill = s.prefill /\ t.running = s.running /\ t.jitter = s.jitter
      /\ t.abort = s.abort /\ t.frees = s.frees /\ t.preempted = s.preempted
      /\ t.pool = s.pool
      /\ \A x \in Reqs \ T : t.obj[x] = s.obj[x]
      /\ \A x \in Reqs \cap T : t.obj[x] = [s.obj[x] EXCEPT !.todo = 1]
  BY <1>2, <1>3 DEF Typed, SchFields
<1>5. T \subseteq Reqs /\ D \subseteq Reqs
  BY <1>1, ListsIn
<1>6. ASSUME NEW x \in T
      PROVE  ObjOK(A, t.obj[x]) /\ PagesWanted(t.obj[x]) <= 1
  <2> DEFINE o == s.obj[x]
             p == t.obj[x]
  <2>1. ObjOK(A, o) /\ Decodes(o) /\ p = [o EXCEPT !.todo = 1]
    BY <1>1, <1>4, <1>5 DEF Typed, Placed
  <2> HIDE DEF o, p
  <2>2. ObjOK(A, p) /\ p.computed = o.computed /\ p.todo = 1 /\ p.table = o.table
    BY <2>1 DEF ObjOK
  <2>3. /\ PagesFor(o.computed) \in Nat /\ PagesFor(o.computed + 1) \in Nat
        /\ PagesFor(o.computed + 1) <= PagesFor(o.computed) + 1
    BY <2>1, PagesForNext DEF ObjOK
  <2>4. /\ PagesFor(o.computed + 1) - Len(o.table) \in Int
        /\ PagesFor(o.computed + 1) - Len(o.table) <= 1
    <3>1. PagesFor(o.computed) <= Len(o.table) /\ Len(o.table) \in Nat
      BY <2>1 DEF Decodes, ObjOK
    <3> QED BY <2>3, <3>1
  <2>5. PagesWanted(p) \in {0, PagesFor(o.computed + 1) - Len(o.table)}
    BY <2>2, <2>4, MinMax DEF PagesWanted
  <2> QED BY <2>2, <2>4, <2>5 DEF p
<1>7. Typed(A, t)
  BY <1>4, <1>5, <1>6 DEF Typed
<1> QED BY <1>1, <1>4, <1>5, <1>6, <1>7 DEF T, t, taken

\* Each of them gets the page it wants.
LEMMA PreAllocatesOK ==
  ASSUME NEW A, NEW s, Typed(A, s), NEW taken, NEW T, Lists(taken, T),
         Len(taken) <= FreePages(s), \A x \in T : PagesWanted(s.obj[x]) <= 1
  PROVE  LET t == PreAllocates(s, taken)
         IN  /\ Typed(A, t) /\ Around(s, t)
             /\ \A x \in Reqs \ T : t.obj[x] = s.obj[x]
             /\ \A x \in T : PagesFor(t.obj[x].computed + t.obj[x].todo) <= Len(t.obj[x].table)
<1> DEFINE N == Len(taken)
           Done(n) == {taken[i] : i \in 1 .. n}
<1>1. /\ N \in Nat /\ taken \in Seq(Reqs) /\ Injective(taken) /\ T \subseteq Reqs
      /\ FreePages(s) \in Nat /\ N <= FreePages(s)
  BY ListsIn, FreePagesNat DEF Lists
<1>2. PICK f : /\ f[0] = s
               /\ \A n \in 1 .. N : f[n] = PreAllocate(f[n - 1], taken[n])
               /\ PreAllocates(s, taken) = f[N]
  BY <1>1, PreAllocatesLoop
<1> DEFINE OK(n) ==
             /\ Typed(A, f[n]) /\ Around(s, f[n])
             /\ \A x \in Reqs \ Done(n) : f[n].obj[x] = s.obj[x]
             /\ \A x \in Done(n) : PagesFor(f[n].obj[x].computed + f[n].obj[x].todo)
                                     <= Len(f[n].obj[x].table)
             /\ FreePages(f[n]) >= FreePages(s) - n
           G == {n \in 0 .. N : OK(n)}
<1>3. OK(0)
  BY <1>1, <1>2, AroundSelf
<1>4. Done(N) = T
  BY <1>1 DEF Lists
<1>5. ASSUME NEW n \in 1 .. N
      PROVE  /\ taken[n] \in T /\ taken[n] \in Reqs \ Done(n - 1)
             /\ Done(n) = Done(n - 1) \cup {taken[n]} /\ Done(n - 1) \subseteq Reqs
  <2>1. taken[n] \in T /\ taken[n] \in Reqs
    BY <1>1 DEF Lists
  <2>2. \A i \in 1 .. n - 1 : i \in 1 .. N /\ taken[i] # taken[n] /\ taken[i] \in Reqs
    BY <1>1 DEF Injective
  <2>3. \A i : i \in 1 .. n <=> i \in 1 .. n - 1 \/ i = n
    BY <1>1
  <2> QED BY <2>1, <2>2, <2>3
<1> HIDE DEF N, Done
<1>6. ASSUME NEW n \in 1 .. N, OK(n - 1) PROVE OK(n)
  <2> DEFINE r == f[n - 1]
             t == f[n]
             q == taken[n]
  <2>1. /\ Typed(A, r) /\ Around(s, r)
        /\ \A x \in Reqs \ Done(n - 1) : r.obj[x] = s.obj[x]
        /\ \A x \in Done(n - 1) : PagesFor(r.obj[x].computed + r.obj[x].todo)
                                    <= Len(r.obj[x].table)
        /\ FreePages(r) >= FreePages(s) - (n - 1)
    BY <1>6
  <2>2. t = PreAllocate(r, q)
    BY <1>2
  <2>3. /\ q \in T /\ q \in Reqs \ Done(n - 1)
        /\ Done(n) = Done(n - 1) \cup {q} /\ Done(n - 1) \subseteq Reqs
    BY <1>5
  <2> HIDE DEF r, t, q
  <2>4. FreePages(r) \in Nat
    BY <2>1, FreePagesNat
  <2>5. r.obj[q] = s.obj[q]
    BY <2>1, <2>3
  <2>6. PagesWanted(r.obj[q]) <= 1
    BY <2>3, <2>5
  <2>7. PagesWanted(r.obj[q]) \in Nat
    BY <2>1, <2>3, WantedInt
  <2>8. PagesWanted(r.obj[q]) <= FreePages(r)
    BY <1>1, <2>1, <2>4, <2>6, <2>7
  <2>9. /\ Typed(A, t) /\ Around(r, t)
        /\ \A x \in Reqs \ {q} : t.obj[x] = r.obj[x]
        /\ PagesFor(t.obj[q].computed + t.obj[q].todo) <= Len(t.obj[q].table)
        /\ FreePages(t) = FreePages(r) - PagesWanted(r.obj[q])
    BY <2>1, <2>2, <2>3, <2>8, PreAllocateOK
  <2>10. Around(s, t)
    BY <2>1, <2>9, AroundTrans
  <2>11. \A x \in Reqs \ Done(n) : t.obj[x] = s.obj[x]
    BY <2>1, <2>3, <2>9
  <2>12. \A x \in Done(n) : PagesFor(t.obj[x].computed + t.obj[x].todo)
                              <= Len(t.obj[x].table)
    BY <2>1, <2>3, <2>9
  <2>13. FreePages(t) >= FreePages(s) - n
    BY <1>1, <2>1, <2>4, <2>6, <2>7, <2>9
  <2> QED BY <2>9, <2>10, <2>11, <2>12, <2>13 DEF t
<1> HIDE DEF OK
<1>7. 0 \in G
  BY <1>1, <1>3
<1>8. ASSUME NEW n \in 1 .. N, n - 1 \in G PROVE n \in G
  BY <1>6, <1>8
<1> HIDE DEF G
<1>9. \A n \in 0 .. N : n \in G
  BY <1>1, <1>7, <1>8, Induct, Zenon
<1>10. OK(N)
  BY <1>1, <1>9 DEF G
<1> QED BY <1>2, <1>4, <1>10 DEF OK

\* t is s after the requests of T have left the decode queue for the batch b.
DecodesTaken(A, s, t, b, W, D, F, T) ==
  /\ T \subseteq D
  /\ Typed(A, t) /\ Placed(t, W, D \ T, F \cup T)
  /\ t.running = s.running /\ t.jitter = s.jitter /\ t.abort = s.abort /\ t.frees = s.frees
  /\ t.preempted = s.preempted
  /\ \A x \in Reqs : /\ t.obj[x].tok = s.obj[x].tok /\ t.obj[x].prompt = s.obj[x].prompt
                     /\ t.obj[x].computed = s.obj[x].computed
                     /\ Extends(s.obj[x].table, t.obj[x].table)
  /\ \A x \in Reqs \ T : t.obj[x] = s.obj[x]
  /\ IsBatch(b, T, {}) /\ Shows(b, t)

LEMMA DecodeLeftOK ==
  ASSUME NEW A, NEW s, Typed(A, s), NEW W, NEW D, NEW F, Placed(s, W, D, F),
         NEW budget \in Nat,
         MinOf(budget, Len(s.decode)) <= FreePages(s)
  PROVE  LET r == DecodeLeft(s, budget)
         IN  /\ \E T : DecodesTaken(A, s, r.sch, r.batch, W, D, F, T)
             /\ Len(r.batch) <= budget
<1> DEFINE n == MinOf(budget, Len(s.decode))
           taken == SubSeq(s.decode, 1, n)
           T == {s.decode[i] : i \in 1 .. n}
           u == Stepped(s, n)
           t == PreAllocates(u, taken)
           b == [i \in DOMAIN taken |-> Element(t.obj[taken[i]], taken[i], FALSE)]
<1>1. n \in 0 .. Len(s.decode)
  <2>1. Len(s.decode) \in Nat
    BY DEF Placed, Lists
  <2> QED BY <2>1, MinMax
<1> HIDE DEF n
<1>2. Len(taken) = n
  BY <1>1 DEF Placed, Lists
<1>3. DecodeLeft(s, budget) = [sch |-> t, batch |-> b]
  BY <1>2 DEF DecodeLeft, TakeDecodes, DecodesOf, n
<1>4. /\ Typed(A, u) /\ T \subseteq D
      /\ Lists(taken, T) /\ Lists(u.decode, D \ T)
      /\ u.prefill = s.prefill /\ u.running = s.running /\ u.jitter = s.jitter
      /\ u.abort = s.abort /\ u.frees = s.frees /\ u.preempted = s.preempted
      /\ u.pool = s.pool
      /\ \A x \in Reqs \ T : u.obj[x] = s.obj[x]
      /\ \A x \in T : /\ u.obj[x] = [s.obj[x] EXCEPT !.todo = 1]
                      /\ PagesWanted(u.obj[x]) <= 1
  BY <1>1, SteppedOK
<1> HIDE DEF T, u, taken
<1>5. Len(taken) <= FreePages(u)
  BY <1>2, <1>4 DEF FreePages, n
<1>6. /\ Typed(A, t) /\ Around(u, t)
      /\ \A x \in Reqs \ T : t.obj[x] = u.obj[x]
      /\ \A x \in T : PagesFor(t.obj[x].computed + t.obj[x].todo) <= Len(t.obj[x].table)
  BY <1>4, <1>5, PreAllocatesOK
<1> HIDE DEF t
<1>7. W \subseteq Reqs /\ D \subseteq Reqs /\ T \subseteq Reqs /\ F \subseteq Reqs
  BY <1>4, ListsIn DEF Placed
<1>8. ASSUME NEW x \in Reqs
      PROVE  /\ t.obj[x].tok = s.obj[x].tok /\ t.obj[x].prompt = s.obj[x].prompt
             /\ t.obj[x].computed = s.obj[x].computed
             /\ x \notin T => t.obj[x] = s.obj[x]
             /\ x \in T => t.obj[x].todo = 1
             /\ Extends(s.obj[x].table, t.obj[x].table)
  <2>1. ObjOK(A, s.obj[x]) /\ Grown(u.obj[x], t.obj[x])
    BY <1>6 DEF Typed, Around
  <2>2. CASE x \in T
    <3>1. u.obj[x] = [s.obj[x] EXCEPT !.todo = 1]
      BY <1>4, <2>2
    <3> QED BY <2>1, <2>2, <3>1 DEF ObjOK, Grown
  <2>3. CASE x \notin T
    BY <1>4, <1>6, <2>1, <2>3 DEF Grown
  <2> QED BY <2>2, <2>3
<1>9. ASSUME NEW x \in T PROVE Flies(t.obj[x])
  <2>1. x \in Reqs /\ Decodes(s.obj[x]) /\ ObjOK(A, s.obj[x])
    BY <1>4, <1>7 DEF Placed, Typed
  <2>2. /\ t.obj[x].prompt = s.obj[x].prompt /\ t.obj[x].tok = s.obj[x].tok
        /\ t.obj[x].computed = s.obj[x].computed /\ t.obj[x].todo = 1
    BY <1>8, <2>1
  <2>3. PagesFor(t.obj[x].computed + t.obj[x].todo) <= Len(t.obj[x].table)
    BY <1>6
  <2> QED BY <2>1, <2>2, <2>3 DEF Decodes, Flies, ObjOK
<1>10. Placed(t, W, D \ T, F \cup T)
  <2>1. Lists(t.prefill, W) /\ Lists(t.decode, D \ T)
    BY <1>4, <1>6 DEF Placed, Around
  <2>2. \A x \in W : Waits(t.obj[x])
    BY <1>4, <1>7, <1>8 DEF Placed
  <2>3. \A x \in D \ T : Decodes(t.obj[x])
    BY <1>7, <1>8 DEF Placed
  <2>4. \A x \in F \cup T : Flies(t.obj[x])
    BY <1>4, <1>7, <1>8, <1>9 DEF Placed
  <2> QED BY <1>4, <1>7, <2>1, <2>2, <2>3, <2>4 DEF Placed
<1>13. IsBatch(b, T, {}) /\ Shows(b, t)
  BY <1>4, DecodesBatch
<1> HIDE DEF b
<1>14. /\ t.running = s.running /\ t.jitter = s.jitter /\ t.abort = s.abort
       /\ t.frees = s.frees /\ t.preempted = s.preempted
  BY <1>4, <1>6 DEF Around
<1>15. DecodesTaken(A, s, t, b, W, D, F, T)
  BY <1>4, <1>6, <1>8, <1>10, <1>13, <1>14 DEF DecodesTaken
<1>16. Len(b) = n
  BY <1>1, <1>2 DEF b
<1>17. n <= budget
  <2>1. Len(s.decode) \in Nat
    BY DEF Placed, Lists
  <2> QED BY <2>1, MinMax DEF n
<1> QED BY <1>3, <1>15, <1>16, <1>17

\* schedule_decode_batch: the requests of V are preempted, those of T are in the batch.
LEMMA DecodeBatchOK ==
  ASSUME NEW A, NEW s, Typed(A, s), NEW W, NEW D, NEW F, Placed(s, W, D, F),
         NEW budget \in Nat
  PROVE  LET r == DecodeBatch(s, budget)
         IN  /\ \E V, T, m : /\ Preempted(A, s, m, W, D, F, V)
                             /\ DecodesTaken(A, m, r.sch, r.batch, W \cup V, D \ V, F, T)
             /\ Len(r.batch) <= budget
<1> DEFINE need == MinOf(budget, Len(s.decode))
           m == Preempt(s, need)
<1>1. Len(s.decode) \in Nat
  BY DEF Placed, Lists
<1>2. need \in Nat /\ need <= budget /\ need <= Len(s.decode)
  BY <1>1, MinMax
<1>3. need \in {budget, Len(s.decode)}
  BY <1>1, MinMax
<1> HIDE DEF need
<1>4. /\ \E V : Preempted(A, s, m, W, D, F, V)
      /\ FreePages(m) >= need \/ m.decode = <<>>
  BY <1>2, PreemptOK
<1>5. PICK V : Preempted(A, s, m, W, D, F, V)
  BY <1>4
<1>6. DecodeBatch(s, budget) = DecodeLeft(m, budget)
  BY DEF DecodeBatch, need
<1> HIDE DEF m
<1>7. Typed(A, m) /\ Placed(m, W \cup V, D \ V, F)
  BY <1>5 DEF Preempted
<1>8. FreePages(m) \in Nat /\ Len(m.decode) \in Nat
  BY <1>7, FreePagesNat DEF Placed, Lists
<1>9. Len(m.decode) <= Len(s.decode)
  <2>1. /\ m.decode \in Seq(Reqs) /\ Injective(m.decode) /\ s.decode \in Seq(Reqs)
        /\ Injective(s.decode) /\ Lists(m.decode, D \ V) /\ Lists(s.decode, D)
    BY <1>7 DEF Placed, Lists
  <2>2. IsFiniteSet(D) /\ Cardinality(D) = Len(s.decode)
    BY <2>1, ListsSize
  <2>3. IsFiniteSet(D \ V) /\ Cardinality(D \ V) = Len(m.decode)
    BY <2>1, ListsSize
  <2>4. Cardinality(D \ V) <= Cardinality(D)
    BY <2>2, FS_Subset
  <2> QED BY <2>2, <2>3, <2>4
<1>10. MinOf(budget, Len(m.decode)) <= FreePages(m)
  <2>1. CASE m.decode = <<>>
    BY <1>8, <2>1, MinMax
  <2>2. CASE FreePages(m) >= need
    <3>1. MinOf(budget, Len(m.decode)) \in Nat
      BY <1>8, MinMax
    <3>2. MinOf(budget, Len(m.decode)) <= need
      BY <1>1, <1>3, <1>8, <1>9, MinMax
    <3> QED BY <1>2, <1>8, <2>2, <3>1, <3>2
  <2> QED BY <1>4, <2>1, <2>2
<1>11. /\ \E T : DecodesTaken(A, m, DecodeLeft(m, budget).sch, DecodeLeft(m, budget).batch,
                           W \cup V, D \ V, F, T)
       /\ Len(DecodeLeft(m, budget).batch) <= budget
  BY <1>7, <1>10, DecodeLeftOK
<1> QED BY <1>5, <1>6, <1>11

-----------------------------------------------------------------------------
(* Prefill batches. *)

\* The queues and batches of s are those of t.
Frame(s, t) ==
  /\ t.decode = s.decode /\ t.running = s.running /\ t.jitter = s.jitter
  /\ t.abort = s.abort /\ t.frees = s.frees /\ t.preempted = s.preempted

\* What a prefill does to an object: a table is replaced, by what the prefix cache
\* has, only before anything is computed.
Fed(o, p) ==
  /\ p.tok = o.tok /\ p.prompt = o.prompt /\ o.computed <= p.computed
  /\ o.computed = 0 \/ Extends(o.table, p.table)

LEMMA ExtendsSelf ==
  ASSUME NEW a \in Seq(Pages)
  PROVE  Extends(a, a)
BY DEF Extends

LEMMA ExtendsTrans ==
  ASSUME NEW a \in Seq(Pages), NEW b \in Seq(Pages), NEW c \in Seq(Pages),
         Extends(a, b), Extends(b, c)
  PROVE  Extends(a, c)
BY DEF Extends

LEMMA FedSelf ==
  ASSUME NEW A, NEW o, ObjOK(A, o)
  PROVE  Fed(o, o)
BY DEF Fed, ObjOK, Extends

\* One row more.
LEMMA BatchAppend ==
  ASSUME NEW b, NEW B, NEW U, IsBatch(b, B, U), NEW e,
         e.req \in Reqs, e.part \in BOOLEAN, e.req \notin B, e.req \notin U
  PROVE  /\ e.part => IsBatch(Append(b, e), B, U \cup {e.req})
         /\ ~e.part => IsBatch(Append(b, e), B \cup {e.req}, U)
         /\ Len(Append(b, e)) = Len(b) + 1 /\ Len(b) \in Nat
         /\ Append(b, e)[Len(b) + 1] = e
         /\ \A i \in 1 .. Len(b) : Append(b, e)[i] = b[i]
<1> DEFINE c == Append(b, e)
           n == Len(b)
<1>1. PICK S : b \in Seq(S)
  BY DEF IsBatch, IsSeq
<1>2. /\ n \in Nat /\ c \in Seq(S \cup {e}) /\ Len(c) = n + 1 /\ c[n + 1] = e
      /\ \A i \in 1 .. n : c[i] = b[i]
  <2>1. b \in Seq(S \cup {e})
    BY <1>1
  <2> QED BY <2>1
<1>3. IsSeq(c)
  <2>1. \E T : c \in Seq(T)
    BY <1>2, Zenon
  <2> QED BY <2>1 DEF IsSeq
<1>4. /\ \A i \in 1 .. n : b[i].req \in Reqs /\ b[i].part \in BOOLEAN
      /\ \A i, j \in 1 .. n : b[i].req = b[j].req => i = j
      /\ \A q : q \in B <=> \E i \in 1 .. n : b[i].req = q /\ ~b[i].part
      /\ \A q : q \in U <=> \E i \in 1 .. n : b[i].req = q /\ b[i].part
  BY DEF IsBatch
<1> HIDE DEF c, n
<1>5. \A i : i \in 1 .. n + 1 <=> i \in 1 .. n \/ i = n + 1
  BY <1>2
<1>6. \A i \in 1 .. n : b[i].req # e.req
  BY <1>4
<1>7. \A i \in 1 .. n + 1 : c[i].req \in Reqs /\ c[i].part \in BOOLEAN
  BY <1>2, <1>4, <1>5
<1>8. \A i, j \in 1 .. n + 1 : c[i].req = c[j].req => i = j
  BY <1>2, <1>4, <1>5, <1>6
<1>9. \A q : (\E i \in 1 .. n + 1 : c[i].req = q /\ ~c[i].part)
               <=> q \in B \/ (q = e.req /\ ~e.part)
  BY <1>2, <1>4, <1>5
<1>10. \A q : (\E i \in 1 .. n + 1 : c[i].req = q /\ c[i].part)
                <=> q \in U \/ (q = e.req /\ e.part)
  BY <1>2, <1>4, <1>5
<1>11. ASSUME e.part PROVE IsBatch(c, B, U \cup {e.req})
  BY <1>2, <1>3, <1>7, <1>8, <1>9, <1>10, <1>11 DEF IsBatch
<1>12. ASSUME ~e.part PROVE IsBatch(c, B \cup {e.req}, U)
  BY <1>2, <1>3, <1>7, <1>8, <1>9, <1>10, <1>12 DEF IsBatch
<1> QED BY <1>2, <1>11, <1>12 DEF c, n

\* The head of the queue after the lookup, and after it is known how many of its
\* tokens fit into the budget.
LEMMA FoundOK ==
  ASSUME NEW A, NEW r, Typed(A, r), NEW q \in Reqs, Waits(r.obj[q]),
         NEW budget \in Nat \ {0}
  PROVE  LET l == IF r.obj[q].computed = 0 THEN LookUp(r, q) ELSE r
             u == [l EXCEPT !.obj[q].todo =
                     MinOf(Len(l.obj[q].tok) - l.obj[q].computed, budget)]
             o == u.obj[q]
         IN  /\ Typed(A, u) /\ Frame(r, u)
             /\ \A x \in Reqs \ {q} : u.obj[x] = r.obj[x]
             /\ Fed(r.obj[q], o)
             /\ o.todo \in Nat \ {0} /\ o.todo <= budget
             /\ o.computed < Len(o.tok) /\ o.computed + o.todo <= Len(o.tok)
<1> DEFINE l == IF r.obj[q].computed = 0 THEN LookUp(r, q) ELSE r
           d == MinOf(Len(l.obj[q].tok) - l.obj[q].computed, budget)
           p == [l.obj[q] EXCEPT !.todo = d]
           u == [l EXCEPT !.obj[q].todo = d]
<1>0. ObjOK(A, r.obj[q]) /\ Frame(r, r)
  BY DEF Typed, Frame
<1>1. /\ Typed(A, l) /\ Frame(r, l)
      /\ \A x \in Reqs \ {q} : l.obj[x] = r.obj[x]
      /\ Fed(r.obj[q], l.obj[q])
      /\ l.obj[q].computed < Len(l.obj[q].tok)
  <2>1. CASE r.obj[q].computed = 0
    <3> DEFINE t == LookUp(r, q)
    <3>1. l = t
      BY <2>1
    <3>2. /\ Typed(A, t) /\ t.decode = r.decode /\ t.running = r.running
          /\ t.jitter = r.jitter /\ t.abort = r.abort /\ t.frees = r.frees
          /\ t.preempted = r.preempted
          /\ \A x \in Reqs \ {q} : t.obj[x] = r.obj[x]
          /\ t.obj[q].tok = r.obj[q].tok /\ t.obj[q].prompt = r.obj[q].prompt
          /\ t.obj[q].computed < Len(t.obj[q].tok)
      BY LookUpOK
    <3> HIDE DEF t, l
    <3>3. ObjOK(A, t.obj[q])
      BY <3>2 DEF Typed
    <3>4. r.obj[q].computed <= t.obj[q].computed
      BY <2>1, <3>3 DEF ObjOK
    <3> QED BY <2>1, <3>1, <3>2, <3>4 DEF Frame, Fed
  <2>2. CASE r.obj[q].computed # 0
    <3>1. l = r
      BY <2>2
    <3> HIDE DEF l
    <3> QED BY <1>0, <3>1, FedSelf DEF Waits
  <2> QED BY <2>1, <2>2
<1> HIDE DEF l
<1>2. ObjOK(A, l.obj[q])
  BY <1>1 DEF Typed
<1>3. d \in Nat \ {0} /\ d <= budget /\ l.obj[q].computed + d <= Len(l.obj[q].tok)
  <2> DEFINE a == Len(l.obj[q].tok) - l.obj[q].computed
  <2>1. a \in Nat \ {0} /\ l.obj[q].computed \in Nat /\ Len(l.obj[q].tok) \in Nat
    BY <1>1, <1>2 DEF ObjOK
  <2>2. d = MinOf(a, budget)
    OBVIOUS
  <2>3. d \in {a, budget} /\ d <= a /\ d <= budget
    <3> HIDE DEF a, d
    <3> QED BY <2>1, <2>2, MinMax
  <2> HIDE DEF d
  <2> QED BY <2>1, <2>3
<1> HIDE DEF d
<1>4. /\ ObjOK(A, p) /\ p.tok = l.obj[q].tok /\ p.prompt = l.obj[q].prompt
      /\ p.computed = l.obj[q].computed /\ p.table = l.obj[q].table /\ p.todo = d
  BY <1>2, <1>3 DEF ObjOK
<1>5. Fed(r.obj[q], p)
  BY <1>1, <1>4 DEF Fed
<1>6. u = [l EXCEPT !.obj[q] = p]
  BY DEF u
<1> HIDE DEF p, u
<1>7. /\ DOMAIN u = SchFields /\ DOMAIN u.obj = Reqs /\ u.pool = l.pool /\ Frame(l, u)
      /\ u.obj[q] = p /\ \A x \in Reqs \ {q} : u.obj[x] = l.obj[x]
  BY <1>1, <1>6 DEF Typed, SchFields, Frame
<1>8. Typed(A, u)
  BY <1>1, <1>4, <1>7 DEF Typed, Frame
<1>9. Frame(r, u)
  BY <1>1, <1>7 DEF Frame
<1> QED BY <1>1, <1>3, <1>4, <1>5, <1>7, <1>8, <1>9 DEF u, d, l

-----------------------------------------------------------------------------
(* The prefill queue. *)

\* The requests of X have been looked at: those of B and U are in the batch, those of
\* K and those that were not looked at stay in the queue.
AccOK(A, s, acc, X, B, U, K) ==
  /\ DOMAIN acc = {"sch", "budget", "batch", "unfinished", "queue", "stop"}
  /\ Typed(A, acc.sch) /\ Frame(s, acc.sch)
  /\ acc.budget \in Nat
  /\ IsBatch(acc.batch, B, U) /\ Shows(acc.batch, acc.sch)
  /\ Lists(acc.unfinished, U) /\ Lists(acc.queue, K)
  /\ B \cup U \cup K = X /\ B \cap U = {} /\ B \cap K = {} /\ U \cap K = {}
  /\ X \subseteq Reqs
  /\ \A x \in Reqs \ X : acc.sch.obj[x] = s.obj[x]
  /\ \A x \in Reqs : Fed(s.obj[x], acc.sch.obj[x])
  /\ \A x \in B : Flies(acc.sch.obj[x])
  /\ \A x \in U : Waits(acc.sch.obj[x]) /\ acc.sch.obj[x].computed > 0
  /\ \A x \in K : Waits(acc.sch.obj[x])

\* q stays in the queue.
LEMMA SkippedOK ==
  ASSUME NEW A, NEW s, Typed(A, s), NEW acc, NEW X, NEW B, NEW U, NEW K,
         AccOK(A, s, acc, X, B, U, K), NEW q \in Reqs \ X, Waits(s.obj[q])
  PROVE  AccOK(A, s, [acc EXCEPT !.queue = Append(@, q)], X \cup {q}, B, U, K \cup {q})
<1> DEFINE new == [acc EXCEPT !.queue = Append(@, q)]
<1>1. /\ DOMAIN new = {"sch", "budget", "batch", "unfinished", "queue", "stop"}
      /\ new.sch = acc.sch /\ new.budget = acc.budget /\ new.batch = acc.batch
      /\ new.unfinished = acc.unfinished /\ new.queue = Append(acc.queue, q)
  BY DEF AccOK
<1> HIDE DEF new
<1>2. q \in Reqs \ K
  BY DEF AccOK
<1>3. Lists(new.queue, K \cup {q})
  BY <1>1, <1>2, ListsAppend DEF AccOK
<1>4. acc.sch.obj[q] = s.obj[q]
  BY DEF AccOK
<1> QED BY <1>1, <1>3, <1>4 DEF AccOK, new

\* The head does not fit.
LEMMA RefusedOK ==
  ASSUME NEW A, NEW s, Typed(A, s), NEW acc, NEW X, NEW B, NEW U, NEW K,
         AccOK(A, s, acc, X, B, U, K), NEW q \in Reqs \ X,
         NEW u, Typed(A, u), Frame(acc.sch, u),
         \A x \in Reqs \ {q} : u.obj[x] = acc.sch.obj[x],
         Fed(acc.sch.obj[q], u.obj[q]), Waits(u.obj[q])
  PROVE  AccOK(A, s, Refused(acc, u, q), X \cup {q}, B, U, K \cup {q})
<1> DEFINE o == u.obj[q]
           p == [o EXCEPT !.todo = 0]
           t == [u EXCEPT !.obj[q].todo = 0]
           new == Refused(acc, u, q)
<1>1. new = [acc EXCEPT !.sch = t, !.queue = Append(@, q), !.stop = TRUE]
  BY DEF Refused
<1>2. ObjOK(A, o)
  BY DEF Typed
<1> HIDE DEF o
<1>3. /\ ObjOK(A, p) /\ p.tok = o.tok /\ p.prompt = o.prompt /\ p.computed = o.computed
      /\ p.table = o.table
  BY <1>2 DEF ObjOK
<1>4. t = [u EXCEPT !.obj[q] = p]
  BY DEF t, p, o
<1> HIDE DEF p, t, new
<1>5. /\ DOMAIN t = SchFields /\ DOMAIN t.obj = Reqs /\ t.pool = u.pool /\ Frame(u, t)
      /\ t.obj[q] = p /\ \A x \in Reqs \ {q} : t.obj[x] = u.obj[x]
  BY <1>4 DEF Typed, SchFields, Frame
<1>6. Typed(A, t)
  BY <1>3, <1>5 DEF Typed, Frame
<1>7. Frame(s, t)
  BY <1>5 DEF Frame, AccOK
<1>8. acc.sch.obj[q] = s.obj[q]
  BY DEF AccOK
<1>9. Fed(s.obj[q], p) /\ Waits(p)
  BY <1>3, <1>8 DEF Fed, Waits, o
<1>10. /\ DOMAIN new = {"sch", "budget", "batch", "unfinished", "queue", "stop"}
       /\ new.sch = t /\ new.budget = acc.budget /\ new.batch = acc.batch
       /\ new.unfinished = acc.unfinished /\ new.queue = Append(acc.queue, q)
  BY <1>1 DEF AccOK
<1>11. q \in Reqs \ K
  BY DEF AccOK
<1>12. Lists(new.queue, K \cup {q})
  BY <1>10, <1>11, ListsAppend DEF AccOK
<1>13. \A x \in X : x \in Reqs \ {q} /\ t.obj[x] = acc.sch.obj[x]
  BY <1>5 DEF AccOK
<1>14. Shows(new.batch, t)
  <2>1. \A i \in 1 .. Len(acc.batch) : acc.batch[i].req \in B \cup U
    BY DEF AccOK, IsBatch
  <2>2. \A i \in 1 .. Len(acc.batch) : acc.batch[i].req \in X
    BY <2>1 DEF AccOK
  <2> QED BY <1>10, <1>13, <2>2 DEF Shows, AccOK
<1>15. /\ \A x \in Reqs \ (X \cup {q}) : t.obj[x] = s.obj[x]
       /\ \A x \in Reqs : Fed(s.obj[x], t.obj[x])
  BY <1>5, <1>9 DEF AccOK
<1>16. /\ \A x \in B : Flies(t.obj[x])
       /\ \A x \in U : Waits(t.obj[x]) /\ t.obj[x].computed > 0
       /\ \A x \in K \cup {q} : Waits(t.obj[x])
  BY <1>5, <1>9, <1>13 DEF AccOK
<1>17. /\ B \cup U \cup (K \cup {q}) = X \cup {q} /\ B \cap U = {}
       /\ B \cap (K \cup {q}) = {} /\ U \cap (K \cup {q}) = {} /\ X \cup {q} \subseteq Reqs
  BY DEF AccOK
<1>18. /\ new.budget \in Nat /\ IsBatch(new.batch, B, U) /\ Lists(new.unfinished, U)
  BY <1>10 DEF AccOK
<1> QED BY <1>6, <1>7, <1>10, <1>12, <1>14, <1>15, <1>16, <1>17, <1>18 DEF AccOK, new

\* The head is in the batch, with its last chunk or with another.
LEMMA AdmittedOK ==
  ASSUME NEW A, NEW s, Typed(A, s), NEW acc, NEW X, NEW B, NEW U, NEW K,
         AccOK(A, s, acc, X, B, U, K), NEW q \in Reqs \ X,
         NEW u, Typed(A, u), Frame(acc.sch, u),
         \A x \in Reqs \ {q} : u.obj[x] = acc.sch.obj[x],
         Fed(acc.sch.obj[q], u.obj[q]),
         u.obj[q].todo \in Nat \ {0}, u.obj[q].todo <= acc.budget,
         u.obj[q].computed + u.obj[q].todo <= Len(u.obj[q].tok),
         PagesFor(u.obj[q].computed + u.obj[q].todo) <= Len(u.obj[q].table)
  PROVE  \E B2, U2 : AccOK(A, s, Admitted(acc, u, q), X \cup {q}, B2, U2, K)
<1> DEFINE o == u.obj[q]
           part == o.computed + o.todo < o.prompt
           e == Element(o, q, part)
           p == [o EXCEPT !.computed = @ + o.todo, !.chain = <<>>]
           t == IF part THEN [u EXCEPT !.obj[q] = p] ELSE u
           new == Admitted(acc, u, q)
           B2 == IF part THEN B ELSE B \cup {q}
           U2 == IF part THEN U \cup {q} ELSE U
<1>1. new = [acc EXCEPT !.budget = @ - o.todo, !.batch = Append(@, e),
                        !.unfinished = IF part THEN Append(@, q) ELSE @, !.sch = t]
  BY DEF Admitted
<1>2. /\ ObjOK(A, o) /\ Fed(acc.sch.obj[q], o) /\ o.todo \in Nat \ {0}
      /\ o.todo <= acc.budget /\ o.computed + o.todo <= Len(o.tok)
      /\ PagesFor(o.computed + o.todo) <= Len(o.table)
  BY DEF Typed
<1> HIDE DEF o
<1>3. /\ e.req = q /\ e.part = part /\ part \in BOOLEAN /\ e.table = o.table
      /\ e.prompt = o.prompt
  BY DEF Element
<1>4. /\ p.tok = o.tok /\ p.prompt = o.prompt /\ p.computed = o.computed + o.todo
      /\ p.table = o.table /\ ObjOK(A, p)
  BY <1>2 DEF ObjOK
<1>5. part => Waits(p) /\ p.computed > 0
  BY <1>2, <1>4 DEF Waits, ObjOK
<1>6. ~part => Flies(o)
  BY <1>2 DEF Flies, ObjOK
<1>7. acc.sch.obj[q] = s.obj[q]
  BY DEF AccOK
<1>8. Fed(s.obj[q], o) /\ Fed(s.obj[q], p)
  <2>1. s.obj[q].computed \in Nat
    BY DEF Typed, ObjOK
  <2> QED BY <1>2, <1>4, <1>7, <2>1 DEF Fed, ObjOK
<1> HIDE DEF e, p, new, part
<1>9. /\ DOMAIN t = SchFields /\ DOMAIN t.obj = Reqs /\ t.pool = u.pool /\ Frame(u, t)
      /\ t.obj[q] = (IF part THEN p ELSE o) /\ \A x \in Reqs \ {q} : t.obj[x] = u.obj[x]
  <2>1. CASE part
    <3>1. t = [u EXCEPT !.obj[q] = p]
      BY <2>1
    <3> HIDE DEF t
    <3> QED BY <2>1, <3>1 DEF Typed, SchFields, Frame
  <2>2. CASE ~part
    BY <2>2 DEF Typed, SchFields, Frame, o
  <2> QED BY <2>1, <2>2
<1> HIDE DEF t
<1>10. Typed(A, t)
  BY <1>2, <1>4, <1>9 DEF Typed, Frame
<1>11. Frame(s, t)
  BY <1>9 DEF Frame, AccOK
<1>12. /\ DOMAIN new = {"sch", "budget", "batch", "unfinished", "queue", "stop"}
       /\ new.sch = t /\ new.budget = acc.budget - o.todo
       /\ new.batch = Append(acc.batch, e)
       /\ new.unfinished = (IF part THEN Append(acc.unfinished, q) ELSE acc.unfinished)
       /\ new.queue = acc.queue
  BY <1>1 DEF AccOK
<1>13. q \notin B /\ q \notin U /\ q \notin K
  BY DEF AccOK
<1>14. IsBatch(acc.batch, B, U)
  BY DEF AccOK
<1>15. /\ IsBatch(new.batch, B2, U2)
       /\ Len(new.batch) = Len(acc.batch) + 1 /\ Len(acc.batch) \in Nat
       /\ new.batch[Len(acc.batch) + 1] = e
       /\ \A i \in 1 .. Len(acc.batch) : new.batch[i] = acc.batch[i]
  <2> DEFINE c == Append(acc.batch, e)
  <2>1. e.req \in Reqs /\ e.part \in BOOLEAN /\ e.req \notin B /\ e.req \notin U
    BY <1>3, <1>13
  <2>2. /\ e.part => IsBatch(c, B, U \cup {e.req})
        /\ ~e.part => IsBatch(c, B \cup {e.req}, U)
        /\ Len(c) = Len(acc.batch) + 1 /\ Len(acc.batch) \in Nat
        /\ c[Len(acc.batch) + 1] = e
        /\ \A i \in 1 .. Len(acc.batch) : c[i] = acc.batch[i]
    <3>1. Len(c) = Len(acc.batch) + 1 /\ Len(acc.batch) \in Nat
      BY <1>14, <2>1, BatchAppend
    <3>2. c[Len(acc.batch) + 1] = e
      BY <1>14, <2>1, BatchAppend
    <3>3. \A i \in 1 .. Len(acc.batch) : c[i] = acc.batch[i]
      BY <1>14, <2>1, BatchAppend
    <3>4. e.part => IsBatch(c, B, U \cup {e.req})
      BY <1>14, <2>1, BatchAppend
    <3>5. ~e.part => IsBatch(c, B \cup {e.req}, U)
      BY <1>14, <2>1, BatchAppend
    <3> QED BY <3>1, <3>2, <3>3, <3>4, <3>5
  <2> HIDE DEF c
  <2>3. new.batch = c
    BY <1>12 DEF c
  <2>4. CASE part
    <3>1. IsBatch(c, B, U \cup {q})
      BY <1>3, <2>2, <2>4
    <3> QED BY <2>2, <2>3, <2>4, <3>1
  <2>5. CASE ~part
    <3>1. IsBatch(c, B \cup {q}, U)
      BY <1>3, <2>2, <2>5
    <3> QED BY <2>2, <2>3, <2>5, <3>1
  <2> QED BY <2>4, <2>5
<1>16. Lists(new.unfinished, U2)
  BY <1>12, <1>13, ListsAppend DEF AccOK
<1>17. \A x \in X : x \in Reqs \ {q} /\ t.obj[x] = acc.sch.obj[x]
  BY <1>9 DEF AccOK
<1>18. Shows(new.batch, t)
  <2>1. \A i \in 1 .. Len(acc.batch) : acc.batch[i].req \in B \cup U
    BY <1>14 DEF IsBatch
  <2>2. \A i \in 1 .. Len(acc.batch) : acc.batch[i].req \in X
    BY <2>1 DEF AccOK
  <2>3. Shows(acc.batch, t)
    BY <1>17, <2>2 DEF Shows, AccOK
  <2>4. t.obj[e.req].table = e.table /\ t.obj[e.req].prompt = e.prompt
    BY <1>3, <1>4, <1>9
  <2>5. \A i : i \in 1 .. Len(new.batch) =>
                 i \in 1 .. Len(acc.batch) \/ i = Len(acc.batch) + 1
    BY <1>15
  <2> QED BY <1>15, <2>3, <2>4, <2>5 DEF Shows
<1>19. /\ \A x \in Reqs \ (X \cup {q}) : t.obj[x] = s.obj[x]
       /\ \A x \in Reqs : Fed(s.obj[x], t.obj[x])
  BY <1>8, <1>9 DEF AccOK
<1>20. /\ \A x \in B2 : Flies(t.obj[x])
       /\ \A x \in U2 : Waits(t.obj[x]) /\ t.obj[x].computed > 0
       /\ \A x \in K : Waits(t.obj[x])
  BY <1>5, <1>6, <1>9, <1>17 DEF AccOK
<1>21. /\ B2 \cup U2 \cup K = X \cup {q} /\ B2 \cap U2 = {}
       /\ B2 \cap K = {} /\ U2 \cap K = {} /\ X \cup {q} \subseteq Reqs
  BY <1>13 DEF AccOK
<1>22. /\ new.budget \in Nat /\ Lists(new.queue, K)
  BY <1>2, <1>12 DEF AccOK
<1> HIDE DEF B2, U2
<1>23. AccOK(A, s, new, X \cup {q}, B2, U2, K)
  BY <1>10, <1>11, <1>12, <1>15, <1>16, <1>18, <1>19, <1>20, <1>21, <1>22 DEF AccOK
<1> QED BY <1>23 DEF new

\* One round of schedule_prefill_batch.
LEMMA PrefillNextOK ==
  ASSUME NEW A, NEW s, Typed(A, s), NEW acc, NEW X, NEW B, NEW U, NEW K,
         AccOK(A, s, acc, X, B, U, K), NEW q \in Reqs \ X, Waits(s.obj[q]),
         NEW room, NEW reserve \in Nat
  PROVE  \E B2, U2, K2 :
           AccOK(A, s, PrefillNext(acc, q, room, reserve), X \cup {q}, B2, U2, K2)
<1> DEFINE r == acc.sch
           l == IF r.obj[q].computed = 0 THEN LookUp(r, q) ELSE r
           u == [l EXCEPT !.obj[q].todo =
                   MinOf(Len(l.obj[q].tok) - l.obj[q].computed, acc.budget)]
           t == PreAllocate(u, q)
<1>1. CASE acc.stop \/ acc.budget = 0 \/ Len(acc.batch) >= room
  <2>1. PrefillNext(acc, q, room, reserve) = [acc EXCEPT !.queue = Append(@, q)]
    BY <1>1 DEF PrefillNext
  <2> DEFINE new == [acc EXCEPT !.queue = Append(@, q)]
  <2>2. AccOK(A, s, new, X \cup {q}, B, U, K \cup {q})
    BY SkippedOK
  <2> HIDE DEF new
  <2>3. AccOK(A, s, PrefillNext(acc, q, room, reserve), X \cup {q}, B, U, K \cup {q})
    BY <2>1, <2>2 DEF new
  <2> HIDE DEF r, l, u, t
  <2> QED BY <2>3
<1>2. CASE ~(acc.stop \/ acc.budget = 0 \/ Len(acc.batch) >= room)
  <2>1. PrefillNext(acc, q, room, reserve) = AdmitSized(acc, u, q, reserve)
    BY <1>2 DEF PrefillNext, AdmitOne, AdmitFound
  <2>2. Typed(A, r) /\ acc.budget \in Nat \ {0} /\ r.obj[q] = s.obj[q]
    BY <1>2 DEF AccOK
  <2>3. Waits(r.obj[q])
    BY <2>2
  <2>4. /\ Typed(A, u) /\ Frame(r, u)
        /\ \A x \in Reqs \ {q} : u.obj[x] = r.obj[x]
        /\ Fed(r.obj[q], u.obj[q])
        /\ u.obj[q].todo \in Nat \ {0} /\ u.obj[q].todo <= acc.budget
        /\ u.obj[q].computed < Len(u.obj[q].tok)
        /\ u.obj[q].computed + u.obj[q].todo <= Len(u.obj[q].tok)
    BY <2>2, <2>3, FoundOK
  <2> HIDE DEF u
  <2>5. CASE PagesWanted(u.obj[q]) <= FreePages(u) - reserve
    <3>1. PrefillNext(acc, q, room, reserve) = Admitted(acc, t, q)
      BY <2>1, <2>5 DEF AdmitSized
    <3>2. PagesWanted(u.obj[q]) <= FreePages(u)
      <4>1. FreePages(u) \in Nat
        BY <2>4, FreePagesNat
      <4>2. PagesWanted(u.obj[q]) \in Int
        BY <2>4, WantedInt
      <4> QED BY <2>5, <4>1, <4>2
    <3>3. /\ Typed(A, t) /\ Around(u, t)
          /\ \A x \in Reqs \ {q} : t.obj[x] = u.obj[x]
          /\ PagesFor(t.obj[q].computed + t.obj[q].todo) <= Len(t.obj[q].table)
      BY <2>4, <3>2, PreAllocateOK
    <3> HIDE DEF t
    <3>4. Grown(u.obj[q], t.obj[q])
      BY <3>3 DEF Around
    <3>5. Fed(r.obj[q], t.obj[q])
      <4>1. ObjOK(A, r.obj[q]) /\ ObjOK(A, u.obj[q]) /\ ObjOK(A, t.obj[q])
        BY <2>2, <2>4, <3>3 DEF Typed
      <4>2. CASE r.obj[q].computed = 0
        BY <2>4, <3>4, <4>2 DEF Fed, Grown
      <4>3. CASE Extends(r.obj[q].table, u.obj[q].table)
        <5>1. Extends(r.obj[q].table, t.obj[q].table)
          BY <3>4, <4>1, <4>3, ExtendsTrans DEF Grown, ObjOK
        <5> QED BY <2>4, <3>4, <5>1 DEF Fed, Grown
      <4> QED BY <2>4, <4>2, <4>3 DEF Fed
    <3>6. Frame(r, t)
      BY <2>4, <3>3 DEF Frame, Around
    <3>7. /\ t.obj[q].todo \in Nat \ {0} /\ t.obj[q].todo <= acc.budget
          /\ t.obj[q].computed + t.obj[q].todo <= Len(t.obj[q].tok)
          /\ \A x \in Reqs \ {q} : t.obj[x] = r.obj[x]
      BY <2>4, <3>3, <3>4 DEF Grown
    <3> HIDE DEF r
    <3>8. \E B2, U2 : AccOK(A, s, Admitted(acc, t, q), X \cup {q}, B2, U2, K)
      BY <3>3, <3>5, <3>6, <3>7, AdmittedOK DEF r
    <3> QED BY <3>1, <3>8
  <2>6. CASE ~(PagesWanted(u.obj[q]) <= FreePages(u) - reserve)
    <3>1. PrefillNext(acc, q, room, reserve) = Refused(acc, u, q)
      BY <2>1, <2>6 DEF AdmitSized
    <3>2. AccOK(A, s, Refused(acc, u, q), X \cup {q}, B, U, K \cup {q})
      BY <2>4, RefusedOK DEF Waits
    <3> QED BY <3>1, <3>2
  <2> QED BY <2>5, <2>6
<1> QED BY <1>1, <1>2

\* t is s after the requests of B, with their last chunk, and those of U, with another,
\* were put into the batch b.
PrefillsTaken(A, s, t, b, W, D, F, B, U) ==
  /\ B \subseteq W /\ U \subseteq W /\ B \cap U = {}
  /\ Typed(A, t) /\ Placed(t, W \ B, D, F \cup B) /\ Frame(s, t)
  /\ \A x \in Reqs : Fed(s.obj[x], t.obj[x])
  /\ \A x \in Reqs \ W : t.obj[x] = s.obj[x]
  /\ \A x \in U : t.obj[x].computed > 0
  /\ IsBatch(b, B, U) /\ Shows(b, t)

LEMMA PrefilledOK ==
  ASSUME NEW A, NEW s, Typed(A, s), NEW W, Lists(s.prefill, W),
         \A x \in W : Waits(s.obj[x]),
         NEW start, AccOK(A, s, start, {}, {}, {}, {}),
         NEW room, NEW reserve \in Nat
  PROVE  \E B, U, K : AccOK(A, s, Prefilled(start, s.prefill, room, reserve), W, B, U, K)
<1> DEFINE queue == s.prefill
           N == Len(queue)
           Done(n) == {queue[i] : i \in 1 .. n}
<1>1. N \in Nat /\ queue \in Seq(Reqs) /\ Injective(queue) /\ W \subseteq Reqs
  BY ListsIn DEF Lists
<1>2. PICK f : /\ f[0] = start
               /\ \A n \in 1 .. N : f[n] = PrefillNext(f[n - 1], queue[n], room, reserve)
               /\ Prefilled(start, queue, room, reserve) = f[N]
  BY <1>1, PrefilledLoop
<1> DEFINE OK(n) == \E B, U, K : AccOK(A, s, f[n], Done(n), B, U, K)
           G == {n \in 0 .. N : OK(n)}
<1>3. Done(0) = {} /\ Done(N) = W
  BY <1>1 DEF Lists
<1>4. ASSUME NEW n \in 1 .. N
      PROVE  /\ queue[n] \in Reqs \ Done(n - 1) /\ Waits(s.obj[queue[n]])
             /\ Done(n) = Done(n - 1) \cup {queue[n]}
  <2>1. queue[n] \in W /\ queue[n] \in Reqs
    BY <1>1 DEF Lists
  <2>2. \A i \in 1 .. n - 1 : i \in 1 .. N /\ queue[i] # queue[n]
    BY <1>1 DEF Injective
  <2>3. \A i : i \in 1 .. n <=> i \in 1 .. n - 1 \/ i = n
    BY <1>1
  <2> QED BY <2>1, <2>2, <2>3
<1> HIDE DEF N, Done, queue
<1>5. OK(0)
  BY <1>2, <1>3
<1>6. ASSUME NEW n \in 1 .. N, OK(n - 1) PROVE OK(n)
  <2>1. PICK B, U, K : AccOK(A, s, f[n - 1], Done(n - 1), B, U, K)
    BY <1>6
  <2>2. \E B2, U2, K2 : AccOK(A, s, PrefillNext(f[n - 1], queue[n], room, reserve),
                              Done(n - 1) \cup {queue[n]}, B2, U2, K2)
    BY <1>4, <2>1, PrefillNextOK
  <2> QED BY <1>2, <1>4, <2>2
<1> HIDE DEF OK
<1>7. 0 \in G
  BY <1>1, <1>5
<1>8. ASSUME NEW n \in 1 .. N, n - 1 \in G PROVE n \in G
  BY <1>6, <1>8
<1> HIDE DEF G
<1>9. \A n \in 0 .. N : n \in G
  BY <1>1, <1>7, <1>8, Induct, Zenon
<1>10. OK(N)
  BY <1>1, <1>9 DEF G
<1> QED BY <1>2, <1>3, <1>10 DEF OK, queue

LEMMA EmptyBatch == IsBatch(<<>>, {}, {}) /\ \A s : Shows(<<>>, s)
<1>1. \E S : <<>> \in Seq(S)
  <2>1. <<>> \in Seq({})
    OBVIOUS
  <2> QED BY <2>1
<1>2. Len(<<>>) = 0
  OBVIOUS
<1> QED BY <1>1, <1>2 DEF IsBatch, Shows, IsSeq

\* schedule_prefill_batch.
LEMMA PrefillBatchOK ==
  ASSUME NEW A, NEW s, Typed(A, s), NEW W, NEW D, NEW F, Placed(s, W, D, F),
         NEW budget \in Nat, NEW room, NEW reserve \in Nat
  PROVE  LET r == PrefillBatch(s, budget, room, reserve)
         IN  \E B, U : PrefillsTaken(A, s, r.sch, r.batch, W, D, F, B, U)
<1> DEFINE s0 == [s EXCEPT !.prefill = <<>>]
           start == [sch |-> s0, budget |-> budget, batch |-> <<>>,
                     unfinished |-> <<>>, queue |-> <<>>, stop |-> FALSE]
           end == Prefilled(start, s.prefill, room, reserve)
           t == [end.sch EXCEPT !.prefill = end.unfinished \o end.queue]
<1>1. /\ DOMAIN s0 = SchFields /\ s0.obj = s.obj /\ s0.pool = s.pool /\ Frame(s, s0)
  BY DEF Typed, SchFields, Frame
<1> HIDE DEF s0
<1>2. Typed(A, s0)
  BY <1>1 DEF Typed, Frame
<1>3. AccOK(A, s, start, {}, {}, {}, {})
  <2>1. \A x \in Reqs : Fed(s.obj[x], s.obj[x])
    BY FedSelf DEF Typed
  <2> QED BY <1>1, <1>2, <2>1, EmptyBatch, ListsNone DEF AccOK
<1> HIDE DEF start
<1>4. PICK B, U, K : AccOK(A, s, end, W, B, U, K)
  BY <1>3, PrefilledOK DEF Placed
<1>5. PrefillBatch(s, budget, room, reserve) = [sch |-> t, batch |-> end.batch]
  BY DEF PrefillBatch, Requeued, start, s0
<1> HIDE DEF end, t
<1>6. t = [end.sch EXCEPT !.prefill = end.unfinished \o end.queue]
  BY DEF t
<1>7. Typed(A, end.sch) /\ Frame(s, end.sch)
  BY <1>4 DEF AccOK
<1>8. /\ DOMAIN t = SchFields /\ t.obj = end.sch.obj /\ t.pool = end.sch.pool
      /\ Frame(end.sch, t) /\ t.prefill = end.unfinished \o end.queue
  BY <1>6, <1>7 DEF Typed, SchFields, Frame
<1>9. Typed(A, t) /\ Frame(s, t)
  BY <1>7, <1>8 DEF Typed, Frame
<1>10. U \cup K = W \ B /\ B \subseteq W /\ U \subseteq W /\ B \cap U = {}
  BY <1>4 DEF AccOK
<1>11. Lists(t.prefill, W \ B)
  <2>1. Lists(end.unfinished \o end.queue, U \cup K)
    BY <1>4, ListsConcat DEF AccOK
  <2> QED BY <1>8, <1>10, <2>1
<1>12. /\ \A x \in Reqs \ W : t.obj[x] = s.obj[x]
       /\ \A x \in Reqs : Fed(s.obj[x], t.obj[x])
       /\ \A x \in B : Flies(t.obj[x])
       /\ \A x \in U : Waits(t.obj[x]) /\ t.obj[x].computed > 0
       /\ \A x \in K : Waits(t.obj[x])
  BY <1>4, <1>8 DEF AccOK
<1>13. W \subseteq Reqs /\ D \subseteq Reqs /\ F \subseteq Reqs
  BY ListsIn DEF Placed
<1>14. Placed(t, W \ B, D, F \cup B)
  <2>1. Lists(t.decode, D)
    BY <1>9 DEF Placed, Frame
  <2>2. \A x \in W \ B : Waits(t.obj[x])
    BY <1>10, <1>12
  <2>3. \A x \in D : Decodes(t.obj[x])
    BY <1>12, <1>13 DEF Placed
  <2>4. \A x \in F \cup B : Flies(t.obj[x])
    BY <1>12, <1>13 DEF Placed
  <2>5. /\ (W \ B) \cap D = {} /\ (W \ B) \cap (F \cup B) = {} /\ D \cap (F \cup B) = {}
        /\ F \cup B \subseteq Reqs
    BY <1>10, <1>13 DEF Placed
  <2> QED BY <1>11, <2>1, <2>2, <2>3, <2>4, <2>5 DEF Placed
<1>15. IsBatch(end.batch, B, U) /\ Shows(end.batch, t)
  BY <1>4, <1>8 DEF AccOK, Shows
<1>16. PrefillsTaken(A, s, t, end.batch, W, D, F, B, U)
  BY <1>9, <1>10, <1>12, <1>14, <1>15 DEF PrefillsTaken
<1> QED BY <1>5, <1>16

-----------------------------------------------------------------------------
(* schedule_once. *)

LEMMA FiniteUnion ==
  ASSUME NEW S, IsFiniteSet(S), NEW f, DOMAIN f = S, \A x \in S : IsFiniteSet(f[x])
  PROVE  IsFiniteSet(UNION {f[x] : x \in S})
<1> DEFINE T == {f[x] : x \in S}
           g == [x \in S |-> f[x]]
<1>1. g \in Surjection(S, T)
  BY DEF Surjection
<1>2. IsFiniteSet(T)
  BY <1>1, FS_Surjection DEF ExistsSurjection
<1>3. \A x \in T : IsFiniteSet(x)
  OBVIOUS
<1> HIDE DEF T
<1>4. IsFiniteSet(UNION T)
  BY <1>2, <1>3, FS_UNION
<1> QED BY <1>4 DEF T

LEMMA DecodableNat ==
  ASSUME NEW A, NEW s, Typed(A, s), s.decode \in Seq(Reqs)
  PROVE  Decodable(s) \in Nat
<1> DEFINE f == [b \in DOMAIN s.running |-> {b} \X DOMAIN s.running[b]]
<1>1. s.running \in Seq(Seq(Rows)) /\ Len(s.running) \in Nat /\ DOMAIN s.running = 1 .. Len(s.running)
  BY DEF Typed
<1>2. IsFiniteSet(DOMAIN s.running)
  BY <1>1, FS_Interval
<1>3. \A b \in DOMAIN s.running : IsFiniteSet({b} \X DOMAIN s.running[b])
  <2>1. TAKE b \in DOMAIN s.running
  <2>2. s.running[b] \in Seq(Rows)
    BY <1>1, <2>1
  <2>3. DOMAIN s.running[b] = 1 .. Len(s.running[b]) /\ Len(s.running[b]) \in Nat
    BY <2>2
  <2>4. IsFiniteSet(DOMAIN s.running[b])
    BY <2>3, FS_Interval
  <2>5. IsFiniteSet({b})
    BY FS_Singleton
  <2> QED BY <2>4, <2>5, FS_Product
<1>4. DOMAIN f = DOMAIN s.running /\ \A b \in DOMAIN s.running : f[b] = {b} \X DOMAIN s.running[b]
  OBVIOUS
<1> HIDE DEF f
<1>5. IsFiniteSet(UNION {f[b] : b \in DOMAIN s.running})
  <2>1. PICK J : J = DOMAIN s.running
    OBVIOUS
  <2>2. IsFiniteSet(J) /\ DOMAIN f = J
    BY <1>2, <1>4, <2>1
  <2>3. \A b \in J : IsFiniteSet(f[b])
    BY <1>3, <1>4, <2>1
  <2>4. IsFiniteSet(UNION {f[b] : b \in J})
    BY <2>2, <2>3, FiniteUnion
  <2> QED BY <2>1, <2>4
<1>6. {f[b] : b \in DOMAIN s.running} = {{b} \X DOMAIN s.running[b] : b \in DOMAIN s.running}
  BY <1>4
<1>7. Cardinality(UNION {{b} \X DOMAIN s.running[b] : b \in DOMAIN s.running}) \in Nat
  BY <1>5, <1>6, FS_CardinalityType
<1> QED BY <1>7 DEF Decodable

LEMMA ReserveNat ==
  ASSUME NEW A, NEW s, Typed(A, s), NEW D, Lists(s.decode, D), NEW ratio \in Nat
  PROVE  Reserve(s, ratio) \in Nat
<1> DEFINE Q == Range(s.decode) \cup RunningReqs(s)
           f == [q \in Q |-> {q} \X (1 .. ReserveOf(s, q, ratio))]
<1>1. Q \subseteq Reqs
  <2>1. Range(s.decode) \subseteq Reqs
    BY DEF Lists, Range
  <2>2. RunningReqs(s) \subseteq Reqs
    <3>1. ASSUME NEW b \in DOMAIN s.running, NEW e \in Range(s.running[b])
          PROVE  e.req \in Reqs
      <4>1. s.running \in Seq(Seq(Rows))
        BY DEF Typed
      <4>2. s.running[b] \in Seq(Rows)
        BY <4>1
      <4>3. e \in Rows
        BY <4>2 DEF Range
      <4> QED BY <4>3 DEF Rows
    <3> QED BY <3>1 DEF RunningReqs
  <2> QED BY <2>1, <2>2
<1>2. IsFiniteSet(Q)
  BY <1>1, SchedulerAssumption, FS_Subset
<1>4. DOMAIN f = Q /\ \A q \in Q : f[q] = {q} \X (1 .. ReserveOf(s, q, ratio))
  OBVIOUS
<1> HIDE DEF f
<1> HIDE DEF Q
<1>3. \A q \in Q : IsFiniteSet({q} \X (1 .. ReserveOf(s, q, ratio)))
  <2>1. TAKE q \in Q
  <2>2. q \in Reqs /\ ObjOK(A, s.obj[q])
    BY <1>1, <2>1 DEF Typed
  <2>3. ReserveOf(s, q, ratio) \in Int
    <3> DEFINE remaining == OutLen[q] - (Len(s.obj[q].tok) - Len(Prompt[q]))
               slack == MaxOf(0, Len(s.obj[q].table) * PageSize - Len(s.obj[q].tok))
               x == (ratio * remaining) \div 100 - slack
    <3>1. remaining \in Int
      <4>0. OutLen[q] \in Nat
        BY <2>2, SchedulerAssumption
      <4>1. Prompt[q] \in Seq(Range(Prompt[q]))
        BY <2>2, SchedulerAssumption
      <4>2. Len(Prompt[q]) \in Nat
        BY <4>1
      <4>3. Len(s.obj[q].tok) \in Nat
        BY <2>2 DEF ObjOK
      <4> DEFINE l == Len(s.obj[q].tok)
                 m == Len(Prompt[q])
                 n == OutLen[q]
      <4>4. l \in Nat /\ m \in Nat /\ n \in Nat /\ remaining = n - (l - m)
        BY <4>0, <4>2, <4>3
      <4> HIDE DEF l, m, n, remaining
      <4> QED BY <4>4
    <3>2. slack \in Int
      <4>1. Len(s.obj[q].tok) \in Nat /\ Len(s.obj[q].table) \in Nat
        BY <2>2 DEF ObjOK
      <4>2. PageSize \in Nat
        BY SchedulerAssumption
      <4>3. Len(s.obj[q].table) * PageSize \in Nat
        BY <4>1, <4>2
      <4>4. Len(s.obj[q].table) * PageSize - Len(s.obj[q].tok) \in Int
        BY <4>1, <4>3
      <4> HIDE DEF slack
      <4> QED BY <4>4, MinMax DEF slack
    <3>3. ReserveOf(s, q, ratio)
            = IF ComputedPrompt(s.obj[q]) /\ remaining > 0 THEN PagesFor(MaxOf(0, x)) ELSE 0
      BY DEF ReserveOf
    <3> HIDE DEF remaining, slack
    <3>4. x \in Int
      <4>1. ratio * remaining \in Int
        BY <3>1
      <4>2. (ratio * remaining) \div 100 \in Int
        BY <4>1
      <4> QED BY <3>2, <4>2
    <3> HIDE DEF x
    <3>5. MaxOf(0, x) \in Nat
      BY <3>4, MinMax
    <3>6. PagesFor(MaxOf(0, x)) \in Nat
      BY <3>5, PagesForNext
    <3> QED BY <3>3, <3>6
  <2>4. IsFiniteSet(1 .. ReserveOf(s, q, ratio))
    BY <2>3, FS_Interval
  <2>5. IsFiniteSet({q})
    BY FS_Singleton
  <2> QED BY <2>4, <2>5, FS_Product
<1>5. IsFiniteSet(UNION {f[q] : q \in Q})
  BY <1>2, <1>3, <1>4, FiniteUnion
<1>6. {f[q] : q \in Q} = {{q} \X (1 .. ReserveOf(s, q, ratio)) : q \in Q}
  BY <1>4
<1>7. Cardinality(UNION {{q} \X (1 .. ReserveOf(s, q, ratio)) : q \in Q}) \in Nat
  BY <1>5, <1>6, FS_CardinalityType
<1>8. MaxOf(1, PP) \in Nat
  BY SchedulerAssumption, MinMax
<1> QED BY <1>7, <1>8, MinMax DEF Reserve, Q

-----------------------------------------------------------------------------
(* What one call of the scheduler moves. *)

\* t is s after some scheduling: the requests of V were preempted, those of B are on
\* their way through the pipe.
Moved(A, s, t, W, D, F, W2, D2, V, B) ==
  /\ W \subseteq Reqs /\ D \subseteq Reqs /\ F \subseteq Reqs
  /\ B \subseteq W \cup D /\ V \subseteq W \cup D /\ W2 \cup D2 = (W \cup D) \ B
  /\ Typed(A, t) /\ Placed(t, W2, D2, F \cup B)
  /\ t.running = s.running /\ t.abort = s.abort /\ t.frees = s.frees
  /\ t.preempted = s.preempted \cup V
  /\ \A x \in Reqs : t.obj[x].tok = s.obj[x].tok /\ t.obj[x].prompt >= s.obj[x].prompt
  /\ \A x \in Reqs \ V : Fed(s.obj[x], t.obj[x])
  /\ \A x \in Reqs \ (W \cup D) : t.obj[x] = s.obj[x]

\* Two parts of a scheduling after one another.
LEMMA MovedTrans ==
  ASSUME NEW A, NEW r, NEW s, NEW t, Typed(A, r),
         NEW W, NEW D, NEW F, NEW W2, NEW D2, NEW W3, NEW D3, NEW V, NEW B, NEW V2, NEW B2,
         Moved(A, r, s, W, D, F, W2, D2, V, B),
         Moved(A, s, t, W2, D2, F \cup B, W3, D3, V2, B2)
  PROVE  Moved(A, r, t, W, D, F, W3, D3, V \cup V2, B \cup B2)
<1>1. Typed(A, s) /\ Typed(A, t)
  BY DEF Moved
<1>2. /\ B \cup B2 \subseteq W \cup D /\ V \cup V2 \subseteq W \cup D
      /\ W3 \cup D3 = (W \cup D) \ (B \cup B2)
      /\ (F \cup B) \cup B2 = F \cup (B \cup B2)
  BY DEF Moved
<1>3. Placed(t, W3, D3, F \cup (B \cup B2))
  <2>1. Placed(t, W3, D3, (F \cup B) \cup B2)
    BY DEF Moved
  <2> QED BY <1>2, <2>1
<1>4. \A x \in Reqs \ (V \cup V2) : Fed(r.obj[x], t.obj[x])
  <2>1. TAKE x \in Reqs \ (V \cup V2)
  <2>2. Fed(r.obj[x], s.obj[x]) /\ Fed(s.obj[x], t.obj[x])
    BY <2>1 DEF Moved
  <2>3. ObjOK(A, r.obj[x]) /\ ObjOK(A, s.obj[x]) /\ ObjOK(A, t.obj[x])
    BY <1>1, <2>1 DEF Typed
  <2>4. /\ t.obj[x].tok = r.obj[x].tok /\ t.obj[x].prompt = r.obj[x].prompt
        /\ r.obj[x].computed <= t.obj[x].computed
    BY <2>2, <2>3 DEF Fed, ObjOK
  <2>5. r.obj[x].computed # 0 => Extends(r.obj[x].table, t.obj[x].table)
    <3>1. SUFFICES ASSUME r.obj[x].computed # 0 PROVE Extends(r.obj[x].table, t.obj[x].table)
      OBVIOUS
    <3>2. s.obj[x].computed # 0
      BY <2>2, <2>3, <3>1 DEF Fed, ObjOK
    <3>3. Extends(r.obj[x].table, s.obj[x].table) /\ Extends(s.obj[x].table, t.obj[x].table)
      BY <2>2, <3>1, <3>2 DEF Fed
    <3>4. /\ r.obj[x].table \in Seq(Pages) /\ s.obj[x].table \in Seq(Pages)
          /\ t.obj[x].table \in Seq(Pages)
      BY <2>3 DEF ObjOK
    <3> QED BY <3>3, <3>4, ExtendsTrans
  <2> QED BY <2>4, <2>5 DEF Fed
<1>5. \A x \in Reqs : t.obj[x].tok = r.obj[x].tok /\ t.obj[x].prompt >= r.obj[x].prompt
  <2>1. TAKE x \in Reqs
  <2>2. r.obj[x].prompt \in Nat /\ s.obj[x].prompt \in Nat /\ t.obj[x].prompt \in Nat
    BY <1>1 DEF Typed, ObjOK
  <2>3. /\ s.obj[x].tok = r.obj[x].tok /\ s.obj[x].prompt >= r.obj[x].prompt
        /\ t.obj[x].tok = s.obj[x].tok /\ t.obj[x].prompt >= s.obj[x].prompt
    BY DEF Moved
  <2> QED BY <2>2, <2>3
<1>6. \A x \in Reqs \ (W \cup D) : t.obj[x] = r.obj[x]
  BY <1>2 DEF Moved
<1>7. /\ t.running = r.running /\ t.abort = r.abort /\ t.frees = r.frees
      /\ t.preempted = r.preempted \cup (V \cup V2)
  BY DEF Moved
<1> QED BY <1>1, <1>2, <1>3, <1>4, <1>5, <1>6, <1>7 DEF Moved

LEMMA JitteredMoved ==
  ASSUME NEW A, NEW s, Typed(A, s), NEW W, NEW D, NEW F, Placed(s, W, D, F),
         NEW total \in Nat
  PROVE  Moved(A, s, Jittered(s, total), W, D, F, W, D, {}, {})
<1> DEFINE t == Jittered(s, total)
<1>1. /\ DOMAIN t = SchFields /\ t.obj = s.obj /\ t.pool = s.pool /\ t.prefill = s.prefill
      /\ t.decode = s.decode /\ t.running = s.running /\ t.abort = s.abort
      /\ t.frees = s.frees /\ t.preempted = s.preempted
  BY DEF Typed, SchFields, Jittered
<1>2. t.jitter \in Nat
  BY SchedulerAssumption DEF Typed, SchFields, Jittered
<1> HIDE DEF t
<1>3. Typed(A, t)
  BY <1>1, <1>2 DEF Typed
<1>4. Placed(t, W, D, F \cup {})
  BY <1>1 DEF Placed
<1>5. \A x \in Reqs : Fed(s.obj[x], t.obj[x]) /\ t.obj[x].prompt >= s.obj[x].prompt
  <2>1. \A x \in Reqs : ObjOK(A, s.obj[x])
    BY DEF Typed
  <2>2. \A x \in Reqs : Fed(s.obj[x], s.obj[x])
    BY <2>1, FedSelf
  <2>3. \A x \in Reqs : s.obj[x].prompt \in Nat
    BY <2>1 DEF ObjOK
  <2> QED BY <1>1, <2>2, <2>3
<1>6. W \subseteq Reqs /\ D \subseteq Reqs /\ F \subseteq Reqs
  BY ListsIn DEF Placed
<1>7. t.preempted = s.preempted \cup {}
  BY <1>1
<1> QED BY <1>1, <1>3, <1>4, <1>5, <1>6, <1>7 DEF Moved, t

LEMMA DecodesMoved ==
  ASSUME NEW A, NEW s, Typed(A, s), NEW W, NEW D, NEW F, Placed(s, W, D, F),
         NEW budget \in Nat
  PROVE  LET r == DecodeBatch(s, budget)
         IN  \E W2, D2, V, B :
               /\ Moved(A, s, r.sch, W, D, F, W2, D2, V, B)
               /\ IsBatch(r.batch, B, {}) /\ Shows(r.batch, r.sch)
               /\ Len(r.batch) <= budget
<1> DEFINE t == DecodeBatch(s, budget).sch
           b == DecodeBatch(s, budget).batch
<1>1. PICK V, T, m : /\ Preempted(A, s, m, W, D, F, V)
                     /\ DecodesTaken(A, m, t, b, W \cup V, D \ V, F, T)
  BY DecodeBatchOK
<1>11. Len(b) <= budget
  BY DecodeBatchOK
<1> HIDE DEF t, b
<1>2. W \subseteq Reqs /\ D \subseteq Reqs /\ F \subseteq Reqs
  BY ListsIn DEF Placed
<1>3. /\ V \subseteq D /\ T \subseteq D \ V /\ Typed(A, m) /\ Typed(A, t)
      /\ IsBatch(b, T, {}) /\ Shows(b, t)
      /\ Placed(m, W \cup V, D \ V, F)
      /\ Placed(t, W \cup V, (D \ V) \ T, F \cup T)
  BY <1>1 DEF Preempted, DecodesTaken
<1>4. /\ t.running = s.running /\ t.abort = s.abort /\ t.frees = s.frees
      /\ t.preempted = s.preempted \cup V
  BY <1>1 DEF Preempted, DecodesTaken
<1>5. \A x \in Reqs : t.obj[x].tok = s.obj[x].tok /\ t.obj[x].prompt >= s.obj[x].prompt
  <2>1. TAKE x \in Reqs
  <2>2. ObjOK(A, s.obj[x])
    BY DEF Typed
  <2>3. t.obj[x].tok = m.obj[x].tok /\ t.obj[x].prompt = m.obj[x].prompt
    BY <1>1 DEF DecodesTaken
  <2>4. x \in V => m.obj[x].tok = s.obj[x].tok /\ m.obj[x].prompt = Len(s.obj[x].tok)
    BY <1>1 DEF Preempted
  <2>5. x \notin V => m.obj[x] = s.obj[x]
    BY <1>1 DEF Preempted
  <2> QED BY <2>2, <2>3, <2>4, <2>5 DEF ObjOK
<1>6. \A x \in Reqs \ V : Fed(s.obj[x], t.obj[x])
  <2>1. TAKE x \in Reqs \ V
  <2>2. m.obj[x] = s.obj[x]
    BY <1>1 DEF Preempted
  <2>3. /\ t.obj[x].tok = m.obj[x].tok /\ t.obj[x].prompt = m.obj[x].prompt
        /\ t.obj[x].computed = m.obj[x].computed
        /\ Extends(m.obj[x].table, t.obj[x].table)
    BY <1>1 DEF DecodesTaken
  <2>4. ObjOK(A, s.obj[x])
    BY DEF Typed
  <2> QED BY <2>2, <2>3, <2>4 DEF Fed, ObjOK
<1>7. \A x \in Reqs \ (W \cup D) : t.obj[x] = s.obj[x]
  <2>1. \A x \in Reqs \ (W \cup D) : m.obj[x] = s.obj[x]
    BY <1>1 DEF Preempted
  <2> QED BY <1>1, <1>3, <2>1 DEF DecodesTaken
<1>8. (W \cup V) \cup ((D \ V) \ T) = (W \cup D) \ T
  BY <1>3 DEF Placed
<1>9. Moved(A, s, t, W, D, F, W \cup V, (D \ V) \ T, V, T)
  BY <1>2, <1>3, <1>4, <1>5, <1>6, <1>7, <1>8 DEF Moved
<1> QED BY <1>3, <1>9, <1>11 DEF t, b

LEMMA PrefillsMoved ==
  ASSUME NEW A, NEW s, Typed(A, s), NEW W, NEW D, NEW F, Placed(s, W, D, F),
         NEW budget \in Nat, NEW room, NEW reserve \in Nat
  PROVE  LET r == PrefillBatch(s, budget, room, reserve)
         IN  \E W2, D2, V, B, U :
               /\ Moved(A, s, r.sch, W, D, F, W2, D2, V, B)
               /\ IsBatch(r.batch, B, U) /\ Shows(r.batch, r.sch)
               /\ B \subseteq W /\ U \subseteq W2 /\ U \subseteq W
               /\ \A x \in U : r.sch.obj[x].computed > 0
               /\ \A x \in Reqs \ W : r.sch.obj[x] = s.obj[x]
<1> DEFINE t == PrefillBatch(s, budget, room, reserve).sch
           b == PrefillBatch(s, budget, room, reserve).batch
<1>1. PICK B, U : PrefillsTaken(A, s, t, b, W, D, F, B, U)
  BY PrefillBatchOK
<1> HIDE DEF t, b
<1>2. W \subseteq Reqs /\ D \subseteq Reqs /\ F \subseteq Reqs
  BY ListsIn DEF Placed
<1>3. /\ B \subseteq W /\ U \subseteq W \ B /\ Typed(A, t) /\ Placed(t, W \ B, D, F \cup B)
      /\ IsBatch(b, B, U) /\ Shows(b, t)
      /\ \A x \in U : t.obj[x].computed > 0
      /\ \A x \in Reqs \ W : t.obj[x] = s.obj[x]
  BY <1>1 DEF PrefillsTaken
<1>4. /\ t.running = s.running /\ t.abort = s.abort /\ t.frees = s.frees
      /\ t.preempted = s.preempted
  BY <1>1 DEF PrefillsTaken, Frame
<1>5. \A x \in Reqs : Fed(s.obj[x], t.obj[x])
  BY <1>1 DEF PrefillsTaken
<1>6. \A x \in Reqs : t.obj[x].tok = s.obj[x].tok /\ t.obj[x].prompt >= s.obj[x].prompt
  BY <1>5 DEF Fed, Typed, ObjOK
<1>7. (W \ B) \cup D = (W \cup D) \ B
  BY <1>3 DEF Placed
<1>8. Moved(A, s, t, W, D, F, W \ B, D, {}, B)
  BY <1>2, <1>3, <1>4, <1>5, <1>6, <1>7 DEF Moved
<1> QED BY <1>3, <1>8 DEF t, b

LEMMA BatchConcat ==
  ASSUME NEW b, NEW B, NEW U, IsBatch(b, B, U), NEW c, NEW C, NEW X, IsBatch(c, C, X),
         (B \cup U) \cap (C \cup X) = {}, NEW s, Shows(b, s), Shows(c, s)
  PROVE  IsBatch(b \o c, B \cup C, U \cup X) /\ Shows(b \o c, s)
<1>1. PICK S, T : b \in Seq(S) /\ c \in Seq(T)
  BY DEF IsBatch, IsSeq
<1> DEFINE Z == S \cup T
           d == b \o c
<1>2. b \in Seq(Z) /\ c \in Seq(Z)
  BY <1>1
<1> HIDE DEF Z
<1>3. d \in Seq(Z) /\ Len(b) \in Nat /\ Len(c) \in Nat /\ Len(d) = Len(b) + Len(c)
  BY <1>2
<1>4. /\ \A i \in 1 .. Len(b) : d[i] = b[i]
      /\ \A i \in 1 .. Len(c) : d[Len(b) + i] = c[i]
  BY <1>2
<1>5. \A i \in 1 .. Len(d) : i \in 1 .. Len(b) \/ (i - Len(b) \in 1 .. Len(c) /\ i = Len(b) + (i - Len(b)))
  BY <1>3
<1>6. \A i \in 1 .. Len(d) : \/ i \in 1 .. Len(b) /\ d[i] = b[i]
                             \/ i - Len(b) \in 1 .. Len(c) /\ d[i] = c[i - Len(b)]
  BY <1>4, <1>5
<1>7. /\ \A i \in 1 .. Len(b) : b[i].req \in B \cup U /\ b[i].req \in Reqs /\ b[i].part \in BOOLEAN
      /\ \A i \in 1 .. Len(c) : c[i].req \in C \cup X /\ c[i].req \in Reqs /\ c[i].part \in BOOLEAN
  BY DEF IsBatch
<1> HIDE DEF d
<1>8. \A i \in 1 .. Len(d) : d[i].req \in Reqs /\ d[i].part \in BOOLEAN
  BY <1>6, <1>7
<1>9. \A i, j \in 1 .. Len(d) : d[i].req = d[j].req => i = j
  <2>1. TAKE i, j \in 1 .. Len(d)
  <2>2. SUFFICES ASSUME d[i].req = d[j].req PROVE i = j
    OBVIOUS
  <2>3. CASE i \in 1 .. Len(b) /\ d[i] = b[i] /\ j \in 1 .. Len(b) /\ d[j] = b[j]
    BY <2>2, <2>3 DEF IsBatch
  <2>4. CASE i \in 1 .. Len(b) /\ d[i] = b[i] /\ j - Len(b) \in 1 .. Len(c) /\ d[j] = c[j - Len(b)]
    BY <1>7, <2>2, <2>4
  <2>5. CASE j \in 1 .. Len(b) /\ d[j] = b[j] /\ i - Len(b) \in 1 .. Len(c) /\ d[i] = c[i - Len(b)]
    BY <1>7, <2>2, <2>5
  <2>6. CASE /\ i - Len(b) \in 1 .. Len(c) /\ d[i] = c[i - Len(b)]
             /\ j - Len(b) \in 1 .. Len(c) /\ d[j] = c[j - Len(b)]
    <3>1. i - Len(b) = j - Len(b)
      BY <2>2, <2>6 DEF IsBatch
    <3> QED BY <1>3, <3>1
  <2> QED BY <1>6, <2>3, <2>4, <2>5, <2>6
<1>10. \A i \in 1 .. Len(b) : i \in 1 .. Len(d)
  BY <1>3
<1>11. \A i \in 1 .. Len(c) : Len(b) + i \in 1 .. Len(d)
  BY <1>3
<1>12. \A q : q \in B \cup C <=> \E i \in 1 .. Len(d) : d[i].req = q /\ ~d[i].part
  <2>1. TAKE q
  <2>2. ASSUME q \in B PROVE \E i \in 1 .. Len(d) : d[i].req = q /\ ~d[i].part
    BY <1>4, <1>10, <2>2 DEF IsBatch
  <2>3. ASSUME q \in C PROVE \E i \in 1 .. Len(d) : d[i].req = q /\ ~d[i].part
    <3>1. PICK i \in 1 .. Len(c) : c[i].req = q /\ ~c[i].part
      BY <2>3 DEF IsBatch
    <3> QED BY <1>4, <1>11, <3>1
  <2>4. ASSUME NEW i \in 1 .. Len(d), d[i].req = q, ~d[i].part PROVE q \in B \cup C
    BY <1>6, <2>4 DEF IsBatch
  <2> QED BY <2>2, <2>3, <2>4
<1>13. \A q : q \in U \cup X <=> \E i \in 1 .. Len(d) : d[i].req = q /\ d[i].part
  <2>1. TAKE q
  <2>2. ASSUME q \in U PROVE \E i \in 1 .. Len(d) : d[i].req = q /\ d[i].part
    BY <1>4, <1>10, <2>2 DEF IsBatch
  <2>3. ASSUME q \in X PROVE \E i \in 1 .. Len(d) : d[i].req = q /\ d[i].part
    BY <1>4, <1>11, <2>3 DEF IsBatch
  <2>4. ASSUME NEW i \in 1 .. Len(d), d[i].req = q, d[i].part PROVE q \in U \cup X
    BY <1>6, <2>4 DEF IsBatch
  <2> QED BY <2>2, <2>3, <2>4
<1>14. IsSeq(d)
  BY <1>3 DEF IsSeq
<1>15. Shows(d, s)
  BY <1>6 DEF Shows
<1>16. IsBatch(d, B \cup C, U \cup X)
  BY <1>8, <1>9, <1>12, <1>13, <1>14 DEF IsBatch
<1> QED BY <1>15, <1>16 DEF d

\* r.sch is s after some scheduling, and r.batch the batch that was built: the requests
\* of B are on their way, and those of U have another chunk to come.
Built(A, s, r, W, D, F, W2, D2, V, B, U) ==
  /\ Moved(A, s, r.sch, W, D, F, W2, D2, V, B)
  /\ IsBatch(r.batch, B, U) /\ Shows(r.batch, r.sch)
  /\ U \subseteq W2 /\ \A x \in U : r.sch.obj[x].computed > 0

LEMMA JitteredBatchOK ==
  ASSUME NEW A, NEW s, Typed(A, s), NEW W, NEW D, NEW F, Placed(s, W, D, F),
         NEW total \in Nat, NEW budget \in Nat
  PROVE  LET r == DecodeBatch(Jittered(s, total), budget)
         IN  /\ \E W2, D2, V, B : Built(A, s, r, W, D, F, W2, D2, V, B, {})
             /\ Len(r.batch) <= budget
<1> DEFINE m == Jittered(s, total)
           r == DecodeBatch(m, budget)
<1>1. Moved(A, s, m, W, D, F, W, D, {}, {})
  BY JitteredMoved
<1> HIDE DEF m
<1>2. Typed(A, m) /\ Placed(m, W, D, F)
  <2>1. F \cup {} = F
    OBVIOUS
  <2> QED BY <1>1, <2>1 DEF Moved
<1>3. PICK W2, D2, V, B : /\ Moved(A, m, r.sch, W, D, F, W2, D2, V, B)
                          /\ IsBatch(r.batch, B, {}) /\ Shows(r.batch, r.sch)
                          /\ Len(r.batch) <= budget
  BY <1>2, DecodesMoved
<1> HIDE DEF r
<1>4. Moved(A, s, r.sch, W, D, F, W2, D2, {} \cup V, {} \cup B)
  <2>1. Moved(A, m, r.sch, W, D, F \cup {}, W2, D2, V, B)
    <3>1. F \cup {} = F
      OBVIOUS
    <3> QED BY <1>3, <3>1
  <2> QED BY <1>1, <2>1, MovedTrans
<1>5. {} \cup V = V /\ {} \cup B = B
  OBVIOUS
<1>6. Moved(A, s, r.sch, W, D, F, W2, D2, V, B)
  BY <1>4, <1>5
<1>7. Built(A, s, r, W, D, F, W2, D2, V, B, {})
  BY <1>3, <1>6 DEF Built
<1> QED BY <1>3, <1>7 DEF r, m

LEMMA DecodeForOK ==
  ASSUME NEW A, NEW s, Typed(A, s), NEW W, NEW D, NEW F, Placed(s, W, D, F),
         NEW total \in Nat
  PROVE  LET r == DecodeFor(s, total)
         IN  /\ \E W2, D2, V, B : Built(A, s, r, W, D, F, W2, D2, V, B, {})
             /\ Len(r.batch) <= MaxP
<1> DEFINE x == IF total < PP THEN 1 ELSE (total + s.jitter) \div PP
           budget == MinOf(DecodeBudget(s, total), MaxP)
<1>1. x \in Nat
  <2>1. s.jitter \in Nat /\ PP \in Nat \ {0}
    BY SchedulerAssumption DEF Typed
  <2>2. (total + s.jitter) \div PP \in Nat
    BY <2>1, DivBounds
  <2> QED BY <2>2
<1>2. DecodeBudget(s, total) = MinOf(MaxD, x)
  BY DEF DecodeBudget
<1> HIDE DEF x
<1>3. DecodeBudget(s, total) \in Nat
  BY <1>1, <1>2, MinMax, SchedulerAssumption
<1>4. budget \in Nat /\ budget <= MaxP
  BY <1>3, MinMax, SchedulerAssumption
<1>5. DecodeFor(s, total) = DecodeBatch(Jittered(s, total), budget)
  BY DEF DecodeFor
<1> HIDE DEF budget
<1> DEFINE r == DecodeBatch(Jittered(s, total), budget)
<1>6. /\ \E W2, D2, V, B : Built(A, s, r, W, D, F, W2, D2, V, B, {})
      /\ Len(r.batch) <= budget
  BY <1>4, JitteredBatchOK
<1>7. Len(r.batch) \in Nat
  <2>1. PICK W2, D2, V, B : Built(A, s, r, W, D, F, W2, D2, V, B, {})
    BY <1>6
  <2>2. \E S : r.batch \in Seq(S)
    BY <2>1, Zenon DEF Built, IsBatch, IsSeq
  <2> QED BY <2>2
<1> HIDE DEF r
<1>8. Len(r.batch) <= MaxP
  BY <1>4, <1>6, <1>7, SchedulerAssumption
<1> QED BY <1>5, <1>6, <1>8 DEF r

LEMMA MixedBatchOK ==
  ASSUME NEW A, NEW s, Typed(A, s), NEW W, NEW D, NEW F, Placed(s, W, D, F),
         NEW first, \E W2, D2, V, B : Built(A, s, first, W, D, F, W2, D2, V, B, {}),
         Len(first.batch) <= MaxP, NEW reserve \in Nat
  PROVE  LET r == MixedBatch(first, reserve)
         IN  \E W2, D2, V, B, U : Built(A, s, r, W, D, F, W2, D2, V, B, U)
<1>1. PICK W1, D1, V1, B1 : Built(A, s, first, W, D, F, W1, D1, V1, B1, {})
  OBVIOUS
<1> DEFINE t == first.sch
           x == PageSize * MaxOf(FreePages(t) - reserve, 0)
           budget == MinOf(MaxP - Len(first.batch), x)
           room == MaxD - Len(first.batch)
           p == PrefillBatch(t, budget, room, reserve)
           r == MixedBatch(first, reserve)
<1>2. Typed(A, t) /\ Placed(t, W1, D1, F \cup B1)
  BY <1>1 DEF Built, Moved
<1>3. Len(first.batch) \in Nat
  <2>1. \E S : first.batch \in Seq(S)
    BY <1>1, Zenon DEF Built, IsBatch, IsSeq
  <2> QED BY <2>1
<1>4. x \in Nat
  <2>1. FreePages(t) \in Nat
    BY <1>2, FreePagesNat
  <2>2. MaxOf(FreePages(t) - reserve, 0) \in Nat
    BY <2>1, MinMax
  <2>3. PageSize \in Nat
    BY SchedulerAssumption
  <2> QED BY <2>2, <2>3
<1> HIDE DEF x
<1>5. budget \in Nat
  <2>1. MaxP \in Nat
    BY SchedulerAssumption
  <2>2. MaxP - Len(first.batch) \in Nat
    BY <1>3, <2>1
  <2> QED BY <1>4, <2>2, MinMax
<1>6. DOMAIN p = {"sch", "batch"}
  BY DEF PrefillBatch, Requeued
<1>7. r = [p EXCEPT !.batch = first.batch \o @]
  BY DEF MixedBatch, Prefills, x
<1> HIDE DEF p, r
<1>8. r.sch = p.sch /\ r.batch = first.batch \o p.batch
  BY <1>6, <1>7
<1> HIDE DEF budget, room, t
<1>9. PICK W2, D2, V, B, U :
               /\ Moved(A, t, p.sch, W1, D1, F \cup B1, W2, D2, V, B)
               /\ IsBatch(p.batch, B, U) /\ Shows(p.batch, p.sch)
               /\ B \subseteq W1 /\ U \subseteq W2 /\ U \subseteq W1
               /\ \A q \in U : p.sch.obj[q].computed > 0
               /\ \A q \in Reqs \ W1 : p.sch.obj[q] = t.obj[q]
  BY <1>2, <1>5, PrefillsMoved DEF p
<1>10. Moved(A, s, t, W, D, F, W1, D1, V1, B1)
  BY <1>1 DEF Built, t
<1>11. Moved(A, s, r.sch, W, D, F, W2, D2, V1 \cup V, B1 \cup B)
  BY <1>8, <1>9, <1>10, MovedTrans
<1>12. IsBatch(first.batch, B1, {}) /\ Shows(first.batch, t)
  BY <1>1 DEF Built, t
<1>13. B1 \cap W1 = {}
  BY <1>2 DEF Placed
<1>14. Shows(first.batch, p.sch)
  <2>1. \A i \in 1 .. Len(first.batch) : first.batch[i].req \in Reqs \ W1
    <3>1. TAKE i \in 1 .. Len(first.batch)
    <3>2. first.batch[i].req \in Reqs /\ first.batch[i].part \in BOOLEAN
      BY <1>12, <3>1 DEF IsBatch
    <3>3. first.batch[i].part => first.batch[i].req \in {}
      BY <1>12, <3>1 DEF IsBatch
    <3>4. ~first.batch[i].part => first.batch[i].req \in B1
      BY <1>12, <3>1 DEF IsBatch
    <3> QED BY <1>13, <3>2, <3>3, <3>4
  <2> QED BY <1>9, <1>12, <2>1 DEF Shows
<1>15. (B1 \cup {}) \cap (B \cup U) = {}
  BY <1>9, <1>13
<1>16. IsBatch(r.batch, B1 \cup B, {} \cup U) /\ Shows(r.batch, p.sch)
  <2>1. IsBatch(first.batch, B1, {}) /\ Shows(first.batch, p.sch)
    BY <1>12, <1>14
  <2>2. IsBatch(p.batch, B, U) /\ Shows(p.batch, p.sch)
    BY <1>9
  <2>3. /\ IsBatch(first.batch \o p.batch, B1 \cup B, {} \cup U)
        /\ Shows(first.batch \o p.batch, p.sch)
    BY <1>15, <2>1, <2>2, BatchConcat
  <2> QED BY <1>8, <2>3
<1>17. IsBatch(r.batch, B1 \cup B, U)
  <2>1. {} \cup U = U
    OBVIOUS
  <2> QED BY <1>16, <2>1
<1>18. Built(A, s, r, W, D, F, W2, D2, V1 \cup V, B1 \cup B, U)
  BY <1>8, <1>9, <1>11, <1>16, <1>17 DEF Built
<1> QED BY <1>18 DEF r

LEMMA ChunkedPrefillOK ==
  ASSUME NEW A, NEW s, Typed(A, s), NEW W, NEW D, NEW F, Placed(s, W, D, F),
         NEW ratio \in Nat
  PROVE  LET r == ChunkedPrefill(s, ratio)
         IN  \E W2, D2, V, B, U : Built(A, s, r, W, D, F, W2, D2, V, B, U)
<1> DEFINE total == Decodable(s)
           reserve == Reserve(s, ratio)
           none == DecodeBatch(Jittered(s, total), 0)
           mixed == MixedBatch(none, reserve)
<1>1. total \in Nat /\ reserve \in Nat
  <2>1. s.decode \in Seq(Reqs) /\ Lists(s.decode, D)
    BY DEF Placed, Lists
  <2> QED BY <2>1, DecodableNat, ReserveNat
<1>2. ChunkedPrefill(s, ratio)
        = IF SplitPd /\ s.prefill # <<>> /\ FreePages(s) >= reserve
          THEN PrefillElse(mixed, total)
          ELSE MixedBatch(DecodeFor(s, total), reserve)
  BY DEF ChunkedPrefill
<1> HIDE DEF total, reserve
<1>3. \E W2, D2, V, B, U :
        Built(A, s, MixedBatch(DecodeFor(s, total), reserve), W, D, F, W2, D2, V, B, U)
  BY <1>1, DecodeForOK, MixedBatchOK
<1>4. PICK W1, D1, V1, B1, U1 : Built(A, s, mixed, W, D, F, W1, D1, V1, B1, U1)
  <2>1. /\ \E W2, D2, V, B : Built(A, s, none, W, D, F, W2, D2, V, B, {})
        /\ Len(none.batch) <= 0
    BY <1>1, JitteredBatchOK
  <2>2. Len(none.batch) <= MaxP
    <3>1. PICK W2, D2, V, B : Built(A, s, none, W, D, F, W2, D2, V, B, {})
      BY <2>1
    <3>2. \E S : none.batch \in Seq(S)
      BY <3>1, Zenon DEF Built, IsBatch, IsSeq
    <3> HIDE DEF none
    <3>3. Len(none.batch) \in Nat
      BY <3>2
    <3> QED BY <2>1, <3>3, SchedulerAssumption
  <2> HIDE DEF none
  <2> QED BY <1>1, <2>1, <2>2, MixedBatchOK
<1> HIDE DEF mixed
<1>5. \E W2, D2, V, B, U : Built(A, s, PrefillElse(mixed, total), W, D, F, W2, D2, V, B, U)
  <2>1. CASE mixed.batch # <<>>
    BY <1>4, <2>1 DEF PrefillElse
  <2>2. CASE mixed.batch = <<>>
    <3> DEFINE d == DecodeFor(mixed.sch, total)
    <3>1. PrefillElse(mixed, total) = d
      BY <2>2 DEF PrefillElse
    <3>2. B1 = {}
      <4>1. \A q : q \in B1 <=> \E i \in 1 .. 0 : mixed.batch[i].req = q /\ ~mixed.batch[i].part
        <5>1. Len(mixed.batch) = 0
          BY <2>2
        <5> QED BY <1>4, <5>1 DEF Built, IsBatch
      <4> QED BY <4>1
    <3>3. Typed(A, mixed.sch) /\ Placed(mixed.sch, W1, D1, F \cup B1)
      BY <1>4 DEF Built, Moved
    <3>4. /\ \E W2, D2, V, B : Built(A, mixed.sch, d, W1, D1, F \cup B1, W2, D2, V, B, {})
          /\ Len(d.batch) <= MaxP
      BY <1>1, <3>3, DecodeForOK
    <3>5. PICK W2, D2, V, B : Built(A, mixed.sch, d, W1, D1, F \cup B1, W2, D2, V, B, {})
      BY <3>4
    <3> HIDE DEF d
    <3>6. Moved(A, s, d.sch, W, D, F, W2, D2, V1 \cup V, B1 \cup B)
      BY <1>4, <3>5, MovedTrans DEF Built
    <3>7. B1 \cup B = B
      BY <3>2
    <3>8. Moved(A, s, d.sch, W, D, F, W2, D2, V1 \cup V, B)
      BY <3>6, <3>7
    <3>9. Built(A, s, d, W, D, F, W2, D2, V1 \cup V, B, {})
      BY <3>5, <3>8 DEF Built
    <3> QED BY <3>1, <3>9
  <2> QED BY <2>1, <2>2
<1> QED BY <1>2, <1>3, <1>5

\* The rows of the batches in the pipe whose token is read are of the requests of F,
\* one each.
RunsOK(runs, F) ==
  /\ \A b \in 1 .. Len(runs) : \A i \in 1 .. Len(runs[b]) :
       ~runs[b][i].part => runs[b][i].req \in F
  /\ \A q \in F : \E b \in 1 .. Len(runs) : \E i \in 1 .. Len(runs[b]) :
       runs[b][i].req = q /\ ~runs[b][i].part
  /\ \A b, c \in 1 .. Len(runs) : \A i \in 1 .. Len(runs[b]), j \in 1 .. Len(runs[c]) :
       ~runs[b][i].part /\ ~runs[c][j].part /\ runs[b][i].req = runs[c][j].req
         => b = c /\ i = j

RowsOf(b) == [i \in DOMAIN b |-> [req |-> b[i].req, part |-> b[i].part]]

LEMMA RowsOfOK ==
  ASSUME NEW b, NEW B, NEW U, IsBatch(b, B, U)
  PROVE  /\ RowsOf(b) \in Seq(Rows) /\ Len(RowsOf(b)) = Len(b) /\ Len(b) \in Nat
         /\ DOMAIN b = 1 .. Len(b)
         /\ \A i \in 1 .. Len(b) : RowsOf(b)[i].req = b[i].req /\ RowsOf(b)[i].part = b[i].part
<1>1. PICK S : b \in Seq(S)
  BY DEF IsBatch, IsSeq
<1>2. DOMAIN b = 1 .. Len(b) /\ Len(b) \in Nat
  BY <1>1
<1>3. \A i \in 1 .. Len(b) : [req |-> b[i].req, part |-> b[i].part] \in Rows
  BY DEF IsBatch, Rows
<1>4. RowsOf(b) = [i \in 1 .. Len(b) |-> [req |-> b[i].req, part |-> b[i].part]]
  BY <1>2 DEF RowsOf
<1>5. RowsOf(b) \in [1 .. Len(b) -> Rows]
  BY <1>3, <1>4
<1>6. RowsOf(b) \in Seq(Rows) /\ Len(RowsOf(b)) = Len(b)
  BY <1>2, <1>5
<1> QED BY <1>2, <1>4, <1>6

LEMMA RunsAppend ==
  ASSUME NEW runs \in Seq(Seq(Rows)), NEW F, RunsOK(runs, F),
         NEW b, NEW B, NEW U, IsBatch(b, B, U), B \cap F = {}
  PROVE  /\ Append(runs, RowsOf(b)) \in Seq(Seq(Rows))
         /\ RunsOK(Append(runs, RowsOf(b)), F \cup B)
<1> DEFINE r == RowsOf(b)
           t == Append(runs, r)
<1>1. /\ r \in Seq(Rows) /\ Len(r) = Len(b) /\ Len(b) \in Nat
      /\ \A i \in 1 .. Len(b) : r[i].req = b[i].req /\ r[i].part = b[i].part
  BY RowsOfOK
<1> HIDE DEF r
<1>2. /\ t \in Seq(Seq(Rows)) /\ Len(t) = Len(runs) + 1 /\ Len(runs) \in Nat
      /\ \A c \in 1 .. Len(runs) : t[c] = runs[c]
      /\ t[Len(runs) + 1] = r
  BY <1>1
<1> HIDE DEF t
<1>3. \A c \in 1 .. Len(t) : \/ c \in 1 .. Len(runs) /\ t[c] = runs[c]
                             \/ c = Len(runs) + 1 /\ t[c] = r
  BY <1>2
<1>4. \A i \in 1 .. Len(r) : ~r[i].part => r[i].req \in B
  <2>1. TAKE i \in 1 .. Len(r)
  <2>2. i \in 1 .. Len(b) /\ r[i].req = b[i].req /\ r[i].part = b[i].part
    BY <1>1, <2>1
  <2> QED BY <2>2 DEF IsBatch
<1>5. \A q \in B : \E i \in 1 .. Len(r) : r[i].req = q /\ ~r[i].part
  <2>1. TAKE q \in B
  <2>2. PICK i \in 1 .. Len(b) : b[i].req = q /\ ~b[i].part
    BY <2>1 DEF IsBatch
  <2> QED BY <1>1, <2>2
<1>6. \A i, j \in 1 .. Len(r) : r[i].req = r[j].req => i = j
  BY <1>1 DEF IsBatch
<1>7. ASSUME NEW c \in 1 .. Len(t), NEW i \in 1 .. Len(t[c]), ~t[c][i].part
      PROVE  t[c][i].req \in F \cup B
  <2>1. CASE c \in 1 .. Len(runs) /\ t[c] = runs[c]
    BY <1>7, <2>1 DEF RunsOK
  <2>2. CASE c = Len(runs) + 1 /\ t[c] = r
    BY <1>4, <1>7, <2>2
  <2> QED BY <1>3, <2>1, <2>2
<1>8. ASSUME NEW q \in F \cup B
      PROVE  \E c \in 1 .. Len(t) : \E i \in 1 .. Len(t[c]) : t[c][i].req = q /\ ~t[c][i].part
  <2>1. CASE q \in F
    <3>1. PICK c \in 1 .. Len(runs) : \E i \in 1 .. Len(runs[c]) :
                 runs[c][i].req = q /\ ~runs[c][i].part
      BY <2>1 DEF RunsOK
    <3> QED BY <1>2, <3>1
  <2>2. CASE q \in B
    <3>1. Len(runs) + 1 \in 1 .. Len(t)
      BY <1>2
    <3> QED BY <1>2, <1>5, <2>2, <3>1
  <2> QED BY <2>1, <2>2
<1>9. ASSUME NEW c \in 1 .. Len(t), NEW d \in 1 .. Len(t),
             NEW i \in 1 .. Len(t[c]), NEW j \in 1 .. Len(t[d]),
             ~t[c][i].part, ~t[d][j].part, t[c][i].req = t[d][j].req
      PROVE  c = d /\ i = j
  <2>1. CASE c \in 1 .. Len(runs) /\ t[c] = runs[c] /\ d \in 1 .. Len(runs) /\ t[d] = runs[d]
    BY <1>9, <2>1 DEF RunsOK
  <2>2. CASE c \in 1 .. Len(runs) /\ t[c] = runs[c] /\ d = Len(runs) + 1 /\ t[d] = r
    <3>1. t[c][i].req \in F
      BY <1>9, <2>2 DEF RunsOK
    <3>2. t[d][j].req \in B
      BY <1>4, <1>9, <2>2
    <3> QED BY <1>9, <3>1, <3>2
  <2>3. CASE d \in 1 .. Len(runs) /\ t[d] = runs[d] /\ c = Len(runs) + 1 /\ t[c] = r
    <3>1. t[d][j].req \in F
      BY <1>9, <2>3 DEF RunsOK
    <3>2. t[c][i].req \in B
      BY <1>4, <1>9, <2>3
    <3> QED BY <1>9, <3>1, <3>2
  <2>4. CASE c = Len(runs) + 1 /\ t[c] = r /\ d = Len(runs) + 1 /\ t[d] = r
    BY <1>6, <1>9, <2>4
  <2> QED BY <1>3, <2>1, <2>2, <2>3, <2>4
<1>10. RunsOK(t, F \cup B)
  BY <1>7, <1>8, <1>9 DEF RunsOK
<1> QED BY <1>2, <1>10 DEF t, r

LEMMA RunsTail ==
  ASSUME NEW runs \in Seq(Seq(Rows)), NEW F, RunsOK(runs, F), runs # <<>>
  PROVE  LET r == Head(runs)
             T == {r[i].req : i \in {j \in 1 .. Len(r) : ~r[j].part}}
         IN  /\ r \in Seq(Rows) /\ Tail(runs) \in Seq(Seq(Rows))
             /\ Len(Tail(runs)) = Len(runs) - 1
             /\ T \subseteq F /\ RunsOK(Tail(runs), F \ T)
             /\ \A i, j \in 1 .. Len(r) :
                  ~r[i].part /\ ~r[j].part /\ r[i].req = r[j].req => i = j
<1> DEFINE r == Head(runs)
           T == {r[i].req : i \in {j \in 1 .. Len(r) : ~r[j].part}}
           t == Tail(runs)
<1>1. /\ r \in Seq(Rows) /\ t \in Seq(Seq(Rows)) /\ Len(t) = Len(runs) - 1
      /\ Len(runs) \in Nat \ {0} /\ r = runs[1] /\ 1 \in 1 .. Len(runs)
      /\ \A c \in 1 .. Len(t) : t[c] = runs[c + 1]
  OBVIOUS
<1> HIDE DEF r, t
<1>2. \A c \in 1 .. Len(t) : c + 1 \in 1 .. Len(runs) /\ c + 1 # 1
  BY <1>1
<1>3. \A c \in 1 .. Len(runs) : c = 1 \/ (c - 1 \in 1 .. Len(t) /\ t[c - 1] = runs[c])
  BY <1>1
<1>4. \A i \in 1 .. Len(r) : ~r[i].part => r[i].req \in F
  BY <1>1 DEF RunsOK
<1>5. T \subseteq F
  BY <1>4
<1>6. \A i, j \in 1 .. Len(r) : ~r[i].part /\ ~r[j].part /\ r[i].req = r[j].req => i = j
  BY <1>1 DEF RunsOK
<1>7. ASSUME NEW c \in 1 .. Len(t), NEW i \in 1 .. Len(t[c]), ~t[c][i].part
      PROVE  t[c][i].req \in F \ T
  <2>1. t[c] = runs[c + 1] /\ c + 1 \in 1 .. Len(runs) /\ c + 1 # 1
    BY <1>1, <1>2
  <2>2. t[c][i].req \in F
    BY <1>7, <2>1 DEF RunsOK
  <2>3. \A j \in 1 .. Len(r) : ~r[j].part => r[j].req # t[c][i].req
    BY <1>1, <1>7, <2>1 DEF RunsOK
  <2> QED BY <2>2, <2>3
<1>8. ASSUME NEW q \in F \ T
      PROVE  \E c \in 1 .. Len(t) : \E i \in 1 .. Len(t[c]) : t[c][i].req = q /\ ~t[c][i].part
  <2>1. PICK c \in 1 .. Len(runs) : \E i \in 1 .. Len(runs[c]) :
               runs[c][i].req = q /\ ~runs[c][i].part
    BY <1>8 DEF RunsOK
  <2>2. c # 1
    BY <1>1, <1>8, <2>1
  <2> QED BY <1>3, <2>1, <2>2
<1>9. ASSUME NEW c \in 1 .. Len(t), NEW d \in 1 .. Len(t),
             NEW i \in 1 .. Len(t[c]), NEW j \in 1 .. Len(t[d]),
             ~t[c][i].part, ~t[d][j].part, t[c][i].req = t[d][j].req
      PROVE  c = d /\ i = j
  <2>1. /\ t[c] = runs[c + 1] /\ c + 1 \in 1 .. Len(runs)
        /\ t[d] = runs[d + 1] /\ d + 1 \in 1 .. Len(runs)
    BY <1>1, <1>2
  <2> DEFINE x == c + 1
             y == d + 1
  <2>3. /\ x \in 1 .. Len(runs) /\ y \in 1 .. Len(runs)
        /\ i \in 1 .. Len(runs[x]) /\ j \in 1 .. Len(runs[y])
        /\ ~runs[x][i].part /\ ~runs[y][j].part /\ runs[x][i].req = runs[y][j].req
    BY <1>9, <2>1
  <2> HIDE DEF x, y
  <2>4. x = y /\ i = j
    BY <2>3 DEF RunsOK
  <2>2. c + 1 = d + 1 /\ i = j
    BY <2>4 DEF x, y
  <2> QED BY <1>1, <2>2
<1> HIDE DEF T
<1>10. RunsOK(t, F \ T)
  BY <1>7, <1>8, <1>9 DEF RunsOK
<1> QED BY <1>1, <1>5, <1>6, <1>10 DEF T, r, t

LEMMA RunsNone == RunsOK(<<>>, {})
BY DEF RunsOK

LEMMA MovedSelf ==
  ASSUME NEW A, NEW s, Typed(A, s), NEW W, NEW D, NEW F, Placed(s, W, D, F)
  PROVE  Moved(A, s, s, W, D, F, W, D, {}, {})
<1>1. \A x \in Reqs : Fed(s.obj[x], s.obj[x]) /\ s.obj[x].prompt >= s.obj[x].prompt
  <2>1. \A x \in Reqs : ObjOK(A, s.obj[x])
    BY DEF Typed
  <2>2. \A x \in Reqs : Fed(s.obj[x], s.obj[x])
    BY <2>1, FedSelf
  <2>3. \A x \in Reqs : s.obj[x].prompt \in Nat
    BY <2>1 DEF ObjOK
  <2> QED BY <2>2, <2>3
<1>2. W \subseteq Reqs /\ D \subseteq Reqs /\ F \subseteq Reqs
  BY ListsIn DEF Placed
<1>3. s.preempted = s.preempted \cup {} /\ F \cup {} = F /\ W \cup D = (W \cup D) \ {}
  OBVIOUS
<1>4. Placed(s, W, D, F \cup {})
  BY <1>3
<1> QED BY <1>1, <1>2, <1>3, <1>4 DEF Moved

\* r is what schedule_once made of s: the batch that was built is in the pipe.
OnceBuilt(A, s, r, W, D, F) ==
  \E m, W2, D2, V, B, U :
    /\ Built(A, s, [sch |-> m, batch |-> r.batch], W, D, F, W2, D2, V, B, U)
    /\ r.batch = <<>> => r.sch = m
    /\ r.batch # <<>> => /\ r.sch = [m EXCEPT !.running = Append(m.running, RowsOf(r.batch))]
                        /\ Len(m.running) < PP

\* schedule_once, as a whole.
LEMMA ScheduleOnceOK ==
  ASSUME NEW A, NEW s, Typed(A, s), NEW W, NEW D, NEW F, Placed(s, W, D, F),
         RunsOK(s.running, F), Len(s.running) <= PP, NEW ratio \in Nat
  PROVE  OnceBuilt(A, s, ScheduleOnce(s, ratio), W, D, F)
<1> DEFINE r == ScheduleOnce(s, ratio)
           c == ChunkedPrefill(s, ratio)
<1>1. CASE Len(s.decode) + Len(s.prefill) = 0 \/ Len(s.running) >= PP
  <2>1. r = [sch |-> s, batch |-> <<>>]
    BY <1>1 DEF ScheduleOnce
  <2>2. Built(A, s, [sch |-> s, batch |-> <<>>], W, D, F, W, D, {}, {}, {})
    BY MovedSelf, EmptyBatch DEF Built
  <2> HIDE DEF r
  <2>3. r.sch = s /\ r.batch = <<>>
    BY <2>1
  <2>4. Built(A, s, [sch |-> s, batch |-> r.batch], W, D, F, W, D, {}, {}, {})
    BY <2>2, <2>3
  <2>5. OnceBuilt(A, s, r, W, D, F)
    BY <2>3, <2>4 DEF OnceBuilt
  <2> QED BY <2>5 DEF r
<1>2. CASE ~(Len(s.decode) + Len(s.prefill) = 0 \/ Len(s.running) >= PP)
  <2>1. PICK W2, D2, V, B, U : Built(A, s, c, W, D, F, W2, D2, V, B, U)
    BY ChunkedPrefillOK
  <2>2. r = Started(c)
    BY <1>2 DEF ScheduleOnce
  <2>10. DOMAIN c = {"sch", "batch"}
    <3>1. \A first, x : DOMAIN MixedBatch(first, x) = {"sch", "batch"}
      BY DEF MixedBatch, Prefills, PrefillBatch, Requeued
    <3>2. \A x, y : DOMAIN DecodeFor(x, y) = {"sch", "batch"}
      BY DEF DecodeFor, DecodeBatch, DecodeLeft, TakeDecodes, DecodesOf
    <3>3. \A x, y : DOMAIN x = {"sch", "batch"} => DOMAIN PrefillElse(x, y) = {"sch", "batch"}
      BY <3>2 DEF PrefillElse
    <3> QED BY <3>1, <3>3, Zenon DEF ChunkedPrefill
  <2> HIDE DEF r, c
  <2> DEFINE m == c.sch
  <2>3. DOMAIN m = SchFields /\ m.running = s.running /\ Len(s.running) \in Nat
    BY <2>1 DEF Built, Moved, Typed
  <2>4. r.batch = c.batch
    BY <2>2, <2>10 DEF Started
  <2>5. r.batch = <<>> => r.sch = m
    BY <2>2, <2>4 DEF Started
  <2>6. r.batch # <<>> => r.sch = [m EXCEPT !.running = Append(m.running, RowsOf(r.batch))]
    BY <2>2, <2>3, <2>4, <2>10 DEF Started, RowsOf
  <2>7. Built(A, s, [sch |-> m, batch |-> r.batch], W, D, F, W2, D2, V, B, U)
    BY <2>1, <2>4 DEF Built
  <2>8. Len(m.running) < PP
    <3>1. Len(s.running) \in Nat /\ PP \in Nat /\ ~(Len(s.running) >= PP)
      BY <1>2, <2>3, SchedulerAssumption
    <3>2. Len(s.running) < PP
      BY <3>1
    <3> QED BY <2>3, <3>2
  <2>9. OnceBuilt(A, s, r, W, D, F)
    BY <2>5, <2>6, <2>7, <2>8 DEF OnceBuilt
  <2> QED BY <2>9 DEF r
<1> QED BY <1>1, <1>2

-----------------------------------------------------------------------------
(* check_abort_seqs. *)

\* t is s after the requests of X were given up.
GivenUp(A, s, t, W, D, F, X) ==
  /\ Typed(A, t) /\ Placed(t, W \ X, D \ X, F)
  /\ t.obj = s.obj /\ t.running = s.running /\ t.preempted = s.preempted
  /\ t.abort = s.abort \ X
  /\ \A q : q \in Range(t.frees) <=> q \in Range(s.frees) \/ q \in X

LEMMA RangeAppend ==
  ASSUME NEW s \in Seq(Reqs), NEW x \in Reqs
  PROVE  Append(s, x) \in Seq(Reqs) /\ Range(Append(s, x)) = Range(s) \cup {x}
<1>1. /\ Append(s, x) \in Seq(Reqs) /\ Len(Append(s, x)) = Len(s) + 1 /\ Len(s) \in Nat
      /\ \A i \in 1 .. Len(s) : Append(s, x)[i] = s[i]
      /\ Append(s, x)[Len(s) + 1] = x
      /\ DOMAIN s = 1 .. Len(s)
      /\ DOMAIN Append(s, x) = 1 .. Len(s) + 1
  OBVIOUS
<1>2. \A i \in 1 .. Len(s) + 1 : i \in 1 .. Len(s) \/ i = Len(s) + 1
  BY <1>1
<1>3. \A i \in 1 .. Len(s) : i \in 1 .. Len(s) + 1
  BY <1>1
<1>4. Len(s) + 1 \in 1 .. Len(s) + 1
  BY <1>1
<1> DEFINE t == Append(s, x)
<1> HIDE DEF t
<1>5. /\ t \in Seq(Reqs) /\ DOMAIN t = 1 .. Len(s) + 1
      /\ \A i \in 1 .. Len(s) : t[i] = s[i] /\ t[Len(s) + 1] = x
      /\ t[Len(s) + 1] = x
  BY <1>1 DEF t
<1>6. Range(t) = Range(s) \cup {x}
  BY <1>1, <1>2, <1>3, <1>4, <1>5 DEF Range
<1> QED BY <1>5, <1>6 DEF t

LEMMA ListsRange ==
  ASSUME NEW s, NEW S, Lists(s, S)
  PROVE  Range(s) = S
<1>1. DOMAIN s = 1 .. Len(s)
  BY DEF Lists
<1> QED BY <1>1 DEF Lists, Range

\* One request is given up.
LEMMA AbortOneOK ==
  ASSUME NEW A, NEW s, Typed(A, s), NEW W, NEW D, NEW F, Placed(s, W, D, F),
         NEW q \in (W \cup D)
  PROVE  GivenUp(A, s, AbortOne(s, q), W, D, F, {q})
<1> DEFINE g == GiveBack(s, q)
           t == AbortOne(s, q)
<1>1. q \in Reqs
  BY ListsIn DEF Placed
<1>2. Typed(A, g) /\ Around(s, g) /\ g.obj = s.obj
  BY <1>1, GiveBackOK
<1>3. t = [g EXCEPT !.prefill = Without(@, q), !.decode = Without(@, q),
                    !.abort = @ \ {q}, !.frees = Append(@, q)]
  BY DEF AbortOne
<1> HIDE DEF g, t
<1>4. /\ DOMAIN t = SchFields /\ t.obj = s.obj /\ t.pool = g.pool
      /\ t.prefill = Without(s.prefill, q) /\ t.decode = Without(s.decode, q)
      /\ t.running = s.running /\ t.jitter = s.jitter /\ t.preempted = s.preempted
      /\ t.abort = s.abort \ {q} /\ t.frees = Append(s.frees, q)
  BY <1>2, <1>3 DEF Typed, SchFields, Around
<1>5. t.frees \in Seq(Reqs) /\ Range(t.frees) = Range(s.frees) \cup {q}
  BY <1>1, <1>4, RangeAppend DEF Typed
<1>6. Typed(A, t)
  BY <1>2, <1>4, <1>5 DEF Typed, Around
<1>7. Lists(t.prefill, W \ {q}) /\ Lists(t.decode, D \ {q})
  BY <1>4, ListsWithout DEF Placed
<1>8. Placed(t, W \ {q}, D \ {q}, F)
  <2>1. \A x \in W \ {q} : Waits(t.obj[x])
    BY <1>4 DEF Placed
  <2>2. \A x \in D \ {q} : Decodes(t.obj[x])
    BY <1>4 DEF Placed
  <2>3. \A x \in F : Flies(t.obj[x])
    BY <1>4 DEF Placed
  <2> QED BY <1>7, <2>1, <2>2, <2>3 DEF Placed
<1> QED BY <1>4, <1>5, <1>6, <1>8 DEF GivenUp, t

\* check_abort_seqs, as a whole.
LEMMA CheckAbortOK ==
  ASSUME NEW A, NEW s, Typed(A, s), NEW W, NEW D, NEW F, Placed(s, W, D, F)
  PROVE  /\ Aborted(s) = (W \cup D) \cap s.abort
         /\ GivenUp(A, s, CheckAbort(s), W, D, F, Aborted(s))
<1> DEFINE queue == s.prefill \o s.decode
           N == Len(queue)
<1>1. Aborted(s) = (W \cup D) \cap s.abort
  BY ListsRange DEF Aborted, Placed
<1>2. Lists(queue, W \cup D)
  BY ListsConcat DEF Placed
<1> HIDE DEF queue
<1>3. /\ N \in Nat /\ Injective(queue)
      /\ \A i \in 1 .. N : queue[i] \in W \cup D
      /\ \A q \in W \cup D : \E i \in 1 .. N : queue[i] = q
  BY <1>2 DEF Lists
<1>4. PICK f : /\ f[0] = s
               /\ \A n \in 1 .. N : f[n] = AbortNext(f[n - 1], queue[n])
               /\ AbortEach(s, queue) = f[N]
  BY <1>3, AbortEachLoop
<1> DEFINE X(n) == {queue[i] : i \in 1 .. n} \cap s.abort
           OK(n) == GivenUp(A, s, f[n], W, D, F, X(n))
           G == {n \in 0 .. N : OK(n)}
<1> HIDE DEF N
<1>5. OK(0)
  <2>1. X(0) = {}
    OBVIOUS
  <2>2. GivenUp(A, s, s, W, D, F, {})
    <3>1. W \ {} = W /\ D \ {} = D /\ s.abort = s.abort \ {}
      OBVIOUS
    <3>2. Placed(s, W \ {}, D \ {}, F)
      BY <3>1
    <3> QED BY <3>1, <3>2 DEF GivenUp
  <2> HIDE DEF X
  <2> QED BY <1>4, <2>1, <2>2
<1>6. ASSUME NEW n \in 1 .. N, OK(n - 1) PROVE OK(n)
  <2> DEFINE u == f[n - 1]
             q == queue[n]
             Y == X(n - 1)
  <2>1. GivenUp(A, s, u, W, D, F, Y)
    BY <1>6
  <2>2. /\ f[n] = AbortNext(u, q) /\ q \in W \cup D /\ q \notin {queue[i] : i \in 1 .. n - 1}
        /\ {queue[i] : i \in 1 .. n} = {queue[i] : i \in 1 .. n - 1} \cup {q}
    <3>1. f[n] = AbortNext(u, q)
      BY <1>4
    <3>2. q \in W \cup D
      BY <1>3
    <3>3. \A i \in 1 .. n - 1 : i \in 1 .. N /\ i # n /\ i \in 1 .. n
      BY <1>3
    <3>4. q \notin {queue[i] : i \in 1 .. n - 1}
      BY <1>3, <3>3 DEF Injective, N
    <3>5. \A i \in 1 .. n : i \in 1 .. n - 1 \/ i = n
      BY <1>3
    <3>6. n \in 1 .. n
      BY <1>3
    <3> QED BY <3>1, <3>2, <3>3, <3>4, <3>5, <3>6
  <2>3. X(n) = IF q \in s.abort THEN Y \cup {q} ELSE Y
    BY <2>2
  <2>4. q \notin Y
    BY <2>2
  <2> HIDE DEF Y, X, u, q
  <2>5. Typed(A, u) /\ Placed(u, W \ Y, D \ Y, F) /\ u.abort = s.abort \ Y
    BY <2>1 DEF GivenUp
  <2>6. CASE q \notin s.abort
    <3>1. f[n] = u
      BY <2>2, <2>5, <2>6 DEF AbortNext
    <3> QED BY <2>1, <2>3, <2>6, <3>1
  <2>7. CASE q \in s.abort
    <3> DEFINE t == AbortOne(u, q)
    <3>1. f[n] = t
      BY <2>2, <2>4, <2>5, <2>7 DEF AbortNext
    <3>2. q \in (W \ Y) \cup (D \ Y)
      BY <2>2, <2>4
    <3>3. GivenUp(A, u, t, W \ Y, D \ Y, F, {q})
      BY <2>5, <3>2, AbortOneOK
    <3> HIDE DEF t
    <3>4. (W \ Y) \ {q} = W \ (Y \cup {q}) /\ (D \ Y) \ {q} = D \ (Y \cup {q})
      OBVIOUS
    <3>5. Typed(A, t) /\ Placed(t, W \ (Y \cup {q}), D \ (Y \cup {q}), F)
      BY <3>3, <3>4 DEF GivenUp
    <3>6. \A x : x \in Range(t.frees) <=> x \in Range(s.frees) \/ x \in Y \cup {q}
      BY <2>1, <3>3 DEF GivenUp
    <3>7. t.obj = s.obj /\ t.running = s.running /\ t.preempted = s.preempted
      BY <2>1, <3>3 DEF GivenUp
    <3>8. t.abort = s.abort \ (Y \cup {q})
      BY <2>1, <3>3 DEF GivenUp
    <3>9. GivenUp(A, s, t, W, D, F, Y \cup {q})
      BY <3>5, <3>6, <3>7, <3>8 DEF GivenUp
    <3> QED BY <2>3, <2>7, <3>1, <3>9
  <2> QED BY <2>6, <2>7
<1>7. {queue[i] : i \in 1 .. N} = W \cup D
  BY <1>3 DEF N
<1>8. X(N) = Aborted(s)
  BY <1>1, <1>7
<1> HIDE DEF OK
<1>9. 0 \in G
  BY <1>3, <1>5 DEF N
<1>10. ASSUME NEW n \in 1 .. N, n - 1 \in G PROVE n \in G
  BY <1>3, <1>6, <1>10 DEF N
<1> HIDE DEF G
<1>11. \A n \in 0 .. N : n \in G
  BY <1>3, <1>9, <1>10, Induct, Zenon DEF N
<1>12. OK(N)
  BY <1>3, <1>11 DEF G, N
<1>13. CheckAbort(s) = f[N]
  BY <1>4 DEF CheckAbort, queue, N
<1> HIDE DEF X
<1>14. GivenUp(A, s, CheckAbort(s), W, D, F, Aborted(s))
  BY <1>8, <1>12, <1>13 DEF OK
<1> QED BY <1>1, <1>14

-----------------------------------------------------------------------------
(* The accounts of the pool. *)

Listed(s, p) == \E i \in 1 .. Len(s) : s[i] = p

\* What the pool says of its pages: those without a holder are free, once each, and
\* the cache finds a page under its own hash only.
PoolExact(pool) ==
  /\ pool.ref \in [Pages -> Nat]
  /\ Injective(pool.free)
  /\ \A p \in Pages : Listed(pool.free, p) <=> pool.ref[p] = 0
  /\ NoHash \notin DOMAIN pool.h2p
  /\ \A h \in DOMAIN pool.h2p : pool.p2h[pool.h2p[h]] = h

\* The hashes of r are those of pool.
SameHashes(pool, r) == r.p2h = pool.p2h /\ r.h2p = pool.h2p

\* OrderedDict.pop.
LEMMA WithoutOnce ==
  ASSUME NEW S, NEW s \in Seq(S), Injective(s), NEW x
  PROVE  /\ Without(s, x) \in Seq(S) /\ Injective(Without(s, x))
         /\ \A q : Listed(Without(s, x), q) <=> q # x /\ Listed(s, q)
<1>1. CASE ~\E i \in 1 .. Len(s) : s[i] = x
  BY <1>1 DEF Without, Listed
<1>2. CASE \E i \in 1 .. Len(s) : s[i] = x
  <2> DEFINE k == CHOOSE i \in 1 .. Len(s) : s[i] = x
             w == [i \in 1 .. Len(s) - 1 |-> IF i < k THEN s[i] ELSE s[i + 1]]
             pos(n) == IF n < k THEN n ELSE n + 1
  <2>1. k \in 1 .. Len(s) /\ s[k] = x
    BY <1>2
  <2>2. Without(s, x) = w
    BY <1>2 DEF Without
  <2> HIDE DEF k
  <2>3. w \in Seq(S) /\ Len(w) = Len(s) - 1
    BY <2>1
  <2>4. Injective(w)
    <3> SUFFICES ASSUME NEW i \in 1 .. Len(s) - 1, NEW j \in 1 .. Len(s) - 1, w[i] = w[j]
                 PROVE  i = j
      BY <2>3 DEF Injective
    <3>1. pos(i) \in 1 .. Len(s) /\ pos(j) \in 1 .. Len(s) /\ s[pos(i)] = s[pos(j)]
      BY <2>1
    <3>2. pos(i) = pos(j)
      BY <3>1 DEF Injective
    <3> QED
      BY <3>2, <2>1
  <2>5. ASSUME NEW q
        PROVE  (\E i \in 1 .. Len(w) : w[i] = q) <=> q # x /\ \E i \in 1 .. Len(s) : s[i] = q
    <3>1. ASSUME NEW i \in 1 .. Len(w), w[i] = q
          PROVE  q # x /\ \E j \in 1 .. Len(s) : s[j] = q
      <4>1. pos(i) \in 1 .. Len(s) /\ s[pos(i)] = q /\ pos(i) # k
        BY <2>1, <2>3, <3>1
      <4> QED BY <4>1, <2>1 DEF Injective
    <3>2. ASSUME q # x, NEW j \in 1 .. Len(s), s[j] = q
          PROVE  \E i \in 1 .. Len(w) : w[i] = q
      <4> DEFINE i == IF j < k THEN j ELSE j - 1
      <4>1. i \in 1 .. Len(w) /\ w[i] = q
        BY <2>1, <2>3, <3>2
      <4> QED BY <4>1
    <3> QED BY <3>1, <3>2
  <2> QED BY <2>2, <2>3, <2>4, <2>5 DEF Listed
<1> QED BY <1>1, <1>2

\* The element that is added is listed, and those before it.
LEMMA AppendOnce ==
  ASSUME NEW S, NEW s \in Seq(S), Injective(s), NEW x \in S, ~Listed(s, x)
  PROVE  /\ Injective(Append(s, x))
         /\ \A q : Listed(Append(s, x), q) <=> q = x \/ Listed(s, q)
<1>1. /\ Append(s, x) \in Seq(S) /\ Len(Append(s, x)) = Len(s) + 1 /\ Len(s) \in Nat
      /\ Append(s, x)[Len(s) + 1] = x
      /\ \A i \in 1 .. Len(s) : Append(s, x)[i] = s[i]
  OBVIOUS
<1> DEFINE t == Append(s, x)
<1> HIDE DEF t
<1>2. Injective(t)
  BY <1>1 DEF Injective, t, Listed
<1>3. ASSUME NEW q PROVE Listed(t, q) <=> q = x \/ Listed(s, q)
  <2>1. Len(s) + 1 \in 1 .. Len(t) /\ 1 .. Len(s) \subseteq 1 .. Len(t)
    BY <1>1 DEF t
  <2>2. \A i \in 1 .. Len(t) : i = Len(s) + 1 \/ i \in 1 .. Len(s)
    BY <1>1 DEF t
  <2> QED BY <2>1, <2>2, <1>1 DEF Listed, t
<1> QED BY <1>2, <1>3 DEF t

\* The first element is no longer listed.
LEMMA TailOnce ==
  ASSUME NEW S, NEW s \in Seq(S), Injective(s), s # <<>>
  PROVE  /\ Injective(Tail(s)) /\ Listed(s, Head(s))
         /\ \A q : Listed(Tail(s), q) <=> q # Head(s) /\ Listed(s, q)
<1>1. /\ Tail(s) \in Seq(S) /\ Len(Tail(s)) = Len(s) - 1 /\ Len(s) \in Nat \ {0}
      /\ Head(s) = s[1]
      /\ \A i \in 1 .. Len(s) - 1 : Tail(s)[i] = s[i + 1]
  OBVIOUS
<1> DEFINE t == Tail(s)
<1> HIDE DEF t
<1>2. Injective(t)
  BY <1>1 DEF Injective, t
<1>3. ASSUME NEW q, Listed(t, q) PROVE q # Head(s) /\ Listed(s, q)
  <2>1. PICK i \in 1 .. Len(t) : t[i] = q
    BY <1>3 DEF Listed
  <2>2. i + 1 \in 1 .. Len(s) /\ s[i + 1] = q /\ i + 1 # 1
    BY <2>1, <1>1 DEF t
  <2>3. 1 \in 1 .. Len(s)
    BY <1>1
  <2> QED BY <2>2, <2>3, <1>1 DEF Listed, Injective
<1>4. ASSUME NEW q, q # Head(s), Listed(s, q) PROVE Listed(t, q)
  <2>1. PICK i \in 1 .. Len(s) : s[i] = q
    BY <1>4 DEF Listed
  <2>2. i - 1 \in 1 .. Len(t) /\ t[i - 1] = q
    BY <2>1, <1>1, <1>4 DEF t
  <2> QED BY <2>2 DEF Listed
<1> QED BY <1>1, <1>2, <1>3, <1>4 DEF t, Listed

\* has_computed on a hit: one holder more.
LEMMA ShareExact ==
  ASSUME NEW pool, PoolOK(pool), PoolExact(pool), NEW p \in Pages
  PROVE  LET r == Share(pool, p)
         IN  /\ PoolExact(r) /\ SameHashes(pool, r)
             /\ \A x \in Pages : r.ref[x] = IF x = p THEN pool.ref[x] + 1 ELSE pool.ref[x]
<1> DEFINE r == Share(pool, p)
<1>1. /\ r.free = Without(pool.free, p) /\ r.ref = [pool.ref EXCEPT ![p] = @ + 1]
      /\ r.p2h = pool.p2h /\ r.h2p = pool.h2p
  BY DEF Share, PoolOK
<1>2. /\ Injective(r.free)
      /\ \A q : Listed(r.free, q) <=> q # p /\ Listed(pool.free, q)
  BY <1>1, WithoutOnce DEF PoolOK, PoolExact
<1> HIDE DEF r
<1>3. /\ r.ref \in [Pages -> Nat]
      /\ \A x \in Pages : r.ref[x] = IF x = p THEN pool.ref[x] + 1 ELSE pool.ref[x]
  BY <1>1 DEF PoolExact
<1>4. \A x \in Pages : Listed(r.free, x) <=> r.ref[x] = 0
  BY <1>2, <1>3 DEF PoolExact
<1> QED BY <1>1, <1>2, <1>3, <1>4 DEF r, PoolExact, SameHashes

\* free: one holder less.
LEMMA DropExact ==
  ASSUME NEW pool, PoolOK(pool), PoolExact(pool), NEW p \in Pages, pool.ref[p] # 0
  PROVE  LET r == Drop(pool, p)
         IN  /\ PoolExact(r) /\ SameHashes(pool, r)
             /\ \A x \in Pages : r.ref[x] = IF x = p THEN pool.ref[x] - 1 ELSE pool.ref[x]
<1> DEFINE r == Drop(pool, p)
<1>1. /\ r.free = IF pool.ref[p] = 1 THEN Append(pool.free, p) ELSE pool.free
      /\ r.ref = [pool.ref EXCEPT ![p] = @ - 1]
      /\ r.p2h = pool.p2h /\ r.h2p = pool.h2p
  BY DEF Drop, PoolOK
<1>0. ~Listed(pool.free, p) /\ pool.free \in Seq(Pages) /\ Injective(pool.free)
  BY DEF PoolExact, PoolOK
<1>2. /\ Injective(Append(pool.free, p))
      /\ \A q : Listed(Append(pool.free, p), q) <=> q = p \/ Listed(pool.free, q)
  BY <1>0, AppendOnce
<1> HIDE DEF r
<1>3. /\ r.ref \in [Pages -> Nat]
      /\ \A x \in Pages : r.ref[x] = IF x = p THEN pool.ref[x] - 1 ELSE pool.ref[x]
  BY <1>1 DEF PoolExact
<1>4. \A x \in Pages : Listed(r.free, x) <=> r.ref[x] = 0
  <2>1. CASE pool.ref[p] = 1
    BY <2>1, <1>1, <1>2, <1>3 DEF PoolExact
  <2>2. CASE pool.ref[p] # 1
    BY <2>2, <1>0, <1>1, <1>3 DEF PoolExact
  <2> QED BY <2>1, <2>2
<1>5. Injective(r.free)
  BY <1>0, <1>1, <1>2
<1> QED BY <1>1, <1>5, <1>3, <1>4 DEF r, PoolExact, SameHashes

\* allocate: the first free page has a holder, and the hash that it is given.
LEMMA MintExact ==
  ASSUME NEW pool, PoolOK(pool), PoolExact(pool), NEW h, pool.free # <<>>
  PROVE  LET r == Mint(pool, h)
             p == Head(pool.free)
         IN  /\ PoolExact(r) /\ p \in Pages /\ pool.ref[p] = 0
             /\ \A x \in Pages : /\ r.ref[x] = IF x = p THEN 1 ELSE pool.ref[x]
                                 /\ r.p2h[x] = IF x = p THEN h ELSE pool.p2h[x]
<1> DEFINE p == Head(pool.free)
           u == Unbind(pool.h2p, pool.p2h[p])
           r == Mint(pool, h)
<1>1. p \in Pages
  BY DEF PoolOK
<1>2. /\ Injective(Tail(pool.free)) /\ Listed(pool.free, p)
      /\ \A q : Listed(Tail(pool.free), q) <=> q # p /\ Listed(pool.free, q)
  BY TailOnce DEF PoolOK, PoolExact
<1>3. pool.ref[p] = 0
  BY <1>1, <1>2 DEF PoolExact
<1>4. r = [free |-> Tail(pool.free), ref |-> [pool.ref EXCEPT ![p] = @ + 1],
           p2h |-> [pool.p2h EXCEPT ![p] = h],
           h2p |-> IF h = NoHash THEN u ELSE Bind(u, h, p)]
  BY DEF Mint
<1>5. /\ DOMAIN u = DOMAIN pool.h2p \ {pool.p2h[p]}
      /\ \A g \in DOMAIN u : u[g] = pool.h2p[g] /\ u[g] \in Pages /\ u[g] # p
  BY DEF Unbind, PoolOK, PoolExact
<1> HIDE DEF p, u, r
<1>6. /\ r.free = Tail(pool.free) /\ r.ref = [pool.ref EXCEPT ![p] = @ + 1]
      /\ r.p2h = [pool.p2h EXCEPT ![p] = h]
      /\ r.h2p = IF h = NoHash THEN u ELSE Bind(u, h, p)
  BY <1>4
<1>7. /\ r.ref \in [Pages -> Nat]
      /\ \A x \in Pages : r.ref[x] = IF x = p THEN 1 ELSE pool.ref[x]
  BY <1>1, <1>3, <1>6 DEF PoolExact
<1>8. DOMAIN pool.p2h = Pages
  BY DEF PoolOK
<1>9. \A x \in Pages : r.p2h[x] = IF x = p THEN h ELSE pool.p2h[x]
  BY <1>6, <1>8
<1>10. \A x \in Pages : Listed(r.free, x) <=> r.ref[x] = 0
  BY <1>2, <1>6, <1>7, <1>1 DEF PoolExact
<1>11. \A g \in DOMAIN u : r.p2h[u[g]] = g
  BY <1>5, <1>9 DEF PoolExact
<1>12. NoHash \notin DOMAIN u
  BY <1>5 DEF PoolExact
<1>13. NoHash \notin DOMAIN r.h2p /\ \A g \in DOMAIN r.h2p : r.p2h[r.h2p[g]] = g
  <2>1. CASE h = NoHash
    BY <2>1, <1>6, <1>11, <1>12
  <2>2. CASE h # NoHash
    <3>1. r.h2p = Bind(u, h, p)
      BY <2>2, <1>6
    <3>2. /\ DOMAIN Bind(u, h, p) = DOMAIN u \cup {h}
          /\ \A g \in DOMAIN u \cup {h} : Bind(u, h, p)[g] = IF g = h THEN p ELSE u[g]
      BY DEF Bind
    <3>3. r.p2h[p] = h
      BY <1>9, <1>1
    <3> QED BY <3>1, <3>2, <3>3, <2>2, <1>11, <1>12
  <2> QED BY <2>1, <2>2
<1>14. Injective(r.free)
  BY <1>6, <1>2
<1>15. PoolExact(r)
  BY <1>7, <1>10, <1>13, <1>14 DEF PoolExact
<1> QED BY <1>15, <1>1, <1>3, <1>7, <1>9 DEF p, r

\* update: a page that has no hash, or this one, may get it.
LEMMA RegisterExact ==
  ASSUME NEW pool, PoolOK(pool), PoolExact(pool), NEW p \in Pages, NEW h,
         h # NoHash, pool.p2h[p] \in {NoHash, h}
  PROVE  LET r == Register(pool, p, h)
         IN  /\ PoolExact(r) /\ r.ref = pool.ref
             /\ \A x \in Pages \ {p} : r.p2h[x] = pool.p2h[x]
             /\ r.p2h[p] \in {pool.p2h[p], h}
<1> DEFINE r == Register(pool, p, h)
<1>1. CASE h \in DOMAIN pool.h2p
  BY <1>1 DEF Register
<1>2. CASE h \notin DOMAIN pool.h2p
  <2>1. /\ r.ref = pool.ref /\ r.free = pool.free
        /\ r.p2h = [pool.p2h EXCEPT ![p] = h] /\ r.h2p = Bind(pool.h2p, h, p)
    BY <1>2 DEF Register, PoolOK
  <2> HIDE DEF r
  <2>2. DOMAIN pool.p2h = Pages
    BY DEF PoolOK
  <2>3. \A x \in Pages : r.p2h[x] = IF x = p THEN h ELSE pool.p2h[x]
    BY <2>1, <2>2
  <2>4. /\ DOMAIN r.h2p = DOMAIN pool.h2p \cup {h}
        /\ \A g \in DOMAIN pool.h2p \cup {h} : r.h2p[g] = IF g = h THEN p ELSE pool.h2p[g]
    BY <2>1 DEF Bind
  <2>5. \A g \in DOMAIN pool.h2p : pool.h2p[g] \in Pages /\ pool.h2p[g] # p
    BY <1>2 DEF PoolOK, PoolExact
  <2>6. \A g \in DOMAIN r.h2p : r.p2h[r.h2p[g]] = g
    BY <2>3, <2>4, <2>5 DEF PoolExact
  <2>7. NoHash \notin DOMAIN r.h2p
    BY <2>4 DEF PoolExact
  <2>8. PoolExact(r)
    BY <2>1, <2>6, <2>7 DEF PoolExact
  <2> QED BY <2>8, <2>1, <2>3 DEF r
<1> QED BY <1>1, <1>2

\* has_computed, page after page.
LEMMA SharesExact ==
  ASSUME NEW pool, PoolOK(pool), PoolExact(pool), NEW hit \in Seq(Pages), Injective(hit)
  PROVE  LET r == Shares(pool, hit)
         IN  /\ PoolOK(r) /\ PoolExact(r) /\ SameHashes(pool, r)
             /\ \A x \in Pages :
                  r.ref[x] = IF Listed(hit, x) THEN pool.ref[x] + 1 ELSE pool.ref[x]
<1>1. Len(hit) \in Nat /\ \A i \in 1 .. Len(hit) : hit[i] \in Pages
  OBVIOUS
<1>2. PICK f : /\ f[0] = pool
               /\ \A n \in 1 .. Len(hit) : f[n] = Share(f[n - 1], hit[n])
               /\ Shares(pool, hit) = f[Len(hit)]
  BY <1>1, SharesLoop
<1> DEFINE Up(r, n) == \A x \in Pages :
             r.ref[x] = IF \E i \in 1 .. n : hit[i] = x THEN pool.ref[x] + 1 ELSE pool.ref[x]
           G == {n \in 0 .. Len(hit) : /\ PoolOK(f[n]) /\ PoolExact(f[n])
                                       /\ SameHashes(pool, f[n]) /\ Up(f[n], n)}
<1>3. 0 \in G
  BY <1>1, <1>2 DEF SameHashes
<1>4. ASSUME NEW n \in 1 .. Len(hit), n - 1 \in G PROVE n \in G
  <2> DEFINE u == f[n - 1]
             p == hit[n]
  <2>1. PoolOK(u) /\ PoolExact(u) /\ SameHashes(pool, u) /\ Up(u, n - 1) /\ p \in Pages
    BY <1>1, <1>4
  <2>2. f[n] = Share(u, p)
    BY <1>2
  <2> HIDE DEF u, p
  <2>3. PoolOK(f[n])
    BY <2>1, <2>2, ShareOK
  <2>4. /\ PoolExact(f[n]) /\ SameHashes(u, f[n])
        /\ \A x \in Pages : f[n].ref[x] = IF x = p THEN u.ref[x] + 1 ELSE u.ref[x]
    BY <2>1, <2>2, ShareExact
  <2>5. SameHashes(pool, f[n])
    BY <2>1, <2>4 DEF SameHashes
  <2>6. ASSUME NEW x \in Pages
        PROVE  f[n].ref[x] = IF \E i \in 1 .. n : hit[i] = x THEN pool.ref[x] + 1
                             ELSE pool.ref[x]
    <3>1. CASE x = p
      <4>1. n \in 1 .. n /\ hit[n] = x
        BY <3>1 DEF p
      <4>2. ~\E i \in 1 .. n - 1 : hit[i] = x
        BY <4>1, <1>1 DEF Injective
      <4> QED BY <4>1, <4>2, <2>1, <2>4, <3>1
    <3>2. CASE x # p
      <4>1. (\E i \in 1 .. n : hit[i] = x) <=> \E i \in 1 .. n - 1 : hit[i] = x
        BY <3>2 DEF p
      <4> QED BY <4>1, <2>1, <2>4, <3>2
    <3> QED BY <3>1, <3>2
  <2> QED BY <2>3, <2>4, <2>5, <2>6
<1> HIDE DEF G
<1>5. \A n \in 0 .. Len(hit) : n \in G
  BY <1>1, <1>3, <1>4, Induct, Zenon
<1>6. Len(hit) \in G
  BY <1>1, <1>5
<1> QED BY <1>1, <1>2, <1>6 DEF G, Listed

\* free, page after page.
LEMMA DropsExact ==
  ASSUME NEW pool, PoolOK(pool), PoolExact(pool), NEW pages \in Seq(Pages), Injective(pages),
         \A i \in 1 .. Len(pages) : pool.ref[pages[i]] # 0
  PROVE  LET r == Drops(pool, pages)
         IN  /\ PoolExact(r) /\ SameHashes(pool, r)
             /\ \A x \in Pages :
                  r.ref[x] = IF Listed(pages, x) THEN pool.ref[x] - 1 ELSE pool.ref[x]
<1>1. Len(pages) \in Nat /\ \A i \in 1 .. Len(pages) : pages[i] \in Pages
  OBVIOUS
<1>2. PICK f : /\ f[0] = pool
               /\ \A n \in 1 .. Len(pages) : f[n] = Drop(f[n - 1], pages[n])
               /\ Drops(pool, pages) = f[Len(pages)]
  BY <1>1, DropsLoop
<1> DEFINE Down(r, n) == \A x \in Pages :
             r.ref[x] = IF \E i \in 1 .. n : pages[i] = x THEN pool.ref[x] - 1 ELSE pool.ref[x]
           G == {n \in 0 .. Len(pages) : /\ PoolOK(f[n]) /\ PoolExact(f[n])
                                         /\ SameHashes(pool, f[n]) /\ Down(f[n], n)}
<1>3. 0 \in G
  BY <1>1, <1>2 DEF SameHashes
<1>4. ASSUME NEW n \in 1 .. Len(pages), n - 1 \in G PROVE n \in G
  <2> DEFINE u == f[n - 1]
             p == pages[n]
  <2>1. PoolOK(u) /\ PoolExact(u) /\ SameHashes(pool, u) /\ Down(u, n - 1) /\ p \in Pages
    BY <1>1, <1>4
  <2>2. f[n] = Drop(u, p)
    BY <1>2
  <2>0. u.ref[p] # 0
    <3>1. ~\E i \in 1 .. n - 1 : pages[i] = p
      BY <1>1 DEF Injective, p
    <3> QED BY <3>1, <2>1 DEF p
  <2> HIDE DEF u, p
  <2>3. PoolOK(f[n])
    BY <2>1, <2>2, DropOK
  <2>4. /\ PoolExact(f[n]) /\ SameHashes(u, f[n])
        /\ \A x \in Pages : f[n].ref[x] = IF x = p THEN u.ref[x] - 1 ELSE u.ref[x]
    BY <2>0, <2>1, <2>2, DropExact
  <2>5. SameHashes(pool, f[n])
    BY <2>1, <2>4 DEF SameHashes
  <2>6. ASSUME NEW x \in Pages
        PROVE  f[n].ref[x] = IF \E i \in 1 .. n : pages[i] = x THEN pool.ref[x] - 1
                             ELSE pool.ref[x]
    <3>1. CASE x = p
      <4>1. n \in 1 .. n /\ pages[n] = x
        BY <3>1 DEF p
      <4>2. ~\E i \in 1 .. n - 1 : pages[i] = x
        BY <4>1, <1>1 DEF Injective
      <4> QED BY <4>1, <4>2, <2>1, <2>4, <3>1
    <3>2. CASE x # p
      <4>1. (\E i \in 1 .. n : pages[i] = x) <=> \E i \in 1 .. n - 1 : pages[i] = x
        BY <3>2 DEF p
      <4> QED BY <4>1, <2>1, <2>4, <3>2
    <3> QED BY <3>1, <3>2
  <2> QED BY <2>3, <2>4, <2>5, <2>6
<1> HIDE DEF G
<1>5. \A n \in 0 .. Len(pages) : n \in G
  BY <1>1, <1>3, <1>4, Induct, Zenon
<1>6. Len(pages) \in G
  BY <1>1, <1>5
<1> QED BY <1>1, <1>2, <1>6 DEF G, Listed

-----------------------------------------------------------------------------
(* Hashes. *)

\* What the hash of the first i pages of o stands for.
Own(o, i) == [j \in 1 .. i |-> PageTokens(o, j)]

\* The pages that _ensure_page_hash has hashed are complete, and hashed right.
ChainOK(o) == \E n \in Nat : PageSize * n <= Len(o.tok) /\ o.chain = Own(o, n)

\* The numbers that the provers need to know of pages.
LEMMA PageNat == PageSize \in Nat \ {0}
BY SchedulerAssumption

\* Products of naturals are naturals.
LEMMA ProductNat ==
  ASSUME NEW a \in Nat, NEW b \in Nat
  PROVE  a * b \in Nat
OBVIOUS

\* _ensure_page_hash.
LEMMA HashIsOwn ==
  ASSUME NEW o, ChainOK(o), NEW k \in Nat
  PROVE  /\ HashOf(o, k) = Own(o, k)
         /\ \E n \in Nat : /\ n = k \/ (n > k /\ PageSize * n <= Len(o.tok))
                           /\ Hashed(o, k) = Own(o, n)
<1>1. PICK m \in Nat : PageSize * m <= Len(o.tok) /\ o.chain = Own(o, m)
  BY DEF ChainOK
<1>2. /\ Len(o.chain) = m /\ \A j \in 1 .. m : o.chain[j] = PageTokens(o, j)
      /\ o.chain \in Seq({PageTokens(o, j) : j \in 1 .. m})
  BY <1>1 DEF Own
<1> DEFINE d == MaxOf(0, k - m)
           S == {PageTokens(o, j) : j \in Nat}
           rest == [i \in 1 .. d |-> PageTokens(o, m + i)]
<1>3. d \in Nat /\ d >= k - m /\ d \in {0, k - m}
  BY DEF MaxOf
<1> HIDE DEF d
<1>4. rest \in Seq(S) /\ Len(rest) = d /\ \A i \in 1 .. d : rest[i] = PageTokens(o, m + i)
  BY <1>3
<1>5. o.chain \in Seq(S) /\ Len(o.chain) = m
  BY <1>1 DEF Own
<1>6. Hashed(o, k) = o.chain \o rest
  BY <1>2 DEF Hashed, d
<1> HIDE DEF rest, S
<1>7. /\ Len(o.chain \o rest) = m + d /\ o.chain \o rest \in Seq(S)
      /\ \A j \in 1 .. m + d : (o.chain \o rest)[j] = PageTokens(o, j)
  <2>1. /\ Len(o.chain \o rest) = m + d /\ o.chain \o rest \in Seq(S)
        /\ \A j \in 1 .. m + d :
             (o.chain \o rest)[j] = IF j <= m THEN o.chain[j] ELSE rest[j - m]
    BY <1>3, <1>4, <1>5
  <2>2. ASSUME NEW j \in 1 .. m + d, j > m PROVE rest[j - m] = PageTokens(o, j)
    <3>1. j - m \in 1 .. d /\ m + (j - m) = j
      BY <1>3, <2>2
    <3> QED BY <3>1, <1>4
  <2>3. ASSUME NEW j \in 1 .. m + d PROVE (o.chain \o rest)[j] = PageTokens(o, j)
    <3>1. CASE j <= m
      BY <3>1, <2>1, <1>2
    <3>2. CASE ~(j <= m)
      <4>1. j > m /\ (o.chain \o rest)[j] = rest[j - m]
        BY <3>2, <2>1, <1>3
      <4> QED BY <4>1, <2>2
    <3> QED BY <3>1, <3>2
  <2> QED BY <2>1, <2>3
<1>8. Hashed(o, k) = Own(o, m + d)
  <2> DEFINE t == o.chain \o rest
  <2>1. Len(t) = m + d /\ t \in Seq(S) /\ \A j \in 1 .. m + d : t[j] = PageTokens(o, j)
    BY <1>7
  <2> HIDE DEF t
  <2>2. t = [j \in 1 .. m + d |-> t[j]]
    BY <2>1
  <2>3. t = Own(o, m + d)
    BY <2>1, <2>2 DEF Own
  <2> QED BY <2>3, <1>6 DEF t
<1>9. m + d \in Nat /\ k <= m + d /\ (m + d = k \/ (m + d > k /\ PageSize * (m + d) <= Len(o.tok)))
  <2>1. (m + d = k) \/ (d = 0 /\ m + d = m)
    BY <1>3
  <2> QED BY <2>1, <1>1, <1>3
<1>10. SubSeq(Own(o, m + d), 1, k) = Own(o, k)
  <2> DEFINE n == m + d
  <2>0. n \in Nat /\ k <= n
    BY <1>9
  <2> HIDE DEF n
  <2>1. /\ Own(o, n) \in Seq(S) /\ Len(Own(o, n)) = n
        /\ \A j \in 1 .. n : Own(o, n)[j] = PageTokens(o, j)
    BY <2>0 DEF Own, S
  <2>2. /\ Len(SubSeq(Own(o, n), 1, k)) = k /\ SubSeq(Own(o, n), 1, k) \in Seq(S)
        /\ \A j \in 1 .. k : SubSeq(Own(o, n), 1, k)[j] = Own(o, n)[j]
    BY <2>0, <2>1
  <2>3. /\ Own(o, k) \in Seq(S) /\ Len(Own(o, k)) = k
        /\ \A j \in 1 .. k : Own(o, k)[j] = PageTokens(o, j)
    BY DEF Own, S
  <2>4. SubSeq(Own(o, n), 1, k) = Own(o, k)
    BY <2>0, <2>1, <2>2, <2>3
  <2> QED BY <2>4 DEF n
<1>11. HashOf(o, k) = Own(o, k)
  BY <1>8, <1>10 DEF HashOf
<1> QED BY <1>8, <1>9, <1>11

\* A hash of complete pages is not the hash of none.
LEMMA OwnIsHash ==
  ASSUME NEW A, NEW o, ObjOK(A, o), NEW i \in Nat, PageSize * i <= Len(o.tok),
         NoHash \notin Seq(Seq(A))
  PROVE  Own(o, i) # NoHash
<1>1. ASSUME NEW j \in 1 .. i PROVE PageTokens(o, j) \in Seq(A)
  <2> DEFINE a == (j - 1) * PageSize + 1
             b == j * PageSize
  <2>1. a \in Nat \ {0} /\ b \in Nat /\ b <= Len(o.tok) /\ Len(o.tok) \in Nat
    <3>1. (j - 1) * PageSize \in Nat /\ b \in Nat
      BY PageNat, ProductNat
    <3>2. b <= PageSize * i
      BY PageNat
    <3>3. Len(o.tok) \in Nat /\ PageSize * i \in Nat
      BY PageNat DEF ObjOK
    <3> QED BY <3>1, <3>2, <3>3
  <2>2. o.tok \in Seq(A)
    BY DEF ObjOK
  <2> HIDE DEF a, b
  <2>3. SubSeq(o.tok, a, b) \in Seq(A)
    BY <2>1, <2>2
  <2> QED BY <2>3 DEF PageTokens, a, b
<1>2. Own(o, i) \in Seq(Seq(A))
  BY <1>1 DEF Own
<1> QED BY <1>2

\* Complete pages stay what they are when tokens come after them.
LEMMA OwnGrows ==
  ASSUME NEW A, NEW o, ObjOK(A, o), NEW p, ObjOK(A, p), Extends(o.tok, p.tok),
         NEW i \in Nat, PageSize * i <= Len(o.tok)
  PROVE  Own(p, i) = Own(o, i) /\ PageSize * i <= Len(p.tok)
<1>1. Len(o.tok) \in Nat /\ Len(p.tok) \in Nat /\ o.tok \in Seq(A) /\ p.tok \in Seq(A)
  BY DEF ObjOK
<1>2. ASSUME NEW j \in 1 .. i PROVE PageTokens(p, j) = PageTokens(o, j)
  <2> DEFINE a == (j - 1) * PageSize + 1
             b == j * PageSize
  <2>1. a \in Nat \ {0} /\ b \in Nat /\ b <= Len(o.tok)
    <3>1. (j - 1) * PageSize \in Nat /\ b \in Nat
      BY PageNat, ProductNat
    <3>2. b <= PageSize * i
      BY PageNat
    <3>3. PageSize * i \in Nat
      BY PageNat
    <3> QED BY <3>1, <3>2, <3>3, <1>1
  <2> HIDE DEF a, b
  <2>2. \A x \in a .. b : p.tok[x] = o.tok[x]
    BY <2>1, <1>1 DEF Extends
  <2>3. SubSeq(p.tok, a, b) = SubSeq(o.tok, a, b)
    <3>1. b <= Len(p.tok)
      BY <2>1, <1>1 DEF Extends
    <3>2. /\ SubSeq(p.tok, a, b) = [x \in 1 .. (b - a + 1) |-> p.tok[a + x - 1]]
          /\ SubSeq(o.tok, a, b) = [x \in 1 .. (b - a + 1) |-> o.tok[a + x - 1]]
      BY <3>1, <2>1, <1>1
    <3>3. \A x \in 1 .. (b - a + 1) : p.tok[a + x - 1] = o.tok[a + x - 1]
      BY <2>1, <2>2
    <3> QED BY <3>2, <3>3
  <2> QED BY <2>3 DEF PageTokens, a, b
<1>3. Own(p, i) = Own(o, i)
  BY <1>2 DEF Own
<1>4. PageSize * i \in Nat
  BY PageNat
<1> QED BY <1>1, <1>3, <1>4 DEF Extends

\* The pages that are hashed stay hashed right when tokens come after them.
LEMMA ChainGrows ==
  ASSUME NEW A, NEW o, ObjOK(A, o), NEW p, ObjOK(A, p), Extends(o.tok, p.tok), ChainOK(o),
         p.chain = o.chain
  PROVE  ChainOK(p)
<1>1. PICK n \in Nat : PageSize * n <= Len(o.tok) /\ o.chain = Own(o, n)
  BY DEF ChainOK
<1>2. Own(p, n) = Own(o, n) /\ PageSize * n <= Len(p.tok)
  BY <1>1, OwnGrows
<1> QED BY <1>1, <1>2 DEF ChainOK

\* Nothing is hashed yet.
LEMMA ChainNone ==
  ASSUME NEW A, NEW o, ObjOK(A, o), o.chain = <<>>
  PROVE  ChainOK(o)
<1>1. Own(o, 0) = <<>>
  BY DEF Own
<1>2. PageSize * 0 = 0 /\ 0 <= Len(o.tok)
  BY PageNat DEF ObjOK
<1> QED BY <1>1, <1>2 DEF ChainOK

-----------------------------------------------------------------------------
(* The accounts of the requests of L, whose pages are held. *)

Holders(s, L, p) == {q \in L : Listed(s.obj[q].table, p)}

\* A page that o has and that has a hash is cached under o's own prefix.
HashesOK(pool, o) ==
  \A i \in 1 .. Len(o.table) : pool.p2h[o.table[i]] # NoHash =>
    PageSize * i <= Len(o.tok) /\ pool.p2h[o.table[i]] = Own(o, i)

\* Counts are holders; no request has a page twice; and two have one page only if
\* it has a hash.
Book(s, L) ==
  /\ PoolExact(s.pool)
  /\ \A p \in Pages : s.pool.ref[p] = Cardinality(Holders(s, L, p))
  /\ \A q \in L : /\ ChainOK(s.obj[q]) /\ Injective(s.obj[q].table)
                  /\ HashesOK(s.pool, s.obj[q])
  /\ \A q, r \in L : \A p \in Pages :
       Listed(s.obj[q].table, p) /\ Listed(s.obj[r].table, p) /\ q # r => s.pool.p2h[p] # NoHash

\* A page has finitely many holders.
LEMMA HoldersFinite ==
  ASSUME NEW s, NEW L \in SUBSET Reqs, NEW p
  PROVE  /\ IsFiniteSet(Holders(s, L, p)) /\ Cardinality(Holders(s, L, p)) \in Nat
         /\ Cardinality(Holders(s, L, p)) = 0 <=> Holders(s, L, p) = {}
<1>1. IsFiniteSet(Reqs)
  BY SchedulerAssumption
<1>2. IsFiniteSet(Holders(s, L, p))
  BY <1>1, FS_Subset DEF Holders
<1> QED BY <1>2, FS_CardinalityType, FS_EmptySet

\* Nothing that matters for the accounts has changed.
LEMMA BookSame ==
  ASSUME NEW A, NEW s, Typed(A, s), NEW t, Typed(A, t), NEW L \in SUBSET Reqs, Book(s, L),
         t.pool = s.pool,
         \A q \in L : /\ t.obj[q].table = s.obj[q].table
                      /\ Extends(s.obj[q].tok, t.obj[q].tok)
                      /\ t.obj[q].chain = s.obj[q].chain \/ ChainOK(t.obj[q])
  PROVE  Book(t, L)
<1>1. ASSUME NEW p PROVE Holders(t, L, p) = Holders(s, L, p)
  BY DEF Holders
<1>2. ASSUME NEW q \in L
      PROVE  /\ ChainOK(t.obj[q]) /\ Injective(t.obj[q].table)
             /\ HashesOK(t.pool, t.obj[q])
  <2> DEFINE o == s.obj[q]
             u == t.obj[q]
  <2>1. ObjOK(A, o) /\ ObjOK(A, u)
    BY DEF Typed
  <2>2. ChainOK(o) /\ Injective(o.table) /\ HashesOK(s.pool, o)
    BY DEF Book
  <2>3. u.table = o.table /\ Extends(o.tok, u.tok) /\ (u.chain = o.chain \/ ChainOK(u))
    OBVIOUS
  <2> HIDE DEF o, u
  <2>4. ChainOK(u)
    BY <2>1, <2>2, <2>3, ChainGrows
  <2>5. HashesOK(s.pool, u)
    <3> SUFFICES ASSUME NEW i \in 1 .. Len(u.table), s.pool.p2h[u.table[i]] # NoHash
                 PROVE  PageSize * i <= Len(u.tok) /\ s.pool.p2h[u.table[i]] = Own(u, i)
      BY DEF HashesOK
    <3>1. PageSize * i <= Len(o.tok) /\ s.pool.p2h[u.table[i]] = Own(o, i)
      BY <2>2, <2>3 DEF HashesOK
    <3> QED BY <3>1, <2>1, <2>3, OwnGrows
  <2> QED BY <2>2, <2>3, <2>4, <2>5 DEF o, u
<1>3. \A q, r \in L : \A p \in Pages :
        Listed(t.obj[q].table, p) /\ Listed(t.obj[r].table, p) /\ q # r => t.pool.p2h[p] # NoHash
  BY DEF Book
<1>4. \A p \in Pages : t.pool.ref[p] = Cardinality(Holders(t, L, p))
  BY <1>1 DEF Book
<1> QED BY <1>2, <1>3, <1>4 DEF Book

\* free: the pages of a request go back.
LEMMA BookLeave ==
  ASSUME NEW A, NEW s, Typed(A, s), NEW L \in SUBSET Reqs, Book(s, L), NEW q \in L
  PROVE  Book(GiveBack(s, q), L \ {q})
<1> DEFINE t == GiveBack(s, q)
           pages == s.obj[q].table
           M == L \ {q}
<1>1. t.obj = s.obj /\ t.pool = Drops(s.pool, pages)
  BY DEF GiveBack, Typed, SchFields
<1>2. PoolOK(s.pool) /\ PoolExact(s.pool) /\ pages \in Seq(Pages) /\ Injective(pages)
  BY DEF Typed, Book, ObjOK
<1>3. ASSUME NEW i \in 1 .. Len(pages) PROVE s.pool.ref[pages[i]] # 0
  <2>1. pages[i] \in Pages /\ q \in Holders(s, L, pages[i])
    BY <1>2 DEF Holders, Listed
  <2> QED BY <2>1, HoldersFinite DEF Book
<1>4. /\ PoolExact(t.pool) /\ SameHashes(s.pool, t.pool)
      /\ \A x \in Pages : t.pool.ref[x] = IF Listed(pages, x) THEN s.pool.ref[x] - 1
                                          ELSE s.pool.ref[x]
  BY <1>1, <1>2, <1>3, DropsExact
<1>5. ASSUME NEW p \in Pages PROVE t.pool.ref[p] = Cardinality(Holders(t, M, p))
  <2>1. Holders(t, M, p) = Holders(s, L, p) \ {q}
    BY <1>1 DEF Holders
  <2>2. q \in Holders(s, L, p) <=> Listed(pages, p)
    BY DEF Holders
  <2>3. IsFiniteSet(Holders(s, L, p)) /\ Cardinality(Holders(s, L, p)) \in Nat
    BY HoldersFinite
  <2>4. Cardinality(Holders(s, L, p) \ {q}) =
          IF q \in Holders(s, L, p) THEN Cardinality(Holders(s, L, p)) - 1
          ELSE Cardinality(Holders(s, L, p))
    BY <2>3, FS_RemoveElement
  <2>5. s.pool.ref[p] = Cardinality(Holders(s, L, p))
    BY DEF Book
  <2> QED BY <2>1, <2>2, <2>4, <2>5, <1>4
<1> HIDE DEF t
<1>6. \A r \in M : ChainOK(t.obj[r]) /\ Injective(t.obj[r].table) /\ HashesOK(t.pool, t.obj[r])
  BY <1>1, <1>4 DEF Book, HashesOK, SameHashes
<1>7. \A r, x \in M : \A p \in Pages :
        Listed(t.obj[r].table, p) /\ Listed(t.obj[x].table, p) /\ r # x => t.pool.p2h[p] # NoHash
  BY <1>1, <1>4 DEF Book, SameHashes
<1>8. Book(t, M)
  BY <1>4, <1>5, <1>6, <1>7 DEF Book
<1> QED BY <1>8 DEF t

\* A request without pages comes in.
LEMMA BookEnter ==
  ASSUME NEW A, NEW s, Typed(A, s), NEW L \in SUBSET Reqs, Book(s, L), NEW q \in Reqs,
         s.obj[q].table = <<>>, ChainOK(s.obj[q])
  PROVE  Book(s, L \cup {q})
<1> DEFINE M == L \cup {q}
<1>0. ASSUME NEW p PROVE ~Listed(s.obj[q].table, p)
  BY DEF Listed
<1>1. ASSUME NEW p PROVE Holders(s, M, p) = Holders(s, L, p)
  BY <1>0 DEF Holders
<1>2. Injective(s.obj[q].table) /\ HashesOK(s.pool, s.obj[q])
  BY DEF Injective, HashesOK
<1>3. \A r \in M : ChainOK(s.obj[r]) /\ Injective(s.obj[r].table) /\ HashesOK(s.pool, s.obj[r])
  BY <1>2 DEF Book
<1>4. \A r, x \in M : \A p \in Pages :
        Listed(s.obj[r].table, p) /\ Listed(s.obj[x].table, p) /\ r # x => s.pool.p2h[p] # NoHash
  BY <1>0 DEF Book
<1> QED BY <1>1, <1>3, <1>4 DEF Book

\* register_decode_boundary: a page whose tokens are all known gets their hash.
LEMMA BookRegister ==
  ASSUME NEW A, NEW s, Typed(A, s), NEW L \in SUBSET Reqs, Book(s, L), NEW q \in L,
         NEW i \in 1 .. Len(s.obj[q].table), PageSize * i <= Len(s.obj[q].tok),
         NoHash \notin Seq(Seq(A)),
         NEW t, t.obj = s.obj, t.pool = Register(s.pool, s.obj[q].table[i], Own(s.obj[q], i))
  PROVE  Book(t, L)
<1> DEFINE o == s.obj[q]
           p == o.table[i]
           h == Own(o, i)
<1>1. ObjOK(A, o) /\ p \in Pages /\ PoolOK(s.pool) /\ PoolExact(s.pool) /\ i \in Nat
  BY DEF Typed, ObjOK, Book
<1>2. h # NoHash
  BY <1>1, OwnIsHash
<1>3. s.pool.p2h[p] \in {NoHash, h}
  BY DEF Book, HashesOK
<1>4. t.pool = Register(s.pool, p, h) /\ Listed(o.table, p)
  BY DEF Listed
<1> HIDE DEF h, p
<1>5. /\ PoolExact(t.pool) /\ t.pool.ref = s.pool.ref
      /\ \A x \in Pages \ {p} : t.pool.p2h[x] = s.pool.p2h[x]
      /\ t.pool.p2h[p] \in {s.pool.p2h[p], h}
  BY <1>1, <1>2, <1>3, <1>4, RegisterExact
<1>6. ASSUME NEW r \in L PROVE HashesOK(t.pool, t.obj[r])
  <2> SUFFICES ASSUME NEW j \in 1 .. Len(s.obj[r].table), t.pool.p2h[s.obj[r].table[j]] # NoHash
               PROVE  /\ PageSize * j <= Len(s.obj[r].tok)
                      /\ t.pool.p2h[s.obj[r].table[j]] = Own(s.obj[r], j)
    BY DEF HashesOK
  <2> DEFINE x == s.obj[r].table[j]
  <2>1. x \in Pages /\ Listed(s.obj[r].table, x)
    BY DEF Typed, ObjOK, Listed
  <2>2. CASE t.pool.p2h[x] = s.pool.p2h[x]
    BY <2>2 DEF Book, HashesOK
  <2>3. CASE t.pool.p2h[x] # s.pool.p2h[x]
    <3>1. x = p /\ t.pool.p2h[p] = h /\ s.pool.p2h[p] = NoHash
      BY <2>3, <2>1, <1>3, <1>5
    <3>2. r = q
      BY <3>1, <2>1, <1>4 DEF Book
    <3>3. i = j
      BY <3>1, <3>2 DEF Book, Injective, p
    <3> QED BY <3>1, <3>2, <3>3 DEF h
  <2> QED BY <2>2, <2>3
<1>7. \A r, x \in L : \A y \in Pages :
        Listed(t.obj[r].table, y) /\ Listed(t.obj[x].table, y) /\ r # x => t.pool.p2h[y] # NoHash
  BY <1>2, <1>5 DEF Book
<1>8. \A y \in Pages : t.pool.ref[y] = Cardinality(Holders(t, L, y))
  BY <1>5 DEF Book, Holders
<1>9. \A r \in L : ChainOK(t.obj[r]) /\ Injective(t.obj[r].table)
  BY DEF Book
<1> QED BY <1>5, <1>6, <1>7, <1>8, <1>9 DEF Book

\* A page more, with its hash if its tokens are all known.
LEMMA BookAddPage ==
  ASSUME NEW A, NEW s, Typed(A, s), NEW L \in SUBSET Reqs, Book(s, L), NEW q \in L,
         s.pool.free # <<>>
  PROVE  LET t == AddPage(s, q)
             p == Head(s.pool.free)
         IN  /\ Book(t, L) /\ p \in Pages /\ \A x \in L : ~Listed(s.obj[x].table, p)
             /\ t.filled = [s.filled EXCEPT ![p] = {}]
             /\ t.hitters = s.hitters /\ t.unwritten = s.unwritten
<1> DEFINE o == s.obj[q]
           i == Len(o.table) + 1
           known == i * PageSize <= Len(o.tok)
           h == IF known THEN HashOf(o, i) ELSE NoHash
           c == IF known THEN Hashed(o, i) ELSE o.chain
           p == Head(s.pool.free)
           n == [o EXCEPT !.table = Append(@, p), !.chain = c]
           t == AddPage(s, q)
<1>1. t = [s EXCEPT !.pool = Mint(@, h), !.filled[p] = {}, !.obj[q] = n]
  BY DEF AddPage
<1>2. PoolOK(s.pool) /\ PoolExact(s.pool) /\ ObjOK(A, o) /\ ChainOK(o) /\ Injective(o.table)
  BY DEF Typed, Book
<1>3. i \in Nat /\ i \in Nat \ {0} /\ i * PageSize = PageSize * i /\ Len(o.table) \in Nat
  BY <1>2, PageNat DEF ObjOK
<1>4. h = IF known THEN Own(o, i) ELSE NoHash
  BY <1>2, <1>3, HashIsOwn
<1>5. \E m \in Nat : PageSize * m <= Len(o.tok) /\ c = Own(o, m)
  <2>1. CASE known
    BY <2>1, <1>2, <1>3, HashIsOwn
  <2>2. CASE ~known
    BY <2>2, <1>2 DEF ChainOK
  <2> QED BY <2>1, <2>2
<1> HIDE DEF h, c, known
<1>6. /\ PoolExact(Mint(s.pool, h)) /\ p \in Pages /\ s.pool.ref[p] = 0
      /\ \A x \in Pages : /\ Mint(s.pool, h).ref[x] = IF x = p THEN 1 ELSE s.pool.ref[x]
                          /\ Mint(s.pool, h).p2h[x] = IF x = p THEN h ELSE s.pool.p2h[x]
  BY <1>2, MintExact
<1> HIDE DEF p
<1>7. \A x \in L : ~Listed(s.obj[x].table, p)
  <2>1. Holders(s, L, p) = {}
    BY <1>6, HoldersFinite DEF Book
  <2> QED BY <2>1 DEF Holders
<1>8. o.table \in Seq(Pages) /\ ~Listed(o.table, p)
  BY <1>2, <1>7 DEF ObjOK
<1>9. /\ Injective(Append(o.table, p))
      /\ \A x : Listed(Append(o.table, p), x) <=> x = p \/ Listed(o.table, x)
  BY <1>2, <1>6, <1>8, AppendOnce
<1>10. /\ n.table = Append(o.table, p) /\ n.tok = o.tok /\ n.chain = c
  BY <1>2 DEF ObjOK
<1>11. ChainOK(n)
  <2>1. PICK m \in Nat : PageSize * m <= Len(o.tok) /\ c = Own(o, m)
    BY <1>5
  <2>2. Own(n, m) = Own(o, m)
    BY <1>10 DEF Own, PageTokens
  <2> QED BY <2>1, <2>2, <1>10 DEF ChainOK
<1>12. \A j : Own(n, j) = Own(o, j)
  BY <1>10 DEF Own, PageTokens
<1> HIDE DEF n, t
<1>13. /\ t.pool = Mint(s.pool, h) /\ t.obj[q] = n /\ \A x \in L \ {q} : t.obj[x] = s.obj[x]
       /\ t.filled = [s.filled EXCEPT ![p] = {}]
       /\ t.hitters = s.hitters /\ t.unwritten = s.unwritten
  BY <1>1 DEF Typed, SchFields
<1>14. ASSUME NEW r \in L PROVE HashesOK(t.pool, t.obj[r])
  <2>1. CASE r # q
    <3> SUFFICES ASSUME NEW j \in 1 .. Len(s.obj[r].table), t.pool.p2h[s.obj[r].table[j]] # NoHash
                 PROVE  /\ PageSize * j <= Len(s.obj[r].tok)
                        /\ t.pool.p2h[s.obj[r].table[j]] = Own(s.obj[r], j)
      BY <2>1, <1>13 DEF HashesOK
    <3>1. s.obj[r].table[j] \in Pages /\ s.obj[r].table[j] # p
      BY <1>7 DEF Typed, ObjOK, Listed
    <3>2. t.pool.p2h[s.obj[r].table[j]] = s.pool.p2h[s.obj[r].table[j]]
      BY <3>1, <1>6, <1>13
    <3> QED BY <3>2 DEF Book, HashesOK
  <2>2. CASE r = q
    <3> SUFFICES ASSUME NEW j \in 1 .. Len(n.table), t.pool.p2h[n.table[j]] # NoHash
                 PROVE  PageSize * j <= Len(n.tok) /\ t.pool.p2h[n.table[j]] = Own(n, j)
      BY <2>2, <1>13 DEF HashesOK
    <3>1. CASE j = i
      <4>1. n.table[j] = p
        BY <3>1, <1>8, <1>10, <1>3
      <4>2. t.pool.p2h[p] = h
        BY <1>6, <1>13
      <4> QED BY <3>1, <4>1, <4>2, <1>3, <1>4, <1>10, <1>12 DEF known
    <3>2. CASE j # i
      <4>1. j \in 1 .. Len(o.table) /\ n.table[j] = o.table[j]
        BY <3>2, <1>3, <1>8, <1>10
      <4>2. o.table[j] \in Pages /\ o.table[j] # p
        BY <4>1, <1>8 DEF Listed
      <4>3. t.pool.p2h[n.table[j]] = s.pool.p2h[o.table[j]]
        BY <4>1, <4>2, <1>6, <1>13
      <4> QED BY <4>1, <4>3, <1>10, <1>12 DEF Book, HashesOK
    <3> QED BY <3>1, <3>2
  <2> QED BY <2>1, <2>2
<1>15. \A r \in L : ChainOK(t.obj[r]) /\ Injective(t.obj[r].table)
  BY <1>9, <1>10, <1>11, <1>13 DEF Book
<1>16. ASSUME NEW x \in Pages PROVE t.pool.ref[x] = Cardinality(Holders(t, L, x))
  <2>1. CASE x = p
    <3>1. Holders(t, L, p) = {q}
      BY <1>7, <1>9, <1>10, <1>13 DEF Holders
    <3>2. Cardinality({q}) = 1
      BY FS_Singleton
    <3>3. t.pool.ref[p] = 1
      BY <1>6, <1>13
    <3> QED BY <2>1, <3>1, <3>2, <3>3
  <2>2. CASE x # p
    <3>1. Holders(t, L, x) = Holders(s, L, x)
      BY <2>2, <1>9, <1>10, <1>13 DEF Holders
    <3> QED BY <3>1, <2>2, <1>6, <1>13 DEF Book
  <2> QED BY <2>1, <2>2
<1>17. ASSUME NEW r \in L, NEW y \in L, NEW x \in Pages, r # y,
              Listed(t.obj[r].table, x), Listed(t.obj[y].table, x)
       PROVE  t.pool.p2h[x] # NoHash
  <2>1. x # p
    BY <1>7, <1>13, <1>17
  <2>2. Listed(s.obj[r].table, x) /\ Listed(s.obj[y].table, x)
    BY <2>1, <1>9, <1>10, <1>13, <1>17
  <2> QED BY <2>1, <2>2, <1>6, <1>13, <1>17 DEF Book
<1>18. Book(t, L)
  BY <1>6, <1>13, <1>14, <1>15, <1>16, <1>17 DEF Book
<1> QED BY <1>6, <1>7, <1>13, <1>18 DEF p, t

\* The pages of the cached prefix get one holder more.
LEMMA BookLookUp ==
  ASSUME NEW A, NEW s, Typed(A, s), NEW L \in SUBSET Reqs, Book(s, L), NEW q \in L,
         s.obj[q].table = <<>>, NoHash \notin Seq(Seq(A))
  PROVE  LET t == LookUp(s, q)
         IN  /\ Book(t, L)
             /\ t.filled = s.filled /\ t.unwritten = s.unwritten
             /\ s.hitters \subseteq t.hitters
             /\ q \in t.hitters \/ (t.obj[q].table = <<>> /\ t.obj[q].computed = 0)
             /\ t.obj[q].computed <= PageSize * Len(t.obj[q].table)
             /\ t.obj[q].computed = 0 =>
                  t.obj[q].table = <<>> \/ (PageSize = 1 /\ Len(s.obj[q].tok) = 1)
<1> DEFINE o == s.obj[q]
           k == CachedPages(s.pool, o)
           hit == [i \in 1 .. k |-> s.pool.h2p[HashOf(o, i)]]
           c == Hashed(o, MinOf(k + 1, Len(o.tok) \div PageSize))
           d == MinOf(k * PageSize, Len(o.tok) - 1)
           n == [o EXCEPT !.table = hit, !.computed = d, !.chain = c]
           t == LookUp(s, q)
<1>0. /\ ObjOK(A, o) /\ PoolOK(s.pool) /\ PoolExact(s.pool) /\ ChainOK(o) /\ o.table = <<>>
      /\ Len(o.tok) \in Nat \ {0}
  BY DEF Typed, Book, ObjOK
<1>1. t = [s EXCEPT !.pool = Shares(@, hit),
                    !.hitters = IF k = 0 THEN @ ELSE @ \cup {q},
                    !.obj[q] = n]
  BY DEF LookUp, TakeCached
<1>2. /\ k \in Nat /\ \A i \in 1 .. k : HashOf(o, i) \in DOMAIN s.pool.h2p
      /\ PageSize * k <= Len(o.tok)
  BY <1>0, CachedPagesOK
<1> HIDE DEF k
<1>3. ASSUME NEW i \in 1 .. k
      PROVE  hit[i] \in Pages /\ s.pool.p2h[hit[i]] = Own(o, i) /\ PageSize * i <= Len(o.tok)
             /\ Own(o, i) # NoHash
  <2>1. HashOf(o, i) = Own(o, i)
    BY <1>0, <1>2, HashIsOwn
  <2>2. hit[i] \in Pages /\ s.pool.p2h[hit[i]] = Own(o, i)
    BY <2>1, <1>0, <1>2 DEF PoolOK, PoolExact
  <2>3. PageSize * i <= PageSize * k
    BY PageNat, <1>2
  <2>4. PageSize * i <= Len(o.tok)
    <3>1. PageSize * i \in Nat /\ PageSize * k \in Nat
      BY PageNat, <1>2
    <3> QED BY <3>1, <2>3, <1>0, <1>2
  <2> QED BY <2>2, <2>4, <1>0, OwnIsHash
<1>4. hit \in Seq(Pages) /\ Len(hit) = k
  BY <1>2, <1>3
<1>5. Injective(hit)
  <2> SUFFICES ASSUME NEW i \in 1 .. k, NEW j \in 1 .. k, hit[i] = hit[j]
               PROVE  i = j
    BY <1>4 DEF Injective
  <2>1. Own(o, i) = Own(o, j)
    BY <1>3
  <2>2. DOMAIN Own(o, i) = 1 .. i /\ DOMAIN Own(o, j) = 1 .. j
    BY DEF Own
  <2>3. i \in 1 .. j /\ j \in 1 .. i
    BY <2>1, <2>2
  <2> QED BY <2>3
<1>6. /\ PoolExact(Shares(s.pool, hit)) /\ SameHashes(s.pool, Shares(s.pool, hit))
      /\ \A x \in Pages : Shares(s.pool, hit).ref[x] =
           IF Listed(hit, x) THEN s.pool.ref[x] + 1 ELSE s.pool.ref[x]
  BY <1>0, <1>4, <1>5, SharesExact
<1>7. d \in Nat /\ d <= PageSize * k /\ (d = 0 => k = 0 \/ (PageSize = 1 /\ Len(o.tok) = 1))
  <2>1. k * PageSize \in Nat /\ k * PageSize = PageSize * k /\ k * PageSize >= k
    BY PageNat, <1>2
  <2>0. Len(o.tok) \in Nat \ {0}
    BY <1>0
  <2>2. Len(o.tok) - 1 \in Nat
    BY <1>0
  <2>3. d \in {k * PageSize, Len(o.tok) - 1} /\ d <= k * PageSize /\ d <= Len(o.tok) - 1
    BY <2>1, <2>2, MinMax
  <2>4. ASSUME d = 0, k # 0 PROVE PageSize = 1 /\ Len(o.tok) = 1
    <3>0. k * PageSize # 0
      BY <2>1, <2>4, <1>2
    <3>4. d = Len(o.tok) - 1
      BY <2>3, <2>4, <3>0
    <3> HIDE DEF d, o
    <3>1. Len(o.tok) = 1
      BY <3>4, <2>4, <2>0
    <3>2. PageSize * k >= PageSize
      BY <2>4, <1>2, PageNat
    <3>3. PageSize <= 1
      BY <3>1, <3>2, <1>2, PageNat, <2>1
    <3> QED BY <3>1, <3>3, PageNat
  <2> QED BY <2>1, <2>2, <2>3, <2>4
<1>8. \E m \in Nat : PageSize * m <= Len(o.tok) /\ c = Own(o, m)
  <2> DEFINE M == Len(o.tok) \div PageSize
             y == MinOf(k + 1, M)
  <2>1. M \in Nat /\ PageSize * M <= Len(o.tok)
    BY <1>0, PageNat, DivBounds
  <2>2. y \in Nat /\ y <= M
    BY <2>1, <1>2, MinMax
  <2> HIDE DEF M
  <2>3. PageSize * y <= Len(o.tok)
    <3>1. PageSize * y <= PageSize * M
      BY <2>1, <2>2, PageNat
    <3>2. PageSize * y \in Nat /\ PageSize * M \in Nat
      BY <2>1, <2>2, PageNat
    <3> QED BY <3>1, <3>2, <2>1, <1>0
  <2>4. c = Hashed(o, y)
    BY DEF M
  <2> HIDE DEF y, c
  <2>5. PICK n2 \in Nat : /\ n2 = y \/ (n2 > y /\ PageSize * n2 <= Len(o.tok))
                          /\ Hashed(o, y) = Own(o, n2)
    BY <1>0, <2>2, HashIsOwn
  <2>6. PageSize * n2 <= Len(o.tok)
    BY <2>3, <2>5
  <2> QED BY <2>4, <2>5, <2>6
<1> HIDE DEF c, d, hit
<1>9. n.table = hit /\ n.tok = o.tok /\ n.chain = c /\ n.computed = d
  BY <1>0 DEF ObjOK
<1> HIDE DEF n, t
<1>10. /\ t.pool = Shares(s.pool, hit) /\ t.obj[q] = n
       /\ \A x \in L \ {q} : t.obj[x] = s.obj[x]
       /\ t.filled = s.filled /\ t.unwritten = s.unwritten
       /\ t.hitters = IF k = 0 THEN s.hitters ELSE s.hitters \cup {q}
  BY <1>1 DEF Typed, SchFields
<1>11. \A j : Own(n, j) = Own(o, j)
  BY <1>9 DEF Own, PageTokens
<1>12. ChainOK(n)
  <2>1. PICK m \in Nat : PageSize * m <= Len(o.tok) /\ c = Own(o, m)
    BY <1>8
  <2> QED BY <2>1, <1>9, <1>11 DEF ChainOK
<1>13. ASSUME NEW r \in L
       PROVE  ChainOK(t.obj[r]) /\ Injective(t.obj[r].table) /\ HashesOK(t.pool, t.obj[r])
  <2>1. CASE r = q
    <3>1. HashesOK(s.pool, n)
      BY <1>3, <1>4, <1>9, <1>11 DEF HashesOK
    <3>2. HashesOK(t.pool, n)
      BY <3>1, <1>6, <1>10 DEF HashesOK, SameHashes
    <3> QED BY <3>2, <2>1, <1>5, <1>9, <1>10, <1>12
  <2>2. CASE r # q
    <3>1. t.obj[r] = s.obj[r]
      BY <2>2, <1>10
    <3>2. ChainOK(s.obj[r]) /\ Injective(s.obj[r].table) /\ HashesOK(s.pool, s.obj[r])
      BY DEF Book
    <3>3. t.pool.p2h = s.pool.p2h
      BY <1>6, <1>10 DEF SameHashes
    <3>4. HashesOK(t.pool, s.obj[r])
      BY <3>2, <3>3 DEF HashesOK
    <3> QED BY <3>1, <3>2, <3>4
  <2> QED BY <2>1, <2>2
<1>14. ASSUME NEW p PROVE ~Listed(s.obj[q].table, p)
  BY <1>0 DEF Listed
<1>15. ASSUME NEW x \in Pages PROVE t.pool.ref[x] = Cardinality(Holders(t, L, x))
  <2>1. s.pool.ref[x] = Cardinality(Holders(s, L, x)) /\ IsFiniteSet(Holders(s, L, x))
    BY HoldersFinite DEF Book
  <2>2. q \notin Holders(s, L, x)
    BY <1>14 DEF Holders
  <2>3. CASE Listed(hit, x)
    <3>1. Holders(t, L, x) = Holders(s, L, x) \cup {q}
      BY <2>3, <1>9, <1>10 DEF Holders
    <3>2. Cardinality(Holders(s, L, x) \cup {q}) = Cardinality(Holders(s, L, x)) + 1
      BY <2>1, <2>2, FS_AddElement
    <3> QED BY <3>1, <3>2, <2>1, <2>3, <1>6, <1>10
  <2>4. CASE ~Listed(hit, x)
    <3>1. Holders(t, L, x) = Holders(s, L, x)
      BY <2>4, <1>9, <1>10, <1>14 DEF Holders
    <3> QED BY <3>1, <2>1, <2>4, <1>6, <1>10
  <2> QED BY <2>3, <2>4
<1>16. \A x \in Pages : Listed(hit, x) => s.pool.p2h[x] # NoHash
  BY <1>3, <1>4 DEF Listed
<1>17. \A r, y \in L : \A x \in Pages :
         Listed(t.obj[r].table, x) /\ Listed(t.obj[y].table, x) /\ r # y => t.pool.p2h[x] # NoHash
  BY <1>6, <1>9, <1>10, <1>16 DEF Book, SameHashes
<1>18. Book(t, L)
  BY <1>6, <1>10, <1>13, <1>15, <1>17 DEF Book
<1>19. k = 0 => hit = <<>> /\ d = 0
  <2> SUFFICES ASSUME k = 0 PROVE hit = <<>> /\ d = 0
    OBVIOUS
  <2>1. PageSize * k = 0
    BY PageNat
  <2>2. hit = <<>>
    BY <1>4
  <2> QED BY <2>1, <2>2, <1>7
<1>20. d <= PageSize * Len(hit)
  BY <1>4, <1>7
<1> QED BY <1>7, <1>9, <1>10, <1>18, <1>19, <1>20 DEF t, o

-----------------------------------------------------------------------------
(* The KV slots of the requests of L; those of F are in a batch, and E is the *)
(* set of the rows of the batch that is being built.                          *)

Slot(i) == (i \div PageSize) + 1

\* The slot of token i is written.
Written(s, o, i) == Slot(i) <= Len(o.table) /\ (i % PageSize) \in s.filled[o.table[Slot(i)]]

\* How many tokens of q have their KV when the batches in the pipe are computed.
Reach(s, F, q) == IF q \in F THEN s.obj[q].computed + s.obj[q].todo ELSE s.obj[q].computed

\* A row of E writes the slot of token i.
Covers(E, q, i) == \E e \in E : e.req = q /\ e.from <= i /\ i < e.from + e.todo

\* What a row says of its request: the row of a chunk, which is not in F, has been
\* counted as computed.
RowOK(s, F, e) ==
  /\ e.req \in Reqs /\ e.from \in Nat /\ e.todo \in Nat /\ e.table = s.obj[e.req].table
  /\ IF e.req \in F THEN e.from = s.obj[e.req].computed /\ e.todo = s.obj[e.req].todo
     ELSE e.from + e.todo = s.obj[e.req].computed

\* A request that took no page from the cache has its slots written, or will have by
\* the batch that is being built.
Kv(s, L, F, E) ==
  /\ DOMAIN s.filled = Pages /\ s.unwritten \subseteq s.hitters
  /\ \A q \in L \ s.hitters : \A i \in Nat :
       i < Reach(s, F, q) => Written(s, s.obj[q], i) \/ Covers(E, q, i)
  /\ \A e \in E : RowOK(s, F, e)

\* The pages that q has in s it has in t, and no slot of them is lost.
KeepsPages(s, t, q) ==
  /\ Extends(s.obj[q].table, t.obj[q].table)
  /\ \A j \in 1 .. Len(s.obj[q].table) :
       s.filled[s.obj[q].table[j]] \subseteq t.filled[s.obj[q].table[j]]

\* Slots count from one, their offsets from zero.
LEMMA SlotNat ==
  ASSUME NEW i \in Nat
  PROVE  Slot(i) \in Nat \ {0} /\ i % PageSize \in 0 .. PageSize - 1
<1>1. i \div PageSize \in Nat
  BY PageNat, DivBounds
<1>2. i % PageSize \in 0 .. PageSize - 1
  BY PageNat
<1> QED BY <1>1, <1>2 DEF Slot

\* The pages for n tokens have slots for each of them.
LEMMA SlotFits ==
  ASSUME NEW n \in Nat, NEW k \in Nat, PagesFor(n) <= k, NEW i \in Nat, i < n
  PROVE  Slot(i) \in 1 .. k
<1> DEFINE d == i \div PageSize
           m == PagesFor(n)
<1>1. d \in Nat /\ PageSize * d <= i
  BY PageNat, DivBounds
<1>2. n + PageSize - 1 \in Nat
  BY PageNat
<1>3. m \in Nat /\ n + PageSize - 1 < PageSize * m + PageSize
  BY <1>2, PageNat, DivBounds DEF PagesFor
<1> HIDE DEF d, m
<1>4. PageSize * d < PageSize * m
  <2>1. PageSize * d \in Nat /\ PageSize * m \in Nat
    BY <1>1, <1>3, PageNat, ProductNat
  <2> QED BY <2>1, <1>1, <1>3, PageNat
<1>5. d < m
  BY <1>1, <1>3, <1>4, PageNat, ProductMono
<1> QED BY <1>1, <1>3, <1>5 DEF Slot, d, m

\* What keeps the slots: a request goes no further than before, or than the rows go.
LEMMA KvFrame ==
  ASSUME NEW A, NEW s, Typed(A, s), NEW t, Typed(A, t),
         NEW L, NEW L2 \in SUBSET Reqs, NEW F, NEW F2, NEW E, NEW E2, Kv(s, L, F, E),
         DOMAIN t.filled = Pages, t.unwritten = s.unwritten, s.hitters \subseteq t.hitters,
         E \subseteq E2, \A e \in E2 : RowOK(t, F2, e),
         \A q \in L2 \ t.hitters : \A i \in Nat : i < Reach(t, F2, q) =>
           \/ Covers(E2, q, i)
           \/ q \in L /\ KeepsPages(s, t, q) /\ i < Reach(s, F, q)
  PROVE  Kv(t, L2, F2, E2)
<1>1. ASSUME NEW q \in L2 \ t.hitters, NEW i \in Nat, i < Reach(t, F2, q), ~Covers(E2, q, i)
      PROVE  Written(t, t.obj[q], i)
  <2>1. q \in L \ s.hitters /\ KeepsPages(s, t, q) /\ i < Reach(s, F, q)
    BY <1>1
  <2>2. ~Covers(E, q, i)
    BY <1>1 DEF Covers
  <2>3. Written(s, s.obj[q], i)
    BY <2>1, <2>2 DEF Kv
  <2>4. Slot(i) \in 1 .. Len(s.obj[q].table) /\ Len(t.obj[q].table) \in Nat
    <3>1. ObjOK(A, s.obj[q]) /\ ObjOK(A, t.obj[q])
      BY DEF Typed
    <3>2. Len(s.obj[q].table) \in Nat /\ Len(t.obj[q].table) \in Nat
      BY <3>1 DEF ObjOK
    <3> QED BY <3>2, <2>3, SlotNat DEF Written
  <2> DEFINE x == Slot(i)
  <2>5. x \in 1 .. Len(s.obj[q].table) /\ Len(t.obj[q].table) \in Nat
    BY <2>4
  <2>6. i % PageSize \in s.filled[s.obj[q].table[x]]
    BY <2>3 DEF Written
  <2> HIDE DEF x
  <2>7. t.obj[q].table[x] = s.obj[q].table[x] /\ x <= Len(t.obj[q].table)
    <3>0. Len(s.obj[q].table) \in Nat
      BY DEF Typed, ObjOK
    <3> QED BY <3>0, <2>1, <2>5 DEF KeepsPages, Extends
  <2>8. i % PageSize \in t.filled[s.obj[q].table[x]]
    BY <2>1, <2>5, <2>6 DEF KeepsPages
  <2> QED BY <2>7, <2>8 DEF Written, x
<1>2. t.unwritten \subseteq t.hitters
  BY DEF Kv
<1> QED BY <1>1, <1>2 DEF Kv

\* The forward of the batch that was built writes what its rows cover, and every
\* slot that a row attends to is written then.
LEMMA KvForward ==
  ASSUME NEW A, NEW s, Typed(A, s), NEW L \in SUBSET Reqs, NEW F, NEW b,
         Kv(s, L, F, Range(b)),
         \A e \in Range(b) : e.req \in L /\ PagesFor(e.from + e.todo) <= Len(e.table)
  PROVE  Kv(Forward(s, b), L, F, {})
<1> DEFINE new == UNION {Slots(e) : e \in Range(b)}
           filled == [p \in Pages |->
                        s.filled[p] \cup {i \in 0 .. PageSize - 1 : <<p, i>> \in new}]
           blind == {e \in Range(b) : \E i \in 0 .. e.from - 1 :
                       (i % PageSize) \notin filled[e.table[(i \div PageSize) + 1]]}
           t == Forward(s, b)
<1>1. t = [s EXCEPT !.filled = filled, !.unwritten = @ \cup {e.req : e \in blind}]
  BY DEF Forward
<1>2. ASSUME NEW e \in Range(b), NEW i \in Nat, e.from <= i, i < e.from + e.todo
      PROVE  Slot(i) \in 1 .. Len(e.table) /\ i % PageSize \in filled[e.table[Slot(i)]]
  <2>1. e.req \in Reqs /\ e.from \in Nat /\ e.todo \in Nat /\ e.table = s.obj[e.req].table
    BY DEF Kv, RowOK
  <2>2. e.table \in Seq(Pages)
    BY <2>1 DEF Typed, ObjOK
  <2>3. Slot(i) \in 1 .. Len(e.table)
    BY <1>2, <2>1, <2>2, SlotFits
  <2>4. e.table[Slot(i)] \in Pages
    BY <2>2, <2>3
  <2>5. <<e.table[Slot(i)], i % PageSize>> \in new
    <3>1. i \in e.from .. e.from + e.todo - 1
      BY <1>2, <2>1
    <3>2. <<e.table[Slot(i)], i % PageSize>> \in Slots(e)
      BY <3>1 DEF Slots, Slot
    <3> QED BY <3>2
  <2>6. i % PageSize \in 0 .. PageSize - 1
    BY SlotNat
  <2> HIDE DEF new
  <2> QED BY <2>3, <2>4, <2>5, <2>6
<1>3. ASSUME NEW p \in Pages PROVE s.filled[p] \subseteq filled[p]
  OBVIOUS
<1> HIDE DEF new, filled
<1>4. ASSUME NEW q \in L \ s.hitters, NEW i \in Nat, i < Reach(s, F, q)
      PROVE  Slot(i) \in 1 .. Len(s.obj[q].table)
             /\ i % PageSize \in filled[s.obj[q].table[Slot(i)]]
  <2>1. s.obj[q].table \in Seq(Pages)
    BY DEF Typed, ObjOK
  <2>2. CASE Covers(Range(b), q, i)
    <3>1. PICK e \in Range(b) : e.req = q /\ e.from <= i /\ i < e.from + e.todo
      BY <2>2 DEF Covers
    <3>2. e.table = s.obj[q].table
      BY <3>1 DEF Kv, RowOK
    <3> QED BY <3>1, <3>2, <1>2
  <2>3. CASE ~Covers(Range(b), q, i)
    <3>1. Written(s, s.obj[q], i)
      BY <2>3, <1>4 DEF Kv
    <3>2. Slot(i) \in 1 .. Len(s.obj[q].table)
      BY <3>1, <2>1, SlotNat DEF Written
    <3>3. s.obj[q].table[Slot(i)] \in Pages
      BY <3>2, <2>1
    <3> QED BY <3>1, <3>2, <3>3, <1>3 DEF Written
  <2> QED BY <2>2, <2>3
<1>5. ASSUME NEW e \in blind PROVE e.req \in s.hitters
  <2> SUFFICES ASSUME e.req \notin s.hitters PROVE FALSE
    OBVIOUS
  <2>1. PICK i \in 0 .. e.from - 1 : (i % PageSize) \notin filled[e.table[Slot(i)]]
    BY DEF Slot
  <2>2. e \in Range(b) /\ e.req \in L /\ RowOK(s, F, e)
    BY DEF Kv
  <2>3. ObjOK(A, s.obj[e.req])
    BY <2>2 DEF Typed
  <2>4. i \in Nat /\ i < Reach(s, F, e.req)
    BY <2>1, <2>2, <2>3 DEF RowOK, Reach, ObjOK
  <2>5. e.table = s.obj[e.req].table
    BY <2>2 DEF RowOK
  <2> QED BY <1>4, <2>1, <2>2, <2>4, <2>5
<1> HIDE DEF blind, t
<1>6. /\ t.filled = filled /\ t.unwritten = s.unwritten \cup {e.req : e \in blind}
      /\ t.hitters = s.hitters /\ t.obj = s.obj
  BY <1>1 DEF Typed, SchFields
<1>7. DOMAIN filled = Pages
  BY DEF filled
<1>8. t.unwritten \subseteq t.hitters
  BY <1>5, <1>6 DEF Kv
<1>9. ASSUME NEW q \in L \ t.hitters, NEW i \in Nat, i < Reach(t, F, q)
      PROVE  Written(t, t.obj[q], i)
  <2>1. q \in L \ s.hitters /\ i < Reach(s, F, q)
    BY <1>6, <1>9 DEF Reach
  <2>2. ObjOK(A, s.obj[q])
    BY DEF Typed
  <2>3. Len(s.obj[q].table) \in Nat
    BY <2>2 DEF ObjOK
  <2> QED BY <1>4, <1>6, <2>1, <2>3 DEF Written
<1> QED BY <1>6, <1>7, <1>8, <1>9 DEF Kv, t

-----------------------------------------------------------------------------
(* The accounts of pages and slots together. *)

\* With pages of one token, a prompt of one token could be in the cache as a whole.
Long(o) == PageSize > 1 \/ Len(o.tok) > 1

Ledger(s, L, F, E) ==
  /\ Book(s, L) /\ Kv(s, L, F, E)
  /\ \A e \in E : e.req \in L
  /\ \A q \in L : Long(s.obj[q])

\* What waits for a prefill has pages for what is computed, and no page before that.
Ready(o) == (o.computed = 0 => o.table = <<>>) /\ PagesFor(o.computed) <= Len(o.table)

\* A page more.
LEMMA LedgerAddPage ==
  ASSUME NEW A, NEW s, Typed(A, s), NEW L \in SUBSET Reqs, NEW F, NEW E, Ledger(s, L, F, E),
         NEW q \in L, s.pool.free # <<>>, \A e \in E : e.req # q
  PROVE  Ledger(AddPage(s, q), L, F, E)
<1> DEFINE t == AddPage(s, q)
           p == Head(s.pool.free)
<1>1. /\ Typed(A, t) /\ Around(s, t) /\ \A x \in Reqs \ {q} : t.obj[x] = s.obj[x]
  BY AddPageOK
<1>2. /\ Book(t, L) /\ p \in Pages /\ \A x \in L : ~Listed(s.obj[x].table, p)
      /\ t.filled = [s.filled EXCEPT ![p] = {}]
      /\ t.hitters = s.hitters /\ t.unwritten = s.unwritten
  BY BookAddPage DEF Ledger
<1> HIDE DEF t, p
<1>3. DOMAIN t.filled = Pages
  BY <1>2 DEF Ledger, Kv
<1>4. \A e \in E : RowOK(t, F, e)
  <2> SUFFICES ASSUME NEW e \in E PROVE RowOK(t, F, e)
    OBVIOUS
  <2>1. RowOK(s, F, e) /\ e.req # q /\ e.req \in Reqs
    BY DEF Ledger, Kv
  <2>2. t.obj[e.req] = s.obj[e.req]
    BY <1>1, <2>1
  <2> QED BY <2>1, <2>2 DEF RowOK
<1>5. ASSUME NEW x \in L
      PROVE  KeepsPages(s, t, x) /\ Reach(t, F, x) = Reach(s, F, x)
  <2>1. Extends(s.obj[x].table, t.obj[x].table) /\ Reach(t, F, x) = Reach(s, F, x)
    BY <1>1 DEF Around, Grown, Reach
  <2>2. ASSUME NEW j \in 1 .. Len(s.obj[x].table)
        PROVE  s.filled[s.obj[x].table[j]] \subseteq t.filled[s.obj[x].table[j]]
    <3>1. s.obj[x].table[j] # p
      BY <1>2 DEF Listed
    <3> QED BY <1>2, <3>1
  <2> QED BY <2>1, <2>2 DEF KeepsPages
<1>6. Kv(t, L, F, E)
  BY <1>1, <1>2, <1>3, <1>4, <1>5, KvFrame DEF Ledger
<1>7. \A x \in L : Long(t.obj[x])
  BY <1>1 DEF Ledger, Long, Around, Grown
<1> QED BY <1>2, <1>6, <1>7 DEF Ledger, t

\* The pages that are wanted.
LEMMA LedgerPreAllocate ==
  ASSUME NEW A, NEW s, Typed(A, s), NEW L \in SUBSET Reqs, NEW F, NEW E, Ledger(s, L, F, E),
         NEW q \in L, PagesWanted(s.obj[q]) <= FreePages(s), \A e \in E : e.req # q
  PROVE  Ledger(PreAllocate(s, q), L, F, E)
<1> DEFINE N == PagesWanted(s.obj[q])
<1>1. N \in Nat /\ FreePages(s) \in Nat /\ N <= FreePages(s)
  BY WantedInt, FreePagesNat
<1>2. PICK f : /\ f[0] = s
               /\ \A n \in 1 .. N : f[n] = AddPage(f[n - 1], q)
               /\ PreAllocate(s, q) = f[N]
  BY <1>1, PreAllocateLoop
<1> HIDE DEF N
<1> DEFINE OK(n) == Typed(A, f[n]) /\ FreePages(f[n]) = FreePages(s) - n /\ Ledger(f[n], L, F, E)
           G == {n \in 0 .. N : OK(n)}
<1>3. OK(0)
  BY <1>1, <1>2
<1>4. ASSUME NEW n \in 1 .. N, OK(n - 1) PROVE OK(n)
  <2> DEFINE r == f[n - 1]
             t == f[n]
  <2>1. Typed(A, r) /\ FreePages(r) = FreePages(s) - (n - 1) /\ Ledger(r, L, F, E)
    BY <1>4
  <2>2. t = AddPage(r, q)
    BY <1>2
  <2> HIDE DEF r, t
  <2>3. r.pool.free # <<>>
    BY <1>1, <2>1 DEF FreePages
  <2>4. Typed(A, t) /\ FreePages(t) = FreePages(r) - 1
    BY <2>1, <2>2, <2>3, AddPageOK
  <2>5. Ledger(t, L, F, E)
    BY <2>1, <2>2, <2>3, LedgerAddPage
  <2>6. FreePages(t) = FreePages(s) - n
    BY <1>1, <2>1, <2>4
  <2> QED BY <2>4, <2>5, <2>6 DEF t
<1> HIDE DEF OK
<1>5. 0 \in G
  BY <1>1, <1>3
<1>6. ASSUME NEW n \in 1 .. N, n - 1 \in G PROVE n \in G
  BY <1>4, <1>6
<1> HIDE DEF G
<1>7. \A n \in 0 .. N : n \in G
  BY <1>1, <1>5, <1>6, Induct, Zenon
<1>8. OK(N)
  BY <1>1, <1>7 DEF G
<1> QED BY <1>2, <1>8 DEF OK

\* The pages of a request go back, and the request with them.
LEMMA LedgerLeave ==
  ASSUME NEW A, NEW s, Typed(A, s), NEW L \in SUBSET Reqs, NEW F, Ledger(s, L, F, {}),
         NEW q \in L
  PROVE  Ledger(GiveBack(s, q), L \ {q}, F, {}) /\ Typed(A, GiveBack(s, q))
<1> DEFINE t == GiveBack(s, q)
<1>1. Typed(A, t) /\ t.obj = s.obj
  BY GiveBackOK
<1>2. t.filled = s.filled /\ t.hitters = s.hitters /\ t.unwritten = s.unwritten
  BY DEF GiveBack, Typed, SchFields
<1>3. Book(t, L \ {q})
  BY BookLeave DEF Ledger
<1> HIDE DEF t
<1>4. ASSUME NEW x \in L \ {q}
      PROVE  KeepsPages(s, t, x) /\ Reach(t, F, x) = Reach(s, F, x)
  <2>1. s.obj[x].table \in Seq(Pages)
    BY DEF Typed, ObjOK
  <2> QED BY <1>1, <1>2, <2>1, ExtendsSelf DEF KeepsPages, Reach
<1>5. DOMAIN t.filled = Pages /\ L \ {q} \in SUBSET Reqs
  BY <1>2 DEF Ledger, Kv
<1>6. Kv(t, L \ {q}, F, {})
  BY <1>1, <1>2, <1>4, <1>5, KvFrame DEF Ledger
<1> QED BY <1>1, <1>3, <1>6 DEF Ledger, t

\* A request without pages comes in.
LEMMA LedgerEnter ==
  ASSUME NEW A, NEW s, Typed(A, s), NEW L \in SUBSET Reqs, NEW F, Ledger(s, L, F, {}),
         NEW q \in Reqs \ F, s.obj[q].table = <<>>, s.obj[q].computed = 0,
         ChainOK(s.obj[q]), Long(s.obj[q])
  PROVE  Ledger(s, L \cup {q}, F, {})
<1>1. Book(s, L \cup {q})
  BY BookEnter DEF Ledger
<1>2. Kv(s, L \cup {q}, F, {})
  BY DEF Ledger, Kv, Reach
<1> QED BY <1>1, <1>2 DEF Ledger

\* Requests move between queues and batches; no page and no slot changes.
LEMMA LedgerMoves ==
  ASSUME NEW A, NEW s, Typed(A, s), NEW t, Typed(A, t), NEW L \in SUBSET Reqs,
         NEW F, NEW F2, NEW E, NEW E2, Ledger(s, L, F, E),
         t.pool = s.pool, t.filled = s.filled, t.hitters = s.hitters,
         t.unwritten = s.unwritten,
         E \subseteq E2, \A e \in E2 : RowOK(t, F2, e) /\ e.req \in L,
         \A q \in L : /\ t.obj[q].table = s.obj[q].table
                      /\ Extends(s.obj[q].tok, t.obj[q].tok)
                      /\ t.obj[q].chain = s.obj[q].chain \/ ChainOK(t.obj[q])
                      /\ \A i \in Nat : i < Reach(t, F2, q) =>
                           Covers(E2, q, i) \/ i < Reach(s, F, q)
  PROVE  Ledger(t, L, F2, E2)
<1>1. Book(t, L)
  BY BookSame DEF Ledger
<1>2. ASSUME NEW q \in L PROVE KeepsPages(s, t, q)
  <2>1. s.obj[q].table \in Seq(Pages)
    BY DEF Typed, ObjOK
  <2> QED BY <2>1, ExtendsSelf DEF KeepsPages
<1>3. DOMAIN t.filled = Pages
  BY DEF Ledger, Kv
<1>4. Kv(t, L, F2, E2)
  BY <1>2, <1>3, KvFrame DEF Ledger
<1>5. ASSUME NEW q \in L PROVE Long(t.obj[q])
  <2>1. Long(s.obj[q]) /\ Extends(s.obj[q].tok, t.obj[q].tok)
    BY DEF Ledger
  <2>2. ObjOK(A, s.obj[q]) /\ ObjOK(A, t.obj[q])
    BY DEF Typed
  <2>3. Len(s.obj[q].tok) \in Nat /\ Len(t.obj[q].tok) \in Nat
    BY <2>2 DEF ObjOK
  <2> QED BY <2>1, <2>3 DEF Long, Extends
<1> QED BY <1>1, <1>4, <1>5 DEF Ledger

\* A sequence extends itself.
LEMMA ExtendsSame ==
  ASSUME NEW A, NEW a \in Seq(A)
  PROVE  Extends(a, a)
<1>1. Len(a) \in Nat
  OBVIOUS
<1> QED BY <1>1 DEF Extends

-----------------------------------------------------------------------------
(* The scheduler whose accounts are exact: W wait, D decode, F are in a batch, *)
(* and E is the batch that is being built.                                     *)

Sound(A, s, W, D, F, E) ==
  /\ Typed(A, s) /\ Placed(s, W, D, F)
  /\ Ledger(s, W \cup D \cup F, F, E)
  /\ \A q \in W : Ready(s.obj[q])

\* Where the requests are, in a scheduler whose accounts are exact.
LEMMA SoundReqs ==
  ASSUME NEW A, NEW s, NEW W, NEW D, NEW F, NEW E, Sound(A, s, W, D, F, E)
  PROVE  /\ W \cup D \cup F \in SUBSET Reqs
         /\ W \subseteq Reqs /\ D \subseteq Reqs /\ F \subseteq Reqs
         /\ W \cap D = {} /\ W \cap F = {} /\ D \cap F = {}
BY ListsIn DEF Sound, Placed

\* A victim gives its pages back and starts again.
LEMMA SoundPreemptOne ==
  ASSUME NEW A, NEW s, NEW W, NEW D, NEW F, Sound(A, s, W, D, F, {}), NEW q \in D
  PROVE  Sound(A, PreemptOne(s, q), W \cup {q}, D \ {q}, F, {})
<1> DEFINE g == GiveBack(s, q)
           t == PreemptOne(s, q)
           L == W \cup D \cup F
<1>0. /\ L \in SUBSET Reqs /\ q \in L /\ q \in Reqs \ F /\ Typed(A, s) /\ Placed(s, W, D, F)
      /\ Ledger(s, L, F, {}) /\ L \ {q} \in SUBSET Reqs
  BY SoundReqs DEF Sound
<1>1. Typed(A, t) /\ Placed(t, W \cup {q}, D \ {q}, F)
  BY <1>0, PreemptOneOK DEF Preempted
<1>2. Ledger(g, L \ {q}, F, {}) /\ Typed(A, g)
  BY <1>0, LedgerLeave
<1>3. t = [g EXCEPT !.decode = Without(@, q), !.prefill = <<q>> \o @,
                    !.preempted = @ \cup {q}, !.obj[q] = Restarted(@)]
  BY DEF PreemptOne
<1>4. g.obj = s.obj
  BY <1>0, GiveBackOK
<1> HIDE DEF g, t, L
<1>5. /\ t.pool = g.pool /\ t.filled = g.filled /\ t.hitters = g.hitters
      /\ t.unwritten = g.unwritten
      /\ \A x \in Reqs \ {q} : t.obj[x] = g.obj[x]
      /\ t.obj[q] = Restarted(s.obj[q])
  BY <1>0, <1>2, <1>3, <1>4 DEF Typed, SchFields
<1>6. Ledger(t, L \ {q}, F, {})
  <2>1. ASSUME NEW x \in L \ {q}
        PROVE  /\ t.obj[x] = g.obj[x] /\ Extends(g.obj[x].tok, t.obj[x].tok)
               /\ Reach(t, F, x) = Reach(g, F, x)
    <3>1. t.obj[x] = g.obj[x] /\ g.obj[x].tok \in Seq(A)
      BY <1>0, <1>2, <1>5 DEF Typed, ObjOK
    <3> QED BY <3>1, ExtendsSame DEF Reach
  <2> QED BY <1>0, <1>1, <1>2, <1>5, <2>1, LedgerMoves
<1>7. /\ t.obj[q].table = <<>> /\ t.obj[q].computed = 0 /\ t.obj[q].tok = s.obj[q].tok
      /\ t.obj[q].chain = s.obj[q].chain
  <2>1. ObjOK(A, s.obj[q])
    BY <1>0 DEF Typed
  <2> QED BY <2>1, <1>5 DEF ObjOK, Restarted
<1>8. ChainOK(t.obj[q]) /\ Long(t.obj[q])
  <2>1. ChainOK(s.obj[q]) /\ Long(s.obj[q])
    BY <1>0 DEF Ledger, Book
  <2>2. \A n : Own(t.obj[q], n) = Own(s.obj[q], n)
    BY <1>7 DEF Own, PageTokens
  <2> QED BY <1>7, <2>1, <2>2 DEF ChainOK, Long
<1>9. Ledger(t, (L \ {q}) \cup {q}, F, {})
  BY <1>0, <1>1, <1>6, <1>7, <1>8, LedgerEnter
<1>10. (L \ {q}) \cup {q} = (W \cup {q}) \cup (D \ {q}) \cup F
  BY <1>0 DEF L
<1>11. ASSUME NEW x \in W \cup {q} PROVE Ready(t.obj[x])
  <2>1. CASE x = q
    <3>1. PagesFor(0) = 0
      BY PageNat DEF PagesFor
    <3> QED BY <1>7, <2>1, <3>1 DEF Ready
  <2>2. CASE x # q
    <3>1. x \in W /\ x \in Reqs
      BY <2>2, SoundReqs
    <3> QED BY <2>2, <3>1, <1>4, <1>5 DEF Sound
  <2> QED BY <2>1, <2>2
<1> QED BY <1>1, <1>9, <1>10, <1>11 DEF Sound, t

\* check_preempt.
LEMMA SoundPreempt ==
  ASSUME NEW A, NEW s, NEW W, NEW D, NEW F, Sound(A, s, W, D, F, {}), NEW need \in Nat
  PROVE  \E V : /\ Preempted(A, s, Preempt(s, need), W, D, F, V)
                /\ Sound(A, Preempt(s, need), W \cup V, D \ V, F, {})
<1> DEFINE N == Len(s.decode)
<1>0. Typed(A, s) /\ Placed(s, W, D, F)
  BY DEF Sound
<1>1. N \in Nat /\ D \subseteq Reqs
  BY <1>0, ListsIn DEF Placed, Lists
<1>2. PICK f : /\ f[0] = s
               /\ \A n \in 1 .. N : f[n] = PreemptNext(f[n - 1], need)
               /\ Preempt(s, need) = f[N]
  BY <1>1, PreemptLoop
<1> DEFINE OK(n) == \E V : /\ Preempted(A, s, f[n], W, D, F, V)
                           /\ Sound(A, f[n], W \cup V, D \ V, F, {})
           G == {n \in 0 .. N : OK(n)}
<1>3. OK(0)
  <2>1. Preempted(A, s, s, W, D, F, {})
    BY <1>0, PreemptedSelf
  <2>2. W \cup {} = W /\ D \ {} = D
    OBVIOUS
  <2> QED BY <1>2, <2>1, <2>2
<1> HIDE DEF N
<1>4. ASSUME NEW n \in 1 .. N, OK(n - 1) PROVE OK(n)
  <2> DEFINE r == f[n - 1]
             t == f[n]
  <2>1. PICK V : Preempted(A, s, r, W, D, F, V) /\ Sound(A, r, W \cup V, D \ V, F, {})
    BY <1>4
  <2>2. t = PreemptNext(r, need)
    BY <1>2
  <2> HIDE DEF r, t
  <2>3. Typed(A, r) /\ Placed(r, W \cup V, D \ V, F) /\ Lists(r.decode, D \ V)
    BY <2>1 DEF Preempted, Placed
  <2>4. CASE FreePages(r) >= need \/ r.decode = <<>>
    <3>1. t = r
      BY <2>2, <2>4 DEF PreemptNext
    <3> QED BY <2>1, <3>1 DEF t
  <2>5. CASE ~(FreePages(r) >= need \/ r.decode = <<>>)
    <3> DEFINE q == Largest(r)
    <3>1. t = PreemptOne(r, q)
      BY <2>2, <2>5 DEF PreemptNext
    <3>2. q \in D \ V
      BY <2>3, <2>5, LargestIn
    <3> HIDE DEF q
    <3>3. Preempted(A, r, t, W \cup V, D \ V, F, {q})
      BY <2>3, <3>1, <3>2, PreemptOneOK
    <3>4. Typed(A, t)
      BY <3>3 DEF Preempted
    <3>5. Preempted(A, s, t, W, D, F, V \cup {q})
      BY <1>0, <1>1, <2>1, <2>3, <3>3, <3>4, PreemptedTrans
    <3>6. Sound(A, t, (W \cup V) \cup {q}, (D \ V) \ {q}, F, {})
      BY <2>1, <3>1, <3>2, SoundPreemptOne
    <3>7. (W \cup V) \cup {q} = W \cup (V \cup {q}) /\ (D \ V) \ {q} = D \ (V \cup {q})
      OBVIOUS
    <3> QED BY <3>5, <3>6, <3>7 DEF t
  <2> QED BY <2>4, <2>5
<1> HIDE DEF OK
<1>5. 0 \in G
  BY <1>1, <1>3
<1>6. ASSUME NEW n \in 1 .. N, n - 1 \in G PROVE n \in G
  BY <1>4, <1>6
<1> HIDE DEF G
<1>7. \A n \in 0 .. N : n \in G
  BY <1>1, <1>5, <1>6, Induct, Zenon
<1>8. OK(N)
  BY <1>1, <1>7 DEF G
<1> QED BY <1>2, <1>8 DEF OK

\* The decoding requests get the pages that they want.
LEMMA LedgerPreAllocates ==
  ASSUME NEW A, NEW s, Typed(A, s), NEW taken, NEW T, Lists(taken, T),
         Len(taken) <= FreePages(s), \A x \in T : PagesWanted(s.obj[x]) <= 1,
         NEW L \in SUBSET Reqs, NEW F, Ledger(s, L, F, {}), T \subseteq L
  PROVE  Ledger(PreAllocates(s, taken), L, F, {})
<1> DEFINE N == Len(taken)
           Done(n) == {taken[i] : i \in 1 .. n}
<1>1. /\ N \in Nat /\ taken \in Seq(Reqs) /\ Injective(taken) /\ T \subseteq Reqs
      /\ FreePages(s) \in Nat /\ N <= FreePages(s)
  BY ListsIn, FreePagesNat DEF Lists
<1>2. PICK f : /\ f[0] = s
               /\ \A n \in 1 .. N : f[n] = PreAllocate(f[n - 1], taken[n])
               /\ PreAllocates(s, taken) = f[N]
  BY <1>1, PreAllocatesLoop
<1> DEFINE OK(n) ==
             /\ Typed(A, f[n]) /\ Ledger(f[n], L, F, {})
             /\ \A x \in Reqs \ Done(n) : f[n].obj[x] = s.obj[x]
             /\ FreePages(f[n]) >= FreePages(s) - n
           G == {n \in 0 .. N : OK(n)}
<1>3. OK(0)
  BY <1>1, <1>2
<1>5. ASSUME NEW n \in 1 .. N
      PROVE  /\ taken[n] \in T /\ taken[n] \in Reqs \ Done(n - 1)
             /\ Done(n) = Done(n - 1) \cup {taken[n]} /\ Done(n - 1) \subseteq Reqs
  <2>1. taken[n] \in T /\ taken[n] \in Reqs
    BY <1>1 DEF Lists
  <2>2. \A i \in 1 .. n - 1 : i \in 1 .. N /\ taken[i] # taken[n] /\ taken[i] \in Reqs
    BY <1>1 DEF Injective
  <2>3. \A i : i \in 1 .. n <=> i \in 1 .. n - 1 \/ i = n
    BY <1>1
  <2> QED BY <2>1, <2>2, <2>3
<1> HIDE DEF N, Done
<1>6. ASSUME NEW n \in 1 .. N, OK(n - 1) PROVE OK(n)
  <2> DEFINE r == f[n - 1]
             t == f[n]
             q == taken[n]
  <2>1. /\ Typed(A, r) /\ Ledger(r, L, F, {})
        /\ \A x \in Reqs \ Done(n - 1) : r.obj[x] = s.obj[x]
        /\ FreePages(r) >= FreePages(s) - (n - 1)
    BY <1>6
  <2>2. t = PreAllocate(r, q)
    BY <1>2
  <2>3. /\ q \in T /\ q \in Reqs \ Done(n - 1)
        /\ Done(n) = Done(n - 1) \cup {q} /\ Done(n - 1) \subseteq Reqs
    BY <1>5
  <2> HIDE DEF r, t, q
  <2>4. FreePages(r) \in Nat
    BY <2>1, FreePagesNat
  <2>5. r.obj[q] = s.obj[q]
    BY <2>1, <2>3
  <2>6. PagesWanted(r.obj[q]) <= 1
    BY <2>3, <2>5
  <2>7. PagesWanted(r.obj[q]) \in Nat
    BY <2>1, <2>3, WantedInt
  <2>8. PagesWanted(r.obj[q]) <= FreePages(r)
    BY <1>1, <2>1, <2>4, <2>6, <2>7
  <2>9. /\ Typed(A, t)
        /\ \A x \in Reqs \ {q} : t.obj[x] = r.obj[x]
        /\ FreePages(t) = FreePages(r) - PagesWanted(r.obj[q])
    BY <2>1, <2>2, <2>3, <2>8, PreAllocateOK
  <2>10. Ledger(t, L, F, {})
    BY <2>1, <2>2, <2>3, <2>8, LedgerPreAllocate
  <2>11. \A x \in Reqs \ Done(n) : t.obj[x] = s.obj[x]
    BY <2>1, <2>3, <2>9
  <2>13. FreePages(t) >= FreePages(s) - n
    BY <1>1, <2>1, <2>4, <2>6, <2>7, <2>9
  <2> QED BY <2>9, <2>10, <2>11, <2>13 DEF t
<1> HIDE DEF OK
<1>7. 0 \in G
  BY <1>1, <1>3
<1>8. ASSUME NEW n \in 1 .. N, n - 1 \in G PROVE n \in G
  BY <1>6, <1>8
<1> HIDE DEF G
<1>9. \A n \in 0 .. N : n \in G
  BY <1>1, <1>7, <1>8, Induct, Zenon
<1>10. OK(N)
  BY <1>1, <1>9 DEF G
<1> QED BY <1>2, <1>10 DEF OK

\* schedule_decode_batch after the preemptions.
LEMMA SoundDecodeLeft ==
  ASSUME NEW A, NEW s, NEW W, NEW D, NEW F, Sound(A, s, W, D, F, {}), NEW budget \in Nat,
         MinOf(budget, Len(s.decode)) <= FreePages(s)
  PROVE  LET r == DecodeLeft(s, budget)
         IN  /\ \E T : /\ DecodesTaken(A, s, r.sch, r.batch, W, D, F, T)
                       /\ Sound(A, r.sch, W, D \ T, F \cup T, Range(r.batch))
             /\ Len(r.batch) <= budget
<1> DEFINE n == MinOf(budget, Len(s.decode))
           taken == SubSeq(s.decode, 1, n)
           T == {s.decode[i] : i \in 1 .. n}
           u == Stepped(s, n)
           t == PreAllocates(u, taken)
           e(i) == Element(t.obj[taken[i]], taken[i], FALSE)
           b == [i \in DOMAIN taken |-> e(i)]
           L == W \cup D \cup F
<1>0. /\ Typed(A, s) /\ Placed(s, W, D, F) /\ L \in SUBSET Reqs /\ D \subseteq Reqs
      /\ D \cap F = {} /\ D \subseteq L /\ F \subseteq L
      /\ Ledger(s, L, F, {})
  BY SoundReqs DEF Sound
<1>1. n \in 0 .. Len(s.decode)
  <2>1. Len(s.decode) \in Nat
    BY <1>0 DEF Placed, Lists
  <2> QED BY <2>1, MinMax
<1> HIDE DEF n
<1>2. Len(taken) = n
  BY <1>0, <1>1 DEF Placed, Lists
<1>3. DecodeLeft(s, budget) = [sch |-> t, batch |-> b]
  BY <1>2 DEF DecodeLeft, TakeDecodes, DecodesOf, n
<1>4. /\ Typed(A, u) /\ T \subseteq D /\ Lists(taken, T)
      /\ u.pool = s.pool
      /\ \A x \in Reqs \ T : u.obj[x] = s.obj[x]
      /\ \A x \in T : /\ u.obj[x] = [s.obj[x] EXCEPT !.todo = 1]
                      /\ PagesWanted(u.obj[x]) <= 1
  <2> HIDE DEF L
  <2>1. /\ Typed(A, u) /\ T \subseteq D
        /\ Lists(taken, T) /\ Lists(u.decode, D \ T)
        /\ u.prefill = s.prefill /\ u.running = s.running /\ u.jitter = s.jitter
        /\ u.abort = s.abort /\ u.frees = s.frees /\ u.preempted = s.preempted
        /\ u.pool = s.pool
        /\ \A x \in Reqs \ T : u.obj[x] = s.obj[x]
        /\ \A x \in T : /\ u.obj[x] = [s.obj[x] EXCEPT !.todo = 1]
                        /\ PagesWanted(u.obj[x]) <= 1
    <3>1. Typed(A, s) /\ Placed(s, W, D, F)
      BY <1>0
    <3> QED BY <3>1, <1>1, SteppedOK
  <2> QED BY <2>1
<1>5. u.filled = s.filled /\ u.hitters = s.hitters /\ u.unwritten = s.unwritten
  BY <1>0 DEF Stepped, Typed, SchFields
<1> HIDE DEF T, u, taken
<1>6. Len(taken) <= FreePages(u)
  BY <1>2, <1>4 DEF FreePages, n
<1>7. /\ \E X : DecodesTaken(A, s, t, b, W, D, F, X)
      /\ Len(b) <= budget
  <2>1. LET r == DecodeLeft(s, budget)
        IN  /\ \E X : DecodesTaken(A, s, r.sch, r.batch, W, D, F, X)
            /\ Len(r.batch) <= budget
    BY <1>0, DecodeLeftOK DEF n
  <2>2. DecodeLeft(s, budget).sch = t /\ DecodeLeft(s, budget).batch = b
    BY <1>3
  <2> HIDE DEF t, b
  <2> QED BY <2>1, <2>2
<1>8. Ledger(u, L, F, {})
  <2>1. ASSUME NEW x \in L
        PROVE  /\ u.obj[x].table = s.obj[x].table /\ u.obj[x].tok = s.obj[x].tok
               /\ u.obj[x].chain = s.obj[x].chain /\ Reach(u, F, x) = Reach(s, F, x)
    <3>1. ObjOK(A, s.obj[x]) /\ x \in Reqs
      BY <1>0 DEF Typed
    <3>2. CASE x \in T
      <4>1. x \notin F /\ u.obj[x] = [s.obj[x] EXCEPT !.todo = 1]
        BY <1>0, <1>4, <3>2
      <4> QED BY <3>1, <4>1 DEF ObjOK, Reach
    <3>3. CASE x \notin T
      BY <1>4, <3>1, <3>3 DEF Reach
    <3> QED BY <3>2, <3>3
  <2>2. ASSUME NEW x \in L PROVE Extends(s.obj[x].tok, u.obj[x].tok)
    <3>1. s.obj[x].tok \in Seq(A)
      BY <1>0 DEF Typed, ObjOK
    <3> QED BY <3>1, <2>1, ExtendsSame
  <2> HIDE DEF L
  <2> QED BY <1>0, <1>4, <1>5, <2>1, <2>2, LedgerMoves
<1>9. Ledger(t, L, F, {})
  BY <1>0, <1>4, <1>6, <1>8, LedgerPreAllocates
<1>10. PICK X : DecodesTaken(A, s, t, b, W, D, F, X)
  BY <1>7
<1>11. X = T
  <2>1. IsBatch(b, X, {})
    BY <1>10 DEF DecodesTaken
  <2>2. IsBatch(b, T, {})
    BY <1>4, DecodesBatch
  <2> HIDE DEF b
  <2>3. \A q : q \in X <=> q \in T
    BY <2>1, <2>2 DEF IsBatch
  <2> QED BY <2>3
<1>12. DecodesTaken(A, s, t, b, W, D, F, T)
  BY <1>10, <1>11
<1>13. ASSUME NEW x \in Range(b)
       PROVE  /\ x.req \in T /\ x.from = t.obj[x.req].computed /\ x.todo = t.obj[x.req].todo
              /\ x.table = t.obj[x.req].table
  <2>1. PICK i \in DOMAIN taken : x = e(i)
    BY DEF Range
  <2>2. taken[i] \in T
    BY <1>4, <2>1 DEF Lists
  <2> HIDE DEF t
  <2> QED BY <2>1, <2>2 DEF Element
<1>14. ASSUME NEW q \in T PROVE \E x \in Range(b) : x.req = q
  <2>1. PICK i \in DOMAIN taken : taken[i] = q
    BY <1>4 DEF Lists
  <2>2. b[i] \in Range(b) /\ b[i].req = q
    BY <2>1 DEF Range, Element
  <2> QED BY <2>2
<1> HIDE DEF t, b
<1>15. Typed(A, t) /\ Placed(t, W, D \ T, F \cup T)
  BY <1>12 DEF DecodesTaken
<1>16. \A x \in Range(b) : RowOK(t, F \cup T, x) /\ x.req \in L
  <2> SUFFICES ASSUME NEW x \in Range(b) PROVE RowOK(t, F \cup T, x) /\ x.req \in L
    OBVIOUS
  <2>1. x.req \in T /\ x.req \in L /\ x.req \in Reqs
    BY <1>0, <1>4, <1>13
  <2>2. ObjOK(A, t.obj[x.req])
    BY <1>15, <2>1 DEF Typed
  <2> QED BY <1>13, <2>1, <2>2 DEF RowOK, ObjOK
<1>17. ASSUME NEW q \in L, NEW i \in Nat, i < Reach(t, F \cup T, q), ~Covers(Range(b), q, i)
       PROVE  i < Reach(t, F, q)
  <2>1. CASE q \notin T
    BY <1>17, <2>1 DEF Reach
  <2>2. CASE q \in T
    <3>1. PICK x \in Range(b) : x.req = q
      BY <1>14, <2>2
    <3>2. q \notin F /\ q \in Reqs
      BY <1>0, <1>4, <2>2
    <3>3. t.obj[q].computed \in Nat /\ t.obj[q].todo \in Nat
      BY <1>15, <3>2 DEF Typed, ObjOK
    <3>4. i < t.obj[q].computed + t.obj[q].todo
      BY <1>17, <2>2 DEF Reach
    <3>5. ~(x.from <= i /\ i < x.from + x.todo)
      BY <1>17, <3>1 DEF Covers
    <3>6. i < t.obj[q].computed
      BY <1>13, <3>1, <3>3, <3>4, <3>5
    <3> QED BY <3>2, <3>6 DEF Reach
  <2> QED BY <2>1, <2>2
<1>18. Ledger(t, L, F \cup T, Range(b))
  <2>1. \A q \in L : Extends(t.obj[q].tok, t.obj[q].tok)
    <3>1. \A q \in L : t.obj[q].tok \in Seq(A)
      BY <1>0, <1>15 DEF Typed, ObjOK
    <3> QED BY <3>1, ExtendsSame
  <2> HIDE DEF L
  <2> QED BY <1>0, <1>9, <1>15, <1>16, <1>17, <2>1, LedgerMoves
<1>19. L = W \cup (D \ T) \cup (F \cup T)
  BY <1>4
<1>20. ASSUME NEW x \in W PROVE Ready(t.obj[x])
  <2>1. x \in Reqs /\ x \notin D
    BY SoundReqs
  <2>2. t.obj[x] = s.obj[x]
    BY <1>4, <1>12, <2>1 DEF DecodesTaken
  <2> QED BY <2>2 DEF Sound
<1>21. Sound(A, t, W, D \ T, F \cup T, Range(b))
  BY <1>15, <1>18, <1>19, <1>20 DEF Sound
<1>22. DecodeLeft(s, budget).sch = t /\ DecodeLeft(s, budget).batch = b
  BY <1>3
<1>23. \E Y : DecodesTaken(A, s, t, b, W, D, F, Y) /\ Sound(A, t, W, D \ Y, F \cup Y, Range(b))
  BY <1>12, <1>21
<1> QED BY <1>7, <1>22, <1>23

\* schedule_decode_batch.
LEMMA SoundDecodeBatch ==
  ASSUME NEW A, NEW s, NEW W, NEW D, NEW F, Sound(A, s, W, D, F, {}), NEW budget \in Nat
  PROVE  LET r == DecodeBatch(s, budget)
         IN  \E V, T, m : /\ Preempted(A, s, m, W, D, F, V)
                          /\ DecodesTaken(A, m, r.sch, r.batch, W \cup V, D \ V, F, T)
                          /\ Sound(A, r.sch, W \cup V, (D \ V) \ T, F \cup T, Range(r.batch))
<1> DEFINE need == MinOf(budget, Len(s.decode))
           m == Preempt(s, need)
<1>0. Typed(A, s) /\ Placed(s, W, D, F)
  BY DEF Sound
<1>1. Len(s.decode) \in Nat
  BY <1>0 DEF Placed, Lists
<1>2. need \in Nat /\ need <= budget /\ need <= Len(s.decode)
  BY <1>1, MinMax
<1>3. need \in {budget, Len(s.decode)}
  BY <1>1, MinMax
<1> HIDE DEF need
<1>4. FreePages(m) >= need \/ m.decode = <<>>
  BY <1>0, <1>2, PreemptOK
<1>5. PICK V : Preempted(A, s, m, W, D, F, V) /\ Sound(A, m, W \cup V, D \ V, F, {})
  BY <1>2, SoundPreempt
<1>6. DecodeBatch(s, budget) = DecodeLeft(m, budget)
  BY DEF DecodeBatch, need
<1> HIDE DEF m
<1>7. Typed(A, m) /\ Placed(m, W \cup V, D \ V, F)
  BY <1>5 DEF Preempted
<1>8. FreePages(m) \in Nat /\ Len(m.decode) \in Nat
  BY <1>7, FreePagesNat DEF Placed, Lists
<1>9. Len(m.decode) <= Len(s.decode)
  <2>1. Lists(m.decode, D \ V) /\ Lists(s.decode, D)
    BY <1>0, <1>7 DEF Placed
  <2>2. IsFiniteSet(D) /\ Cardinality(D) = Len(s.decode)
    BY <2>1, ListsSize
  <2>3. IsFiniteSet(D \ V) /\ Cardinality(D \ V) = Len(m.decode)
    BY <2>1, ListsSize
  <2>4. Cardinality(D \ V) <= Cardinality(D)
    BY <2>2, FS_Subset
  <2> QED BY <2>2, <2>3, <2>4
<1>10. MinOf(budget, Len(m.decode)) <= FreePages(m)
  <2>1. CASE m.decode = <<>>
    BY <1>8, <2>1, MinMax
  <2>2. CASE FreePages(m) >= need
    <3>1. MinOf(budget, Len(m.decode)) \in Nat
      BY <1>8, MinMax
    <3>2. MinOf(budget, Len(m.decode)) <= need
      BY <1>1, <1>3, <1>8, <1>9, MinMax
    <3> QED BY <1>2, <1>8, <2>2, <3>1, <3>2
  <2> QED BY <1>4, <2>1, <2>2
<1>11. \E T : LET r == DecodeLeft(m, budget)
              IN  /\ DecodesTaken(A, m, r.sch, r.batch, W \cup V, D \ V, F, T)
                  /\ Sound(A, r.sch, W \cup V, (D \ V) \ T, F \cup T, Range(r.batch))
  BY <1>5, <1>10, SoundDecodeLeft
<1> QED BY <1>5, <1>6, <1>11

\* Tokens that fit into k pages want at most k pages.
LEMMA PagesForFit ==
  ASSUME NEW n \in Nat, NEW k \in Nat, n <= PageSize * k
  PROVE  PagesFor(n) <= k
<1> DEFINE m == PagesFor(n)
<1>1. n + PageSize - 1 \in Nat
  BY PageNat
<1>2. m \in Nat /\ PageSize * m <= n + PageSize - 1
  BY <1>1, PageNat, DivBounds DEF PagesFor
<1> HIDE DEF m
<1>3. PageSize * (k + 1) = PageSize * k + PageSize
  BY PageNat
<1>4. PageSize * m < PageSize * (k + 1)
  <2>1. PageSize * m \in Nat /\ PageSize * k \in Nat
    BY <1>2, PageNat, ProductNat
  <2> QED BY <2>1, <1>2, <1>3, PageNat
<1>5. m < k + 1
  BY <1>2, <1>4, PageNat, ProductMono
<1> QED BY <1>2, <1>5 DEF m

\* A batch determines who is in it.
LEMMA BatchUnique ==
  ASSUME NEW b, NEW B, NEW U, IsBatch(b, B, U), NEW B2, NEW U2, IsBatch(b, B2, U2)
  PROVE  B = B2 /\ U = U2
<1>1. \A q : (q \in B <=> q \in B2) /\ (q \in U <=> q \in U2)
  BY DEF IsBatch
<1> QED BY <1>1

\* The cached prefix of a request that has nothing computed, which is in no batch.
LEMMA LedgerLookUp ==
  ASSUME NEW A, NEW s, Typed(A, s), NEW L \in SUBSET Reqs, NEW F, NEW E, Ledger(s, L, F, E),
         NEW q \in L, q \notin F, s.obj[q].table = <<>>, \A e \in E : e.req # q,
         NoHash \notin Seq(Seq(A))
  PROVE  Ledger(LookUp(s, q), L, F, E) /\ Ready(LookUp(s, q).obj[q])
<1> DEFINE t == LookUp(s, q)
<1>0. Book(s, L) /\ Long(s.obj[q]) /\ q \in Reqs
  BY DEF Ledger
<1>1. /\ Typed(A, t) /\ \A x \in Reqs \ {q} : t.obj[x] = s.obj[x]
      /\ t.obj[q].tok = s.obj[q].tok
  BY <1>0, LookUpOK
<1>2. /\ Book(t, L) /\ t.filled = s.filled /\ t.unwritten = s.unwritten
      /\ s.hitters \subseteq t.hitters
      /\ q \in t.hitters \/ (t.obj[q].table = <<>> /\ t.obj[q].computed = 0)
      /\ t.obj[q].computed <= PageSize * Len(t.obj[q].table)
      /\ t.obj[q].computed = 0 =>
           t.obj[q].table = <<>> \/ (PageSize = 1 /\ Len(s.obj[q].tok) = 1)
  BY <1>0, BookLookUp
<1> HIDE DEF t
<1>3. ObjOK(A, t.obj[q])
  BY <1>0, <1>1 DEF Typed
<1>4. Ready(t.obj[q])
  <2>1. PagesFor(t.obj[q].computed) <= Len(t.obj[q].table)
    <3>1. t.obj[q].computed \in Nat /\ Len(t.obj[q].table) \in Nat
      BY <1>3 DEF ObjOK
    <3> QED BY <3>1, <1>2, PagesForFit
  <2>2. ~(PageSize = 1 /\ Len(s.obj[q].tok) = 1)
    <3> SUFFICES ASSUME PageSize = 1, Len(s.obj[q].tok) = 1 PROVE FALSE
      OBVIOUS
    <3>1. PageSize > 1 \/ Len(s.obj[q].tok) > 1
      BY <1>0 DEF Long
    <3>2. CASE PageSize > 1
      BY <3>2
    <3>3. CASE Len(s.obj[q].tok) > 1
      BY <3>3
    <3> QED BY <3>1, <3>2, <3>3
  <2> QED BY <2>1, <2>2, <1>2 DEF Ready
<1>5. ASSUME NEW x \in L \ t.hitters, NEW i \in Nat, i < Reach(t, F, x)
      PROVE  KeepsPages(s, t, x) /\ i < Reach(s, F, x)
  <2>1. CASE x = q
    <3>1. Reach(t, F, x) = 0
      BY <1>2, <2>1 DEF Reach
    <3> QED BY <1>5, <3>1
  <2>2. CASE x # q
    <3>1. t.obj[x] = s.obj[x] /\ s.obj[x].table \in Seq(Pages)
      BY <1>1, <2>2 DEF Typed, ObjOK
    <3> QED BY <1>2, <1>5, <3>1, ExtendsSelf DEF KeepsPages, Reach
  <2> QED BY <2>1, <2>2
<1>6. \A e \in E : RowOK(t, F, e)
  BY <1>1 DEF Ledger, Kv, RowOK
<1>7. DOMAIN t.filled = Pages
  BY <1>2 DEF Ledger, Kv
<1>8. Kv(t, L, F, E)
  BY <1>1, <1>2, <1>5, <1>6, <1>7, KvFrame DEF Ledger
<1>9. \A x \in L : Long(t.obj[x])
  BY <1>1 DEF Ledger, Long
<1> QED BY <1>2, <1>4, <1>8, <1>9 DEF Ledger, t

TodoSet(A, s, L, F, E, q, d) ==
  LET t == [s EXCEPT !.obj[q].todo = d]
  IN  Typed(A, t) /\ Ledger(t, L, F, E) /\ Ready(t.obj[q])

\* How many tokens of a request are computed next is of no account before the request
\* is in a batch.
LEMMA LedgerTodo ==
  ASSUME NEW A, NEW s, Typed(A, s), NEW L \in SUBSET Reqs, NEW F, NEW E, Ledger(s, L, F, E),
         NEW q \in L, q \notin F, \A e \in E : e.req # q, Ready(s.obj[q]), NEW d \in Nat
  PROVE  TodoSet(A, s, L, F, E, q, d)
<1> DEFINE t == [s EXCEPT !.obj[q].todo = d]
           o == s.obj[q]
           p == [o EXCEPT !.todo = d]
<1>1. ObjOK(A, o) /\ q \in Reqs
  BY DEF Typed
<1>2. t = [s EXCEPT !.obj[q] = p]
  OBVIOUS
<1>3. /\ p.tok = o.tok /\ p.table = o.table /\ p.computed = o.computed /\ p.chain = o.chain
      /\ ObjOK(A, p)
  BY <1>1 DEF ObjOK
<1> HIDE DEF p, t
<1>4. /\ DOMAIN t = SchFields /\ DOMAIN t.obj = Reqs /\ t.pool = s.pool
      /\ t.filled = s.filled /\ t.hitters = s.hitters /\ t.unwritten = s.unwritten
      /\ t.jitter = s.jitter /\ t.running = s.running /\ t.frees = s.frees
      /\ t.obj[q] = p /\ \A x \in Reqs \ {q} : t.obj[x] = s.obj[x]
  BY <1>2 DEF Typed, SchFields
<1>5. Typed(A, t)
  BY <1>3, <1>4 DEF Typed
<1>6. ASSUME NEW e \in E PROVE RowOK(t, F, e) /\ e.req \in L
  BY <1>4 DEF Ledger, Kv, RowOK
<1>7. ASSUME NEW x \in L
      PROVE  /\ t.obj[x].table = s.obj[x].table /\ t.obj[x].tok = s.obj[x].tok
             /\ t.obj[x].chain = s.obj[x].chain /\ Reach(t, F, x) = Reach(s, F, x)
  <2>1. CASE x = q
    BY <1>3, <1>4, <2>1 DEF Reach
  <2>2. CASE x # q
    BY <1>4, <2>2 DEF Reach
  <2> QED BY <2>1, <2>2
<1>8. ASSUME NEW x \in L PROVE Extends(s.obj[x].tok, t.obj[x].tok)
  <2>1. s.obj[x].tok \in Seq(A)
    BY DEF Typed, ObjOK
  <2> QED BY <2>1, <1>7, ExtendsSame
<1>9. Ledger(t, L, F, E)
  BY <1>4, <1>5, <1>6, <1>7, <1>8, LedgerMoves
<1>10. Ready(t.obj[q])
  BY <1>3, <1>4 DEF Ready
<1> QED BY <1>5, <1>9, <1>10 DEF t, TodoSet

\* The head of the queue is looked up, and as many of its tokens are taken as fit.
LEMMA LedgerFound ==
  ASSUME NEW A, NEW r, Typed(A, r), NEW L \in SUBSET Reqs, NEW F, NEW E, Ledger(r, L, F, E),
         NEW q \in L, q \notin F, \A e \in E : e.req # q, Ready(r.obj[q]), Waits(r.obj[q]),
         NoHash \notin Seq(Seq(A)), NEW budget \in Nat \ {0}
  PROVE  LET l == IF r.obj[q].computed = 0 THEN LookUp(r, q) ELSE r
             u == [l EXCEPT !.obj[q].todo =
                     MinOf(Len(l.obj[q].tok) - l.obj[q].computed, budget)]
         IN  Ledger(u, L, F, E) /\ Ready(u.obj[q])
<1> DEFINE l == IF r.obj[q].computed = 0 THEN LookUp(r, q) ELSE r
           d == MinOf(Len(l.obj[q].tok) - l.obj[q].computed, budget)
<1>0. q \in Reqs
  OBVIOUS
<1>1. Typed(A, l) /\ Ledger(l, L, F, E) /\ Ready(l.obj[q]) /\ l.obj[q].computed < Len(l.obj[q].tok)
  <2>1. CASE r.obj[q].computed = 0
    <3>1. r.obj[q].table = <<>>
      BY <2>1 DEF Ready
    <3>2. l = LookUp(r, q)
      BY <2>1
    <3> HIDE DEF l
    <3> QED BY <3>1, <3>2, LedgerLookUp, LookUpOK
  <2>2. CASE r.obj[q].computed # 0
    <3>1. l = r
      BY <2>2
    <3> HIDE DEF l
    <3> QED BY <3>1 DEF Waits
  <2> QED BY <2>1, <2>2
<1> HIDE DEF l
<1>2. d \in Nat
  <2>1. ObjOK(A, l.obj[q])
    BY <1>1 DEF Typed
  <2>2. Len(l.obj[q].tok) - l.obj[q].computed \in Nat
    BY <1>1, <2>1 DEF ObjOK
  <2> QED BY <2>2, MinMax
<1> HIDE DEF d
<1>3. LET u == [l EXCEPT !.obj[q].todo = d] IN Ledger(u, L, F, E) /\ Ready(u.obj[q])
  BY <1>1, <1>2, LedgerTodo DEF TodoSet
<1> QED BY <1>3 DEF l, d

-----------------------------------------------------------------------------
(* The accounts while the prefill queue W is gone through: B is in the batch, and E0 *)
(* are the rows of the decodes before it.                                            *)

AccSound(acc, L, W, F, B, E0) ==
  /\ Ledger(acc.sch, L, F \cup B, E0 \cup Range(acc.batch))
  /\ \A x \in W \ B : Ready(acc.sch.obj[x])

AdmittedAs(t, u, L, F, E, q) ==
  LET o == u.obj[q]
      part == o.computed + o.todo < o.prompt
      e == Element(o, q, part)
  IN  /\ part => Ledger(t, L, F, E \cup {e}) /\ Ready(t.obj[q])
      /\ ~part => Ledger(t, L, F \cup {q}, E \cup {e})
      /\ \A x \in Reqs \ {q} : t.obj[x] = u.obj[x]

\* The head is in the batch: its row is e, and a chunk that is not the last counts as
\* computed.
LEMMA LedgerAdmitted ==
  ASSUME NEW A, NEW u, Typed(A, u), NEW L \in SUBSET Reqs, NEW F, NEW E, Ledger(u, L, F, E),
         NEW q \in L, q \notin F, \A e \in E : e.req # q,
         u.obj[q].todo \in Nat \ {0},
         u.obj[q].computed + u.obj[q].todo <= Len(u.obj[q].tok),
         PagesFor(u.obj[q].computed + u.obj[q].todo) <= Len(u.obj[q].table),
         NEW acc, NEW t, Typed(A, t), t = Admitted(acc, u, q).sch,
         DOMAIN acc = {"sch", "budget", "batch", "unfinished", "queue", "stop"}
  PROVE  AdmittedAs(t, u, L, F, E, q)
<1> DEFINE o == u.obj[q]
           part == o.computed + o.todo < o.prompt
           e == Element(o, q, part)
           p == [o EXCEPT !.computed = @ + o.todo, !.chain = <<>>]
<1>1. t = IF part THEN [u EXCEPT !.obj[q] = p] ELSE u
  BY DEF Admitted
<1>2. ObjOK(A, o) /\ q \in Reqs /\ o.computed \in Nat /\ o.todo \in Nat \ {0}
  BY DEF Typed, ObjOK
<1> HIDE DEF o
<1>3. /\ e.req = q /\ e.from = o.computed /\ e.todo = o.todo /\ e.table = o.table
  BY DEF Element
<1>4. /\ p.tok = o.tok /\ p.computed = o.computed + o.todo /\ p.table = o.table
      /\ p.chain = <<>>
  BY <1>2 DEF ObjOK
<1> HIDE DEF e, p
<1>5. CASE part
  <2>1. t = [u EXCEPT !.obj[q] = p]
    BY <1>1, <1>5
  <2>2. /\ t.pool = u.pool /\ t.filled = u.filled /\ t.hitters = u.hitters
        /\ t.unwritten = u.unwritten /\ t.obj[q] = p
        /\ \A x \in Reqs \ {q} : t.obj[x] = u.obj[x]
    BY <2>1, <1>2 DEF Typed, SchFields
  <2>3. ASSUME NEW x \in E \cup {e} PROVE RowOK(t, F, x) /\ x.req \in L
    <3>1. CASE x \in E
      <4>1. RowOK(u, F, x) /\ x.req \in L /\ x.req # q
        BY <3>1 DEF Ledger, Kv
      <4> QED BY <4>1, <2>2 DEF RowOK
    <3>2. CASE x = e
      BY <3>2, <1>2, <1>3, <1>4, <2>2 DEF RowOK
    <3> QED BY <3>1, <3>2
  <2>4. ChainOK(t.obj[q])
    <3>1. ObjOK(A, t.obj[q])
      BY <1>2 DEF Typed
    <3> QED BY <3>1, <1>4, <2>2, ChainNone
  <2>5. ASSUME NEW x \in L
        PROVE  /\ t.obj[x].table = u.obj[x].table /\ t.obj[x].tok = u.obj[x].tok
               /\ t.obj[x].chain = u.obj[x].chain \/ ChainOK(t.obj[x])
    BY <1>4, <2>2, <2>4 DEF o
  <2>6. ASSUME NEW x \in L PROVE Extends(u.obj[x].tok, t.obj[x].tok)
    <3>1. u.obj[x].tok \in Seq(A)
      BY DEF Typed, ObjOK
    <3> QED BY <3>1, <2>5, ExtendsSame
  <2>7. ASSUME NEW x \in L, NEW i \in Nat, i < Reach(t, F, x)
        PROVE  Covers(E \cup {e}, x, i) \/ i < Reach(u, F, x)
    <3>1. CASE x = q
      <4>1. i < o.computed + o.todo
        BY <1>4, <2>2, <2>7, <3>1 DEF Reach
      <4>2. CASE i < o.computed
        BY <3>1, <4>2 DEF Reach, o
      <4>3. CASE ~(i < o.computed)
        <5>1. e.req = x /\ e.from <= i /\ i < e.from + e.todo
          BY <1>2, <1>3, <3>1, <4>1, <4>3
        <5> QED BY <5>1 DEF Covers
      <4> QED BY <4>2, <4>3
    <3>2. CASE x # q
      BY <2>2, <2>7, <3>2 DEF Reach
    <3> QED BY <3>1, <3>2
  <2>8. Ledger(t, L, F, E \cup {e})
    BY <2>2, <2>3, <2>5, <2>6, <2>7, LedgerMoves
  <2>9. Ready(t.obj[q])
    BY <1>2, <1>4, <2>2 DEF Ready, o
  <2> QED BY <1>5, <2>2, <2>8, <2>9 DEF o, e, AdmittedAs
<1>6. CASE ~part
  <2>1. t = u
    BY <1>1, <1>6
  <2>3. ASSUME NEW x \in E \cup {e} PROVE RowOK(t, F \cup {q}, x) /\ x.req \in L
    <3>1. CASE x \in E
      <4>1. RowOK(u, F, x) /\ x.req \in L /\ x.req # q
        BY <3>1 DEF Ledger, Kv
      <4> QED BY <4>1, <2>1 DEF RowOK
    <3>2. CASE x = e
      BY <3>2, <1>2, <1>3, <2>1 DEF RowOK, o
    <3> QED BY <3>1, <3>2
  <2>6. ASSUME NEW x \in L PROVE Extends(u.obj[x].tok, t.obj[x].tok)
    <3>1. u.obj[x].tok \in Seq(A)
      BY DEF Typed, ObjOK
    <3> QED BY <3>1, <2>1, ExtendsSame
  <2>7. ASSUME NEW x \in L, NEW i \in Nat, i < Reach(t, F \cup {q}, x)
        PROVE  Covers(E \cup {e}, x, i) \/ i < Reach(u, F, x)
    <3>1. CASE x = q
      <4>1. i < o.computed + o.todo
        BY <2>1, <2>7, <3>1 DEF Reach, o
      <4>2. CASE i < o.computed
        BY <3>1, <4>2 DEF Reach, o
      <4>3. CASE ~(i < o.computed)
        <5>1. e.req = x /\ e.from <= i /\ i < e.from + e.todo
          BY <1>2, <1>3, <3>1, <4>1, <4>3
        <5> QED BY <5>1 DEF Covers
      <4> QED BY <4>2, <4>3
    <3>2. CASE x # q
      BY <2>1, <2>7, <3>2 DEF Reach
    <3> QED BY <3>1, <3>2
  <2>8. Ledger(t, L, F \cup {q}, E \cup {e})
    BY <2>1, <2>3, <2>6, <2>7, LedgerMoves
  <2> QED BY <1>6, <2>1, <2>8 DEF o, e, AdmittedAs
<1> QED BY <1>5, <1>6

\* The rows of a batch are of its requests.
LEMMA BatchRows ==
  ASSUME NEW b, NEW B, NEW U, IsBatch(b, B, U)
  PROVE  /\ DOMAIN b = 1 .. Len(b) /\ Len(b) \in Nat
         /\ \A e \in Range(b) : /\ e.req \in Reqs /\ e.part \in BOOLEAN
                                /\ IF e.part THEN e.req \in U ELSE e.req \in B
<1>1. PICK S : b \in Seq(S)
  BY DEF IsBatch, IsSeq
<1>2. DOMAIN b = 1 .. Len(b) /\ Len(b) \in Nat
  BY <1>1
<1>3. ASSUME NEW e \in Range(b)
      PROVE  /\ e.req \in Reqs /\ e.part \in BOOLEAN
             /\ IF e.part THEN e.req \in U ELSE e.req \in B
  <2>1. PICK i \in 1 .. Len(b) : e = b[i]
    BY <1>2 DEF Range
  <2> QED BY <2>1 DEF IsBatch
<1> QED BY <1>2, <1>3

\* One row more.
LEMMA RangeMore ==
  ASSUME NEW b, IsSeq(b), NEW e
  PROVE  Range(Append(b, e)) = Range(b) \cup {e}
<1>1. PICK S : b \in Seq(S)
  BY DEF IsSeq
<1>2. /\ DOMAIN b = 1 .. Len(b) /\ Len(b) \in Nat
      /\ DOMAIN Append(b, e) = 1 .. Len(b) + 1
      /\ Append(b, e)[Len(b) + 1] = e
      /\ \A i \in 1 .. Len(b) : Append(b, e)[i] = b[i]
  <2>1. b \in Seq(S \cup {e})
    BY <1>1
  <2> QED BY <2>1
<1>3. \A i : i \in 1 .. Len(b) + 1 <=> i \in 1 .. Len(b) \/ i = Len(b) + 1
  BY <1>2
<1>4. ASSUME NEW x PROVE x \in Range(Append(b, e)) <=> x \in Range(b) \cup {e}
  <2>1. x \in Range(Append(b, e)) <=> \E i \in 1 .. Len(b) + 1 : x = Append(b, e)[i]
    BY <1>2 DEF Range
  <2>2. x \in Range(b) <=> \E i \in 1 .. Len(b) : x = b[i]
    BY <1>2 DEF Range
  <2> QED BY <2>1, <2>2, <1>2, <1>3
<1> QED BY <1>4

\* One round of schedule_prefill_batch.
LEMMA SoundPrefillNext ==
  ASSUME NEW A, NEW s, Typed(A, s), NEW acc, NEW X, NEW B, NEW U, NEW K,
         AccOK(A, s, acc, X, B, U, K), NEW q \in Reqs \ X, Waits(s.obj[q]),
         NEW room, NEW reserve \in Nat,
         NEW L \in SUBSET Reqs, NEW W \in SUBSET L, NEW F, NEW E0,
         AccSound(acc, L, W, F, B, E0), q \in W, X \subseteq W, F \cap W = {},
         \A e \in E0 : e.req \notin W, NoHash \notin Seq(Seq(A))
  PROVE  \E B2, U2, K2 :
           /\ AccOK(A, s, PrefillNext(acc, q, room, reserve), X \cup {q}, B2, U2, K2)
           /\ AccSound(PrefillNext(acc, q, room, reserve), L, W, F, B2, E0)
<1> DEFINE r == acc.sch
           l == IF r.obj[q].computed = 0 THEN LookUp(r, q) ELSE r
           u == [l EXCEPT !.obj[q].todo =
                   MinOf(Len(l.obj[q].tok) - l.obj[q].computed, acc.budget)]
           t == PreAllocate(u, q)
           E == E0 \cup Range(acc.batch)
<1>0. /\ q \in L /\ q \in Reqs /\ q \notin F /\ q \notin B /\ q \notin F \cup B
      /\ IsBatch(acc.batch, B, U) /\ Typed(A, r) /\ r.obj[q] = s.obj[q]
      /\ DOMAIN acc = {"sch", "budget", "batch", "unfinished", "queue", "stop"}
      /\ Ledger(r, L, F \cup B, E) /\ \A x \in W \ B : Ready(r.obj[x])
      /\ acc.budget \in Nat /\ B \subseteq X /\ U \subseteq X
  BY DEF AccOK, AccSound
<1>1. \A e \in E : e.req # q
  <2>1. \A e \in Range(acc.batch) : e.req \in X
    BY <1>0, BatchRows
  <2> QED BY <2>1
<1> HIDE DEF E
<1>2. CASE acc.stop \/ acc.budget = 0 \/ Len(acc.batch) >= room
  <2> DEFINE new == [acc EXCEPT !.queue = Append(@, q)]
  <2>1. PrefillNext(acc, q, room, reserve) = new
    BY <1>2 DEF PrefillNext
  <2>2. AccOK(A, s, new, X \cup {q}, B, U, K \cup {q})
    BY SkippedOK
  <2>3. new.sch = acc.sch /\ new.batch = acc.batch
    BY <1>0
  <2> HIDE DEF new, r, l, u, t
  <2>4. AccSound(new, L, W, F, B, E0)
    BY <2>3 DEF AccSound
  <2>5. \E B2, U2, K2 : AccOK(A, s, new, X \cup {q}, B2, U2, K2) /\ AccSound(new, L, W, F, B2, E0)
    BY <2>2, <2>4
  <2> QED BY <2>1, <2>5
<1>3. CASE ~(acc.stop \/ acc.budget = 0 \/ Len(acc.batch) >= room)
  <2>1. PrefillNext(acc, q, room, reserve) = AdmitSized(acc, u, q, reserve)
    BY <1>3 DEF PrefillNext, AdmitOne, AdmitFound
  <2>2. acc.budget \in Nat \ {0} /\ Waits(r.obj[q]) /\ Ready(r.obj[q])
    BY <1>0, <1>3
  <2>3. /\ Typed(A, u) /\ Frame(r, u)
        /\ \A x \in Reqs \ {q} : u.obj[x] = r.obj[x]
        /\ Fed(r.obj[q], u.obj[q])
        /\ u.obj[q].todo \in Nat \ {0} /\ u.obj[q].todo <= acc.budget
        /\ u.obj[q].computed < Len(u.obj[q].tok)
        /\ u.obj[q].computed + u.obj[q].todo <= Len(u.obj[q].tok)
    BY <1>0, <2>2, FoundOK
  <2>4. Ledger(u, L, F \cup B, E) /\ Ready(u.obj[q])
    <3>1. PICK FB : FB = F \cup B
      OBVIOUS
    <3>2. PICK m : m = acc.budget
      OBVIOUS
    <3>3. PICK r1 : r1 = r
      OBVIOUS
    <3>4. /\ Typed(A, r1) /\ Ledger(r1, L, FB, E) /\ q \in L /\ q \notin FB
          /\ Ready(r1.obj[q]) /\ Waits(r1.obj[q]) /\ m \in Nat \ {0}
      BY <1>0, <2>2, <3>1, <3>2, <3>3
    <3> DEFINE l1 == IF r1.obj[q].computed = 0 THEN LookUp(r1, q) ELSE r1
               u1 == [l1 EXCEPT !.obj[q].todo =
                        MinOf(Len(l1.obj[q].tok) - l1.obj[q].computed, m)]
    <3>5. Ledger(u1, L, FB, E) /\ Ready(u1.obj[q])
      <4> HIDE DEF r, l, u, t
      <4> QED BY <1>1, <3>4, LedgerFound
    <3>6. u1 = u
      BY <3>2, <3>3
    <3> HIDE DEF u1, u
    <3> QED BY <3>1, <3>5, <3>6
  <2> HIDE DEF u, l
  <2>5. CASE PagesWanted(u.obj[q]) <= FreePages(u) - reserve
    <3> DEFINE new == Admitted(acc, t, q)
               o == t.obj[q]
               part == o.computed + o.todo < o.prompt
               e == Element(o, q, part)
    <3>1. PrefillNext(acc, q, room, reserve) = new
      BY <2>1, <2>5 DEF AdmitSized
    <3>2. PagesWanted(u.obj[q]) <= FreePages(u)
      <4>1. FreePages(u) \in Nat
        BY <2>3, FreePagesNat
      <4>2. PagesWanted(u.obj[q]) \in Int
        BY <2>3, WantedInt, <1>0
      <4> QED BY <2>5, <4>1, <4>2
    <3>3. /\ Typed(A, t) /\ Around(u, t)
          /\ \A x \in Reqs \ {q} : t.obj[x] = u.obj[x]
          /\ PagesFor(t.obj[q].computed + t.obj[q].todo) <= Len(t.obj[q].table)
      BY <1>0, <2>3, <3>2, PreAllocateOK
    <3>4. Ledger(t, L, F \cup B, E)
      BY <1>0, <1>1, <2>3, <2>4, <3>2, LedgerPreAllocate
    <3> HIDE DEF t
    <3>5. Grown(u.obj[q], t.obj[q])
      BY <1>0, <3>3 DEF Around
    <3>6. \E B2, U2 : AccOK(A, s, new, X \cup {q}, B2, U2, K)
      <4>1. Fed(r.obj[q], t.obj[q])
        <5>1. ObjOK(A, r.obj[q]) /\ ObjOK(A, u.obj[q]) /\ ObjOK(A, t.obj[q])
          BY <1>0, <2>3, <3>3 DEF Typed
        <5>2. CASE r.obj[q].computed = 0
          BY <2>3, <3>5, <5>2 DEF Fed, Grown
        <5>3. CASE Extends(r.obj[q].table, u.obj[q].table)
          <6>1. Extends(r.obj[q].table, t.obj[q].table)
            BY <3>5, <5>1, <5>3, ExtendsTrans DEF Grown, ObjOK
          <6> QED BY <2>3, <3>5, <6>1 DEF Fed, Grown
        <5> QED BY <2>3, <5>2, <5>3 DEF Fed
      <4>2. Frame(r, t)
        BY <2>3, <3>3 DEF Frame, Around
      <4>3. /\ t.obj[q].todo \in Nat \ {0} /\ t.obj[q].todo <= acc.budget
            /\ t.obj[q].computed + t.obj[q].todo <= Len(t.obj[q].tok)
            /\ \A x \in Reqs \ {q} : t.obj[x] = r.obj[x]
        BY <2>3, <3>3, <3>5 DEF Grown
      <4> HIDE DEF r, new
      <4> QED BY <3>3, <4>1, <4>2, <4>3, AdmittedOK DEF r, new
    <3>7. PICK B2, U2 : AccOK(A, s, new, X \cup {q}, B2, U2, K)
      BY <3>6
    <3>8. new.batch = Append(acc.batch, e) /\ e.req = q /\ e.part = part /\ part \in BOOLEAN
      BY <1>0 DEF Admitted, Element
    <3>9. IF part THEN B2 = B ELSE B2 = B \cup {q}
      <4> HIDE DEF e, part, new
      <4>1. e.req \in Reqs /\ e.part \in BOOLEAN /\ e.req \notin B /\ e.req \notin U
        BY <1>0, <3>8
      <4>2. /\ e.part => IsBatch(Append(acc.batch, e), B, U \cup {e.req})
            /\ ~e.part => IsBatch(Append(acc.batch, e), B \cup {e.req}, U)
        BY <1>0, <4>1, BatchAppend
      <4>3. IsBatch(new.batch, B2, U2)
        BY <3>7 DEF AccOK
      <4>4. CASE part
        BY <3>8, <4>2, <4>3, <4>4, BatchUnique
      <4>5. CASE ~part
        BY <3>8, <4>2, <4>3, <4>5, BatchUnique
      <4> QED BY <4>4, <4>5
    <3>10. Typed(A, new.sch)
      BY <3>7 DEF AccOK
    <3>11. /\ t.obj[q].todo \in Nat \ {0}
           /\ t.obj[q].computed + t.obj[q].todo <= Len(t.obj[q].tok)
      BY <2>3, <3>5 DEF Grown
    <3>12. /\ part => Ledger(new.sch, L, F \cup B, E \cup {e}) /\ Ready(new.sch.obj[q])
           /\ ~part => Ledger(new.sch, L, (F \cup B) \cup {q}, E \cup {e})
           /\ \A x \in Reqs \ {q} : new.sch.obj[x] = t.obj[x]
      <4>1. PICK FB : FB = F \cup B
        OBVIOUS
      <4>2. PICK w : w = new.sch
        OBVIOUS
      <4>3. PICK t1 : t1 = t
        OBVIOUS
      <4>4. new.sch = Admitted(acc, t1, q).sch
        BY <4>3
      <4>5. /\ Typed(A, t1) /\ Ledger(t1, L, FB, E) /\ q \notin FB /\ q \in L
            /\ t1.obj[q].todo \in Nat \ {0}
            /\ t1.obj[q].computed + t1.obj[q].todo <= Len(t1.obj[q].tok)
            /\ PagesFor(t1.obj[q].computed + t1.obj[q].todo) <= Len(t1.obj[q].table)
            /\ Typed(A, w) /\ w = Admitted(acc, t1, q).sch
        <5> HIDE DEF new, e, part, o
        <5> QED BY <1>0, <3>3, <3>4, <3>10, <3>11, <4>1, <4>2, <4>3, <4>4
      <4> DEFINE o1 == t1.obj[q]
                 part1 == o1.computed + o1.todo < o1.prompt
                 e1 == Element(o1, q, part1)
      <4>6. /\ part1 => Ledger(w, L, FB, E \cup {e1}) /\ Ready(w.obj[q])
            /\ ~part1 => Ledger(w, L, FB \cup {q}, E \cup {e1})
            /\ \A x \in Reqs \ {q} : w.obj[x] = t1.obj[x]
        <5> HIDE DEF new, e, part, o, r, l
        <5>1. DOMAIN acc = {"sch", "budget", "batch", "unfinished", "queue", "stop"}
          BY <1>0
        <5>2. AdmittedAs(w, t1, L, FB, E, q)
          BY <1>1, <4>5, <5>1, LedgerAdmitted
        <5> QED BY <5>2 DEF AdmittedAs
      <4>7. part1 = part /\ e1 = e
        BY <4>3
      <4> HIDE DEF new, e, part, o, e1, part1, o1
      <4> QED BY <4>1, <4>2, <4>3, <4>6, <4>7
    <3> HIDE DEF e, part, new, o
    <3>13. E \cup {e} = E0 \cup Range(new.batch)
      BY <1>0, <3>8, RangeMore DEF E, IsBatch
    <3>14. ASSUME NEW x \in W \ B2 PROVE Ready(new.sch.obj[x])
      <4>1. CASE x = q
        BY <3>9, <3>12, <3>14, <4>1
      <4>2. CASE x # q
        <5>1. x \in W \ B /\ x \in Reqs
          BY <3>9, <3>14, <4>2
        <5> QED BY <5>1, <4>2, <1>0, <2>3, <3>3, <3>12
      <4> QED BY <4>1, <4>2
    <3>15. Ledger(new.sch, L, F \cup B2, E0 \cup Range(new.batch))
      <4>1. CASE part
        BY <3>9, <3>12, <3>13, <4>1
      <4>2. CASE ~part
        <5>1. (F \cup B) \cup {q} = F \cup B2
          BY <3>9, <4>2
        <5> QED BY <3>12, <3>13, <4>2, <5>1
      <4> QED BY <4>1, <4>2
    <3>16. AccSound(new, L, W, F, B2, E0)
      BY <3>14, <3>15 DEF AccSound
    <3> QED BY <3>1, <3>7, <3>16
  <2>6. CASE ~(PagesWanted(u.obj[q]) <= FreePages(u) - reserve)
    <3> DEFINE new == Refused(acc, u, q)
               v == [u EXCEPT !.obj[q].todo = 0]
    <3>1. PrefillNext(acc, q, room, reserve) = new
      BY <2>1, <2>6 DEF AdmitSized
    <3>2. AccOK(A, s, new, X \cup {q}, B, U, K \cup {q})
      BY <1>0, <2>3, RefusedOK DEF Waits
    <3>3. new.sch = v /\ new.batch = acc.batch
      BY <1>0 DEF Refused
    <3>4. Typed(A, v) /\ Ledger(v, L, F \cup B, E) /\ Ready(v.obj[q])
      <4>1. PICK FB : FB = F \cup B
        OBVIOUS
      <4>2. PICK d : d = 0 /\ d \in Nat
        OBVIOUS
      <4>3. Ledger(u, L, FB, E) /\ q \notin FB
        BY <1>0, <2>4, <4>1
      <4> DEFINE v1 == [u EXCEPT !.obj[q].todo = d]
      <4>4. Typed(A, v1) /\ Ledger(v1, L, FB, E) /\ Ready(v1.obj[q])
        <5> HIDE DEF r, t, v, new
        <5>1. Typed(A, u) /\ q \in L /\ Ready(u.obj[q])
          BY <1>0, <2>3, <2>4
        <5>2. TodoSet(A, u, L, FB, E, q, d)
          <6> HIDE DEF v1
          <6> QED BY <1>1, <4>2, <4>3, <5>1, LedgerTodo
        <5> QED BY <5>2 DEF TodoSet
      <4>5. v1 = v
        BY <4>2
      <4> HIDE DEF v1, v
      <4> QED BY <4>1, <4>4, <4>5
    <3>5. \A x \in Reqs \ {q} : v.obj[x] = u.obj[x]
      BY <2>3 DEF Typed, SchFields
    <3> HIDE DEF v, new
    <3>6. ASSUME NEW x \in W \ B PROVE Ready(v.obj[x])
      <4>1. x \in Reqs
        OBVIOUS
      <4> QED BY <4>1, <1>0, <2>3, <3>4, <3>5
    <3>7. AccSound(new, L, W, F, B, E0)
      BY <3>3, <3>4, <3>6 DEF AccSound, E
    <3> QED BY <3>1, <3>2, <3>7
  <2> QED BY <2>5, <2>6
<1> QED BY <1>2, <1>3

\* The queues determine who waits and who decodes.
LEMMA PlacedUnique ==
  ASSUME NEW s, NEW W, NEW D, NEW F, Placed(s, W, D, F), NEW W2, NEW D2, NEW F2,
         Placed(s, W2, D2, F2)
  PROVE  W = W2 /\ D = D2
BY DEF Placed, Lists

\* The empty sequence has no elements.
LEMMA RangeNone == Range(<<>>) = {}
BY DEF Range

\* Only the queues change.
LEMMA LedgerSame ==
  ASSUME NEW A, NEW s, Typed(A, s), NEW t, Typed(A, t), NEW L \in SUBSET Reqs, NEW F, NEW E,
         Ledger(s, L, F, E), t.pool = s.pool, t.filled = s.filled, t.hitters = s.hitters,
         t.unwritten = s.unwritten, t.obj = s.obj
  PROVE  Ledger(t, L, F, E)
<1>1. \A e \in E : RowOK(t, F, e) /\ e.req \in L
  BY DEF Ledger, Kv, RowOK
<1>2. ASSUME NEW x \in L
      PROVE  Extends(s.obj[x].tok, t.obj[x].tok) /\ Reach(t, F, x) = Reach(s, F, x)
  <2>1. s.obj[x].tok \in Seq(A)
    BY DEF Typed, ObjOK
  <2> QED BY <2>1, ExtendsSame DEF Reach
<1> QED BY <1>1, <1>2, LedgerMoves

PrefillSteps(f, start, queue, room, reserve) ==
  /\ f[0] = start
  /\ \A n \in 1 .. Len(queue) : f[n] = PrefillNext(f[n - 1], queue[n], room, reserve)
  /\ Prefilled(start, queue, room, reserve) = f[Len(queue)]

\* The rounds of schedule_prefill_batch, one by one.
LEMMA PrefillStepsOK ==
  ASSUME NEW start, NEW queue, NEW room, NEW reserve, Len(queue) \in Nat
  PROVE  \E f : PrefillSteps(f, start, queue, room, reserve)
BY PrefilledLoop DEF PrefillSteps

\* The rounds of schedule_prefill_batch.
LEMMA SoundPrefilled ==
  ASSUME NEW A, NEW s, Typed(A, s), NEW W, Lists(s.prefill, W),
         \A x \in W : Waits(s.obj[x]),
         NEW start, AccOK(A, s, start, {}, {}, {}, {}),
         NEW room, NEW reserve \in Nat,
         NEW L \in SUBSET Reqs, W \subseteq L, NEW F, NEW E0,
         AccSound(start, L, W, F, {}, E0), F \cap W = {},
         \A e \in E0 : e.req \notin W, NoHash \notin Seq(Seq(A))
  PROVE  \E B, U, K : /\ AccOK(A, s, Prefilled(start, s.prefill, room, reserve), W, B, U, K)
                      /\ AccSound(Prefilled(start, s.prefill, room, reserve), L, W, F, B, E0)
<1> DEFINE queue == s.prefill
           N == Len(queue)
           Done(n) == {queue[i] : i \in 1 .. n}
<1>1. N \in Nat /\ queue \in Seq(Reqs) /\ Injective(queue) /\ W \in SUBSET L
  BY ListsIn DEF Lists
<1>2. PICK f : /\ f[0] = start
               /\ \A n \in 1 .. N : f[n] = PrefillNext(f[n - 1], queue[n], room, reserve)
               /\ Prefilled(start, queue, room, reserve) = f[N]
  <2> HIDE DEF Done
  <2>1. Len(queue) \in Nat
    BY <1>1
  <2> HIDE DEF queue
  <2>2. PICK f : PrefillSteps(f, start, queue, room, reserve)
    BY <2>1, PrefillStepsOK, Zenon
  <2> QED BY <2>2 DEF PrefillSteps
<1> DEFINE OK(n) == \E B, U, K : AccOK(A, s, f[n], Done(n), B, U, K) /\ AccSound(f[n], L, W, F, B, E0)
           G == {n \in 0 .. N : OK(n)}
<1>3. Done(0) = {} /\ Done(N) = W
  BY <1>1 DEF Lists
<1>4. ASSUME NEW n \in 1 .. N
      PROVE  /\ queue[n] \in Reqs \ Done(n - 1) /\ Waits(s.obj[queue[n]]) /\ queue[n] \in W
             /\ Done(n) = Done(n - 1) \cup {queue[n]} /\ Done(n - 1) \subseteq W
  <2>1. queue[n] \in W /\ queue[n] \in Reqs
    BY <1>1 DEF Lists
  <2>2. \A i \in 1 .. n - 1 : i \in 1 .. N /\ queue[i] # queue[n]
    BY <1>1 DEF Injective
  <2>3. \A i : i \in 1 .. n <=> i \in 1 .. n - 1 \/ i = n
    BY <1>1
  <2>4. Done(n - 1) \subseteq W
    BY <2>2 DEF Lists
  <2> QED BY <2>1, <2>2, <2>3, <2>4
<1> HIDE DEF N, Done, queue
<1>5. OK(0)
  BY <1>2, <1>3
<1>6. ASSUME NEW n \in 1 .. N, OK(n - 1) PROVE OK(n)
  <2>1. PICK B, U, K : AccOK(A, s, f[n - 1], Done(n - 1), B, U, K) /\ AccSound(f[n - 1], L, W, F, B, E0)
    BY <1>6
  <2>2. PICK g, X, q : g = f[n - 1] /\ X = Done(n - 1) /\ q = queue[n]
    OBVIOUS
  <2>3. /\ AccOK(A, s, g, X, B, U, K) /\ AccSound(g, L, W, F, B, E0)
        /\ q \in Reqs \ X /\ Waits(s.obj[q]) /\ q \in W /\ X \subseteq W /\ W \in SUBSET L
    BY <1>1, <1>4, <2>1, <2>2
  <2>4. \E B2, U2, K2 : /\ AccOK(A, s, PrefillNext(g, q, room, reserve), X \cup {q}, B2, U2, K2)
                        /\ AccSound(PrefillNext(g, q, room, reserve), L, W, F, B2, E0)
    BY <2>3, SoundPrefillNext
  <2>5. f[n] = PrefillNext(g, q, room, reserve) /\ Done(n) = X \cup {q}
    BY <1>2, <1>4, <2>2
  <2>6. \E B2, U2, K2 : AccOK(A, s, f[n], Done(n), B2, U2, K2) /\ AccSound(f[n], L, W, F, B2, E0)
    BY <2>4, <2>5
  <2> QED BY <2>6
<1> HIDE DEF OK
<1>7. 0 \in G
  BY <1>1, <1>5
<1>8. ASSUME NEW n \in 1 .. N, n - 1 \in G PROVE n \in G
  BY <1>6, <1>8
<1> HIDE DEF G
<1>9. \A n \in 0 .. N : n \in G
  BY <1>1, <1>7, <1>8, Induct, Zenon
<1>10. OK(N)
  BY <1>1, <1>9 DEF G
<1> QED BY <1>2, <1>3, <1>10 DEF OK, queue

\* schedule_prefill_batch: E0 are the rows of the decodes before it.
LEMMA SoundPrefillBatch ==
  ASSUME NEW A, NEW s, NEW W, NEW D, NEW F, NEW E0, Sound(A, s, W, D, F, E0),
         \A e \in E0 : e.req \notin W, NoHash \notin Seq(Seq(A)),
         NEW budget \in Nat, NEW room, NEW reserve \in Nat
  PROVE  LET r == PrefillBatch(s, budget, room, reserve)
         IN  \E B, U : /\ IsBatch(r.batch, B, U)
                       /\ Sound(A, r.sch, W \ B, D, F \cup B, E0 \cup Range(r.batch))
<1> DEFINE s0 == [s EXCEPT !.prefill = <<>>]
           start == [sch |-> s0, budget |-> budget, batch |-> <<>>,
                     unfinished |-> <<>>, queue |-> <<>>, stop |-> FALSE]
           end == Prefilled(start, s.prefill, room, reserve)
           r == PrefillBatch(s, budget, room, reserve)
           L == W \cup D \cup F
<1>0. /\ Typed(A, s) /\ Placed(s, W, D, F) /\ Ledger(s, L, F, E0)
      /\ L \in SUBSET Reqs /\ W \cap F = {} /\ W \subseteq L
      /\ \A x \in W : Ready(s.obj[x]) /\ Waits(s.obj[x])
      /\ Lists(s.prefill, W)
  <2>1. Typed(A, s) /\ Placed(s, W, D, F) /\ Ledger(s, L, F, E0) /\ \A x \in W : Ready(s.obj[x])
    BY DEF Sound
  <2>2. L \in SUBSET Reqs /\ W \cap F = {} /\ W \subseteq L
    BY SoundReqs
  <2> HIDE DEF L
  <2>3. Lists(s.prefill, W) /\ \A x \in W : Waits(s.obj[x])
    BY <2>1 DEF Placed
  <2> QED BY <2>1, <2>2, <2>3
<1>1. /\ DOMAIN s0 = SchFields /\ s0.obj = s.obj /\ s0.pool = s.pool /\ Frame(s, s0)
      /\ s0.filled = s.filled /\ s0.hitters = s.hitters /\ s0.unwritten = s.unwritten
  BY <1>0 DEF Typed, SchFields, Frame
<1> HIDE DEF s0, L
<1>2. Typed(A, s0)
  BY <1>0, <1>1 DEF Typed, Frame
<1>3. AccOK(A, s, start, {}, {}, {}, {})
  <2>1. \A x \in Reqs : Fed(s.obj[x], s.obj[x])
    BY <1>0, FedSelf DEF Typed
  <2> QED BY <1>1, <1>2, <2>1, EmptyBatch, ListsNone DEF AccOK
<1>4. AccSound(start, L, W, F, {}, E0)
  <2>1. Ledger(s0, L, F, E0)
    BY <1>0, <1>1, <1>2, LedgerSame
  <2>2. F \cup {} = F /\ E0 \cup {} = E0 /\ W \ {} = W
    OBVIOUS
  <2> QED BY <1>0, <1>1, <2>1, <2>2, RangeNone DEF AccSound
<1> HIDE DEF start
<1>5. PICK B, U, K : AccOK(A, s, end, W, B, U, K) /\ AccSound(end, L, W, F, B, E0)
  <2> HIDE DEF end
  <2>1. \E B, U, K : /\ AccOK(A, s, Prefilled(start, s.prefill, room, reserve), W, B, U, K)
                     /\ AccSound(Prefilled(start, s.prefill, room, reserve), L, W, F, B, E0)
    BY <1>0, <1>3, <1>4, SoundPrefilled
  <2> QED BY <2>1 DEF end
<1>6. /\ r.batch = end.batch /\ r.sch = [end.sch EXCEPT !.prefill = end.unfinished \o end.queue]
  BY DEF PrefillBatch, Requeued, start, s0
<1>7. PICK B2, U2 : PrefillsTaken(A, s, r.sch, r.batch, W, D, F, B2, U2)
  BY <1>0, PrefillBatchOK
<1> HIDE DEF r, end
<1>8. /\ IsBatch(end.batch, B, U) /\ Typed(A, end.sch) /\ B \subseteq W
  BY <1>5 DEF AccOK
<1>9. /\ r.sch.obj = end.sch.obj /\ r.sch.pool = end.sch.pool /\ r.sch.filled = end.sch.filled
      /\ r.sch.hitters = end.sch.hitters /\ r.sch.unwritten = end.sch.unwritten
  BY <1>6, <1>8 DEF Typed, SchFields
<1>10. B2 = B
  <2>1. IsBatch(end.batch, B2, U2)
    BY <1>6, <1>7 DEF PrefillsTaken
  <2> QED BY <1>8, <2>1, BatchUnique
<1>11. Typed(A, r.sch) /\ Placed(r.sch, W \ B, D, F \cup B)
  BY <1>7, <1>10 DEF PrefillsTaken
<1>12. Ledger(r.sch, L, F \cup B, E0 \cup Range(r.batch))
  <2>1. Ledger(end.sch, L, F \cup B, E0 \cup Range(end.batch))
    BY <1>5 DEF AccSound
  <2> QED BY <1>0, <1>6, <1>8, <1>9, <1>11, <2>1, LedgerSame
<1>13. (W \ B) \cup D \cup (F \cup B) = L
  BY <1>8 DEF L
<1>14. \A x \in W \ B : Ready(r.sch.obj[x])
  BY <1>5, <1>9 DEF AccSound
<1>15. Sound(A, r.sch, W \ B, D, F \cup B, E0 \cup Range(r.batch))
  BY <1>11, <1>12, <1>13, <1>14 DEF Sound
<1> QED BY <1>6, <1>8, <1>15 DEF r

-----------------------------------------------------------------------------
(* schedule_once. *)

\* The requests whose token a batch samples.
Goes(b) == {e.req : e \in {f \in Range(b) : ~f.part}}

\* Those of a batch that enter the pipe.
LEMMA BatchGoes ==
  ASSUME NEW b, NEW B, NEW U, IsBatch(b, B, U)
  PROVE  B = Goes(b) /\ IsSeq(b)
<1>1. DOMAIN b = 1 .. Len(b)
  BY BatchRows
<1> QED BY <1>1 DEF IsBatch, Goes, Range

\* The rows of two batches, one after the other.
LEMMA ConcatRange ==
  ASSUME NEW b, IsSeq(b), NEW c, IsSeq(c)
  PROVE  /\ IsSeq(b \o c) /\ Range(b \o c) = Range(b) \cup Range(c)
         /\ Goes(b \o c) = Goes(b) \cup Goes(c)
<1>1. PICK S, T : b \in Seq(S) /\ c \in Seq(T)
  BY DEF IsSeq
<1> DEFINE Z == S \cup T
           d == b \o c
<1>2. b \in Seq(Z) /\ c \in Seq(Z)
  BY <1>1
<1> HIDE DEF Z
<1>3. /\ d \in Seq(Z) /\ Len(b) \in Nat /\ Len(c) \in Nat /\ Len(d) = Len(b) + Len(c)
      /\ DOMAIN b = 1 .. Len(b) /\ DOMAIN c = 1 .. Len(c) /\ DOMAIN d = 1 .. Len(d)
  BY <1>2
<1>4. /\ \A i \in 1 .. Len(b) : d[i] = b[i]
      /\ \A i \in 1 .. Len(c) : d[Len(b) + i] = c[i]
  BY <1>2
<1> HIDE DEF d
<1>5. \A i \in 1 .. Len(d) : \/ i \in 1 .. Len(b) /\ d[i] = b[i]
                             \/ i - Len(b) \in 1 .. Len(c) /\ d[i] = c[i - Len(b)]
  <2>1. TAKE i \in 1 .. Len(d)
  <2>2. CASE i <= Len(b)
    BY <1>3, <1>4, <2>2
  <2>3. CASE ~(i <= Len(b))
    <3>1. i - Len(b) \in 1 .. Len(c) /\ i = Len(b) + (i - Len(b))
      BY <1>3, <2>3
    <3> QED BY <1>4, <3>1
  <2> QED BY <2>2, <2>3
<1>6. ASSUME NEW x PROVE x \in Range(d) <=> x \in Range(b) \/ x \in Range(c)
  <2>1. ASSUME x \in Range(d) PROVE x \in Range(b) \/ x \in Range(c)
    <3>1. PICK i \in 1 .. Len(d) : x = d[i]
      BY <1>3, <2>1 DEF Range
    <3> QED BY <1>3, <1>5, <3>1 DEF Range
  <2>2. ASSUME x \in Range(b) PROVE x \in Range(d)
    <3>1. PICK i \in 1 .. Len(b) : x = b[i]
      BY <1>3, <2>2 DEF Range
    <3>2. i \in 1 .. Len(d)
      BY <1>3
    <3> QED BY <1>3, <1>4, <3>1, <3>2 DEF Range
  <2>3. ASSUME x \in Range(c) PROVE x \in Range(d)
    <3>1. PICK i \in 1 .. Len(c) : x = c[i]
      BY <1>3, <2>3 DEF Range
    <3>2. Len(b) + i \in 1 .. Len(d)
      BY <1>3
    <3> QED BY <1>3, <1>4, <3>1, <3>2 DEF Range
  <2> QED BY <2>1, <2>2, <2>3
<1>7. IsSeq(d)
  BY <1>3 DEF IsSeq
<1>8. Range(d) = Range(b) \cup Range(c)
  BY <1>6
<1>9. Goes(d) = Goes(b) \cup Goes(c)
  BY <1>8 DEF Goes
<1> QED BY <1>7, <1>8, <1>9 DEF d

\* What a call of the scheduler made of a pipe with the requests of F: the accounts are
\* exact, and the rows of the batch that was built are to be computed.
Made(A, r, F) ==
  /\ IsSeq(r.batch)
  /\ \E W, D : Sound(A, r.sch, W, D, F \cup Goes(r.batch), Range(r.batch))

\* A round of decodes, with the jitter.
LEMMA SoundJittered ==
  ASSUME NEW A, NEW s, NEW W, NEW D, NEW F, Sound(A, s, W, D, F, {}), NEW total \in Nat
  PROVE  Sound(A, Jittered(s, total), W, D, F, {})
<1> DEFINE t == Jittered(s, total)
           L == W \cup D \cup F
<1>1. Typed(A, s) /\ Placed(s, W, D, F) /\ Ledger(s, L, F, {}) /\ \A q \in W : Ready(s.obj[q])
  BY DEF Sound
<1>2. Moved(A, s, t, W, D, F, W, D, {}, {})
  BY <1>1, JitteredMoved
<1>3. /\ t.obj = s.obj /\ t.pool = s.pool /\ t.filled = s.filled /\ t.hitters = s.hitters
      /\ t.unwritten = s.unwritten
  BY <1>1 DEF Typed, SchFields, Jittered
<1>4. L \in SUBSET Reqs
  BY SoundReqs
<1> HIDE DEF t, L
<1>5. F \cup {} = F
  OBVIOUS
<1>6. Typed(A, t) /\ Placed(t, W, D, F)
  BY <1>2, <1>5 DEF Moved
<1>7. Ledger(t, L, F, {})
  BY <1>1, <1>3, <1>4, <1>6, LedgerSame
<1>8. Sound(A, t, W, D, F, {})
  BY <1>1, <1>3, <1>6, <1>7 DEF Sound, L
<1> QED BY <1>8 DEF t

\* schedule_decode_batch.
LEMMA SoundDecodes ==
  ASSUME NEW A, NEW s, NEW W, NEW D, NEW F, Sound(A, s, W, D, F, {}), NEW total \in Nat,
         NEW budget \in Nat
  PROVE  LET r == DecodeBatch(Jittered(s, total), budget)
         IN  Made(A, r, F) /\ \A e \in Range(r.batch) : ~e.part
<1> DEFINE m == Jittered(s, total)
           r == DecodeBatch(m, budget)
<1>1. Sound(A, m, W, D, F, {})
  BY SoundJittered
<1> HIDE DEF m
<1>2. PICK V, T, n : /\ Preempted(A, m, n, W, D, F, V)
                     /\ DecodesTaken(A, n, r.sch, r.batch, W \cup V, D \ V, F, T)
                     /\ Sound(A, r.sch, W \cup V, (D \ V) \ T, F \cup T, Range(r.batch))
  BY <1>1, SoundDecodeBatch
<1> HIDE DEF r
<1>3. IsBatch(r.batch, T, {})
  BY <1>2 DEF DecodesTaken
<1>4. T = Goes(r.batch) /\ IsSeq(r.batch)
  BY <1>3, BatchGoes
<1>5. \A e \in Range(r.batch) : ~e.part
  BY <1>3, BatchRows
<1>6. \E W2, D2 : Sound(A, r.sch, W2, D2, F \cup Goes(r.batch), Range(r.batch))
  BY <1>2, <1>4
<1>7. Made(A, r, F)
  BY <1>4, <1>6 DEF Made
<1> QED BY <1>5, <1>7 DEF r, m

\* The decodes of a mixed round.
LEMMA SoundDecodeFor ==
  ASSUME NEW A, NEW s, NEW W, NEW D, NEW F, Sound(A, s, W, D, F, {}), NEW total \in Nat
  PROVE  LET r == DecodeFor(s, total)
         IN  Made(A, r, F) /\ \A e \in Range(r.batch) : ~e.part
<1> DEFINE x == IF total < PP THEN 1 ELSE (total + s.jitter) \div PP
           budget == MinOf(DecodeBudget(s, total), MaxP)
<1>1. x \in Nat
  <2>1. s.jitter \in Nat /\ PP \in Nat \ {0}
    BY SchedulerAssumption DEF Sound, Typed
  <2>2. (total + s.jitter) \div PP \in Nat
    BY <2>1, DivBounds
  <2> QED BY <2>2
<1>2. DecodeBudget(s, total) = MinOf(MaxD, x)
  BY DEF DecodeBudget
<1> HIDE DEF x
<1>3. DecodeBudget(s, total) \in Nat
  BY <1>1, <1>2, MinMax, SchedulerAssumption
<1>4. budget \in Nat
  BY <1>3, MinMax, SchedulerAssumption
<1>5. DecodeFor(s, total) = DecodeBatch(Jittered(s, total), budget)
  BY DEF DecodeFor
<1> HIDE DEF budget
<1> DEFINE r == DecodeBatch(Jittered(s, total), budget)
<1>6. Made(A, r, F) /\ \A e \in Range(r.batch) : ~e.part
  BY <1>4, SoundDecodes
<1> HIDE DEF r
<1> QED BY <1>5, <1>6 DEF r

\* Decodes and prefills in one batch.
LEMMA SoundMixed ==
  ASSUME NEW A, NEW F, NEW first, Made(A, first, F), \A e \in Range(first.batch) : ~e.part,
         Len(first.batch) <= MaxP, NEW reserve \in Nat, NoHash \notin Seq(Seq(A))
  PROVE  Made(A, MixedBatch(first, reserve), F)
<1> DEFINE t == first.sch
           x == PageSize * MaxOf(FreePages(t) - reserve, 0)
           budget == MinOf(MaxP - Len(first.batch), x)
           room == MaxD - Len(first.batch)
           p == PrefillBatch(t, budget, room, reserve)
           r == MixedBatch(first, reserve)
           F1 == F \cup Goes(first.batch)
           E0 == Range(first.batch)
<1>1. PICK W, D : Sound(A, t, W, D, F1, E0)
  BY DEF Made
<1>2. IsSeq(first.batch) /\ Len(first.batch) \in Nat
  <2>1. \E S : first.batch \in Seq(S)
    BY Zenon DEF Made, IsSeq
  <2> QED BY <2>1 DEF Made
<1>4. x \in Nat
  <2>1. FreePages(t) \in Nat
    BY <1>1, FreePagesNat DEF Sound
  <2>2. MaxOf(FreePages(t) - reserve, 0) \in Nat
    BY <2>1, MinMax
  <2>3. PageSize \in Nat
    BY SchedulerAssumption
  <2> QED BY <2>2, <2>3
<1> HIDE DEF x
<1>5. budget \in Nat
  <2>1. MaxP \in Nat
    BY SchedulerAssumption
  <2>2. MaxP - Len(first.batch) \in Nat
    BY <1>2, <2>1
  <2> QED BY <1>4, <2>2, MinMax
<1>6. DOMAIN p = {"sch", "batch"}
  BY DEF PrefillBatch, Requeued
<1>7. r = [p EXCEPT !.batch = first.batch \o @]
  BY DEF MixedBatch, Prefills, x
<1> HIDE DEF p, r
<1>8. r.sch = p.sch /\ r.batch = first.batch \o p.batch
  BY <1>6, <1>7
<1>9. \A e \in E0 : e.req \notin W
  <2>1. F1 \cap W = {}
    BY <1>1 DEF Sound, Placed
  <2>2. \A e \in E0 : e.req \in Goes(first.batch)
    BY DEF Goes
  <2> QED BY <2>1, <2>2
<1> HIDE DEF budget, room, t, F1, E0
<1>10. PICK B, U : /\ IsBatch(p.batch, B, U)
                   /\ Sound(A, p.sch, W \ B, D, F1 \cup B, E0 \cup Range(p.batch))
  BY <1>1, <1>5, <1>9, SoundPrefillBatch DEF p
<1>11. B = Goes(p.batch) /\ IsSeq(p.batch)
  BY <1>10, BatchGoes
<1>12. /\ IsSeq(r.batch) /\ Range(r.batch) = E0 \cup Range(p.batch)
       /\ Goes(r.batch) = Goes(first.batch) \cup B
  BY <1>2, <1>8, <1>11, ConcatRange DEF E0
<1>13. F1 \cup B = F \cup Goes(r.batch)
  BY <1>12 DEF F1
<1>14. Sound(A, r.sch, W \ B, D, F \cup Goes(r.batch), Range(r.batch))
  BY <1>8, <1>10, <1>12, <1>13
<1>15. Made(A, r, F)
  BY <1>12, <1>14 DEF Made
<1> QED BY <1>15 DEF r

\* chunked_prefill.
LEMMA SoundChunked ==
  ASSUME NEW A, NEW s, NEW W, NEW D, NEW F, Sound(A, s, W, D, F, {}), NEW ratio \in Nat,
         NoHash \notin Seq(Seq(A))
  PROVE  Made(A, ChunkedPrefill(s, ratio), F)
<1> DEFINE total == Decodable(s)
           reserve == Reserve(s, ratio)
           none == DecodeBatch(Jittered(s, total), 0)
           mixed == MixedBatch(none, reserve)
<1>0. Typed(A, s) /\ Placed(s, W, D, F)
  BY DEF Sound
<1>1. total \in Nat /\ reserve \in Nat
  <2>1. s.decode \in Seq(Reqs) /\ Lists(s.decode, D)
    BY <1>0 DEF Placed, Lists
  <2> QED BY <1>0, <2>1, DecodableNat, ReserveNat
<1>2. ChunkedPrefill(s, ratio)
        = IF SplitPd /\ s.prefill # <<>> /\ FreePages(s) >= reserve
          THEN PrefillElse(mixed, total)
          ELSE MixedBatch(DecodeFor(s, total), reserve)
  BY DEF ChunkedPrefill
<1>3. /\ Made(A, none, F) /\ \A e \in Range(none.batch) : ~e.part
      /\ Len(none.batch) <= MaxP
  <2> HIDE DEF total, none
  <2>1. /\ \E W2, D2, V, B : Built(A, s, none, W, D, F, W2, D2, V, B, {})
        /\ Len(none.batch) <= 0
    BY <1>0, <1>1, JitteredBatchOK DEF none
  <2>2. Made(A, none, F) /\ \A e \in Range(none.batch) : ~e.part
    BY <1>1, SoundDecodes DEF none
  <2>3. \E S : none.batch \in Seq(S)
    BY <2>2, Zenon DEF Made, IsSeq
  <2>4. Len(none.batch) \in Nat
    BY <2>3
  <2>5. Len(none.batch) <= MaxP
    BY <2>1, <2>4, SchedulerAssumption
  <2> QED BY <2>2, <2>5
<1> HIDE DEF total, reserve, none
<1>4. Made(A, mixed, F)
  BY <1>1, <1>3, SoundMixed
<1>5. Made(A, MixedBatch(DecodeFor(s, total), reserve), F)
  <2> DEFINE d == DecodeFor(s, total)
  <2>1. /\ \E W2, D2, V, B : Built(A, s, d, W, D, F, W2, D2, V, B, {})
        /\ Len(d.batch) <= MaxP
    BY <1>0, <1>1, DecodeForOK
  <2>2. Made(A, d, F) /\ \A e \in Range(d.batch) : ~e.part
    BY <1>1, SoundDecodeFor
  <2> HIDE DEF d
  <2>3. Made(A, MixedBatch(d, reserve), F)
    BY <1>1, <2>1, <2>2, SoundMixed
  <2> QED BY <2>3 DEF d
<1> HIDE DEF mixed
<1>6. Made(A, PrefillElse(mixed, total), F)
  <2>1. CASE mixed.batch # <<>>
    BY <1>4, <2>1 DEF PrefillElse
  <2>2. CASE mixed.batch = <<>>
    <3> DEFINE d == DecodeFor(mixed.sch, total)
    <3>1. PrefillElse(mixed, total) = d
      BY <2>2 DEF PrefillElse
    <3>2. Range(mixed.batch) = {} /\ Goes(mixed.batch) = {}
      BY <2>2, RangeNone DEF Goes
    <3>3. PICK W1, D1 : Sound(A, mixed.sch, W1, D1, F, {})
      <4>1. F \cup {} = F
        OBVIOUS
      <4> QED BY <1>4, <3>2, <4>1 DEF Made
    <3>4. Made(A, d, F)
      BY <1>1, <3>3, SoundDecodeFor
    <3> QED BY <3>1, <3>4
  <2> QED BY <2>1, <2>2
<1> QED BY <1>2, <1>5, <1>6

\* The forward of the batch that schedule_once built.
LEMMA SoundForward ==
  ASSUME NEW A, NEW s, NEW W, NEW D, NEW F, NEW b, Sound(A, s, W, D, F, Range(b)),
         NEW t, Typed(A, t), Placed(t, W, D, F), t.obj = s.obj, t.pool = s.pool,
         t.filled = Forward(s, b).filled, t.unwritten = Forward(s, b).unwritten,
         t.hitters = s.hitters
  PROVE  Sound(A, t, W, D, F, {})
<1> DEFINE L == W \cup D \cup F
           g == Forward(s, b)
<1>1. /\ Typed(A, s) /\ Placed(s, W, D, F) /\ Ledger(s, L, F, Range(b))
      /\ \A q \in W : Ready(s.obj[q])
  BY DEF Sound
<1>2. L \in SUBSET Reqs
  BY SoundReqs
<1>3. ASSUME NEW e \in Range(b) PROVE e.req \in L /\ PagesFor(e.from + e.todo) <= Len(e.table)
  <2>1. e.req \in L /\ RowOK(s, F, e)
    BY <1>1 DEF Ledger, Kv
  <2> DEFINE o == s.obj[e.req]
  <2>2. ObjOK(A, o)
    BY <1>1, <1>2, <2>1 DEF Typed
  <2>3. CASE e.req \in F
    <3>1. Flies(o)
      BY <1>1, <2>3 DEF Placed
    <3> QED BY <2>1, <2>3, <3>1 DEF RowOK, Flies
  <2>4. CASE e.req \notin F
    <3>1. PagesFor(o.computed) <= Len(o.table)
      <4>1. CASE e.req \in W
        BY <1>1, <4>1 DEF Ready
      <4>2. CASE e.req \in D
        BY <1>1, <4>2 DEF Placed, Decodes
      <4> QED BY <2>1, <2>4, <4>1, <4>2
    <3> QED BY <2>1, <2>4, <3>1 DEF RowOK
  <2> QED BY <2>1, <2>3, <2>4
<1> HIDE DEF L
<1>4. Kv(g, L, F, {})
  <2>1. Kv(s, L, F, Range(b))
    BY <1>1 DEF Ledger
  <2> QED BY <1>1, <1>2, <1>3, <2>1, KvForward
<1>5. g.obj = s.obj /\ g.pool = s.pool /\ g.hitters = s.hitters
  BY <1>1 DEF Forward, Typed, SchFields
<1> HIDE DEF g
<1>6. Kv(t, L, F, {})
  <2>1. t.filled = g.filled /\ t.unwritten = g.unwritten
    BY DEF g
  <2> QED BY <1>4, <1>5, <2>1 DEF Kv, Reach, Written, RowOK
<1>7. Book(t, L)
  <2>1. \A q \in L : Extends(s.obj[q].tok, t.obj[q].tok)
    <3>1. TAKE q \in L
    <3>2. s.obj[q].tok \in Seq(A)
      BY <1>1, <1>2 DEF Typed, ObjOK
    <3> QED BY <3>2, ExtendsSame
  <2>2. Book(s, L)
    BY <1>1 DEF Ledger
  <2> QED BY <1>1, <1>2, <2>1, <2>2, BookSame
<1>8. Ledger(t, L, F, {})
  BY <1>1, <1>6, <1>7 DEF Ledger
<1> QED BY <1>1, <1>8 DEF Sound, L

\* Nothing that the accounts are about changes.
LEMMA SoundSame ==
  ASSUME NEW A, NEW s, NEW W, NEW D, NEW F, Sound(A, s, W, D, F, {}),
         NEW t, Typed(A, t), Placed(t, W, D, F), t.obj = s.obj, t.pool = s.pool,
         t.filled = s.filled, t.unwritten = s.unwritten, t.hitters = s.hitters
  PROVE  Sound(A, t, W, D, F, {})
<1> DEFINE L == W \cup D \cup F
<1>1. /\ Typed(A, s) /\ Ledger(s, L, F, {}) /\ \A q \in W : Ready(s.obj[q])
  BY DEF Sound
<1>2. L \in SUBSET Reqs
  BY SoundReqs
<1> HIDE DEF L
<1>3. Ledger(t, L, F, {})
  BY <1>1, <1>2, LedgerSame
<1> QED BY <1>1, <1>3 DEF Sound, L

\* r is what schedule_once made of s, and m what it is before the batch enters the pipe.
OnceMade(A, r, m, W, D, F, W2, D2) ==
  /\ Sound(A, m, W2, D2, F \cup Goes(r.batch), Range(r.batch))
  /\ W2 \cup D2 \cup (F \cup Goes(r.batch)) = W \cup D \cup F
  /\ r.batch = <<>> => r.sch = m
  /\ r.batch # <<>> => r.sch = [m EXCEPT !.running = Append(m.running, RowsOf(r.batch))]

\* schedule_once, as a whole.
LEMMA SoundOnce ==
  ASSUME NEW A, NEW s, NEW W, NEW D, NEW F, Sound(A, s, W, D, F, {}),
         NEW ratio \in Nat, NoHash \notin Seq(Seq(A))
  PROVE  \E m, W2, D2 : OnceMade(A, ScheduleOnce(s, ratio), m, W, D, F, W2, D2)
<1> DEFINE r == ScheduleOnce(s, ratio)
           c == ChunkedPrefill(s, ratio)
<1>0. Typed(A, s) /\ Placed(s, W, D, F)
  BY DEF Sound
<1>1. CASE Len(s.decode) + Len(s.prefill) = 0 \/ Len(s.running) >= PP
  <2>1. r = [sch |-> s, batch |-> <<>>]
    BY <1>1 DEF ScheduleOnce
  <2> HIDE DEF r
  <2>3. r.sch = s /\ r.batch = <<>>
    BY <2>1
  <2>4. Goes(r.batch) = {} /\ Range(r.batch) = {} /\ F \cup Goes(r.batch) = F
    BY <2>3, RangeNone DEF Goes
  <2>5. OnceMade(A, r, s, W, D, F, W, D)
    BY <2>3, <2>4 DEF OnceMade
  <2> QED BY <2>5 DEF r
<1>2. CASE ~(Len(s.decode) + Len(s.prefill) = 0 \/ Len(s.running) >= PP)
  <2>1. PICK W1, D1, V, B, U : Built(A, s, c, W, D, F, W1, D1, V, B, U)
    BY <1>0, ChunkedPrefillOK
  <2>2. r = Started(c)
    BY <1>2 DEF ScheduleOnce
  <2>3. Made(A, c, F)
    BY SoundChunked
  <2>10. DOMAIN c = {"sch", "batch"}
    <3>1. \A first, x : DOMAIN MixedBatch(first, x) = {"sch", "batch"}
      BY DEF MixedBatch, Prefills, PrefillBatch, Requeued
    <3>2. \A x, y : DOMAIN DecodeFor(x, y) = {"sch", "batch"}
      BY DEF DecodeFor, DecodeBatch, DecodeLeft, TakeDecodes, DecodesOf
    <3>3. \A x, y : DOMAIN x = {"sch", "batch"} => DOMAIN PrefillElse(x, y) = {"sch", "batch"}
      BY <3>2 DEF PrefillElse
    <3> QED BY <3>1, <3>3, Zenon DEF ChunkedPrefill
  <2> HIDE DEF r, c
  <2> DEFINE m == c.sch
  <2>4. DOMAIN m = SchFields
    BY <2>1 DEF Built, Moved, Typed
  <2>5. r.batch = c.batch
    BY <2>2, <2>10 DEF Started
  <2>6. r.batch = <<>> => r.sch = m
    BY <2>2, <2>5 DEF Started
  <2>7. r.batch # <<>> => r.sch = [m EXCEPT !.running = Append(m.running, RowsOf(r.batch))]
    BY <2>2, <2>4, <2>5, <2>10 DEF Started, RowsOf
  <2>8. PICK W2, D2 : Sound(A, m, W2, D2, F \cup Goes(r.batch), Range(r.batch))
    BY <2>3, <2>5 DEF Made
  <2>9. B = Goes(r.batch)
    BY <2>1, <2>5, BatchGoes DEF Built
  <2>11. W1 \cup D1 = (W \cup D) \ B /\ B \subseteq W \cup D /\ Placed(m, W1, D1, F \cup B)
    BY <2>1 DEF Built, Moved
  <2>12. W1 = W2 /\ D1 = D2
    BY <2>8, <2>11, PlacedUnique DEF Sound
  <2>13. W2 \cup D2 \cup (F \cup Goes(r.batch)) = W \cup D \cup F
    BY <2>9, <2>11, <2>12
  <2>14. OnceMade(A, r, m, W, D, F, W2, D2)
    BY <2>6, <2>7, <2>8, <2>13 DEF OnceMade
  <2> QED BY <2>14 DEF r
<1> QED BY <1>1, <1>2

-----------------------------------------------------------------------------
(* check_abort_seqs. *)

\* A request is given up, and its pages go back.
LEMMA SoundAbortOne ==
  ASSUME NEW A, NEW s, NEW W, NEW D, NEW F, Sound(A, s, W, D, F, {}), NEW q \in W \cup D
  PROVE  Sound(A, AbortOne(s, q), W \ {q}, D \ {q}, F, {})
<1> DEFINE g == GiveBack(s, q)
           t == AbortOne(s, q)
           L == W \cup D \cup F
<1>1. Typed(A, s) /\ Placed(s, W, D, F) /\ Ledger(s, L, F, {}) /\ \A x \in W : Ready(s.obj[x])
  BY DEF Sound
<1>2. L \in SUBSET Reqs /\ W \cap F = {} /\ D \cap F = {} /\ q \in L
  BY SoundReqs
<1>3. GivenUp(A, s, t, W, D, F, {q})
  BY <1>1, AbortOneOK
<1>4. (W \ {q}) \cup (D \ {q}) \cup F = L \ {q}
  BY <1>2
<1> HIDE DEF L
<1>5. Ledger(g, L \ {q}, F, {}) /\ Typed(A, g)
  BY <1>1, <1>2, LedgerLeave
<1>6. /\ t.obj = g.obj /\ t.pool = g.pool /\ t.filled = g.filled /\ t.hitters = g.hitters
      /\ t.unwritten = g.unwritten
  <2>1. t = [g EXCEPT !.prefill = Without(@, q), !.decode = Without(@, q),
                      !.abort = @ \ {q}, !.frees = Append(@, q)]
    BY DEF AbortOne
  <2> HIDE DEF g, t
  <2> QED BY <1>5, <2>1 DEF Typed, SchFields
<1>7. t.obj = s.obj
  BY <1>3 DEF GivenUp
<1> HIDE DEF g, t
<1>8. Typed(A, t) /\ Placed(t, W \ {q}, D \ {q}, F)
  BY <1>3 DEF GivenUp
<1>9. Ledger(t, L \ {q}, F, {})
  <2>1. L \ {q} \in SUBSET Reqs
    BY <1>2
  <2> QED BY <1>5, <1>6, <1>8, <2>1, LedgerSame
<1>10. Sound(A, t, W \ {q}, D \ {q}, F, {})
  BY <1>1, <1>4, <1>7, <1>8, <1>9 DEF Sound
<1> QED BY <1>10 DEF t

\* check_abort_seqs, as a whole.
LEMMA SoundCheckAbort ==
  ASSUME NEW A, NEW s, NEW W, NEW D, NEW F, Sound(A, s, W, D, F, {})
  PROVE  Sound(A, CheckAbort(s), W \ Aborted(s), D \ Aborted(s), F, {})
<1> DEFINE queue == s.prefill \o s.decode
           N == Len(queue)
<1>0. Typed(A, s) /\ Placed(s, W, D, F)
  BY DEF Sound
<1>1. Aborted(s) = (W \cup D) \cap s.abort
  BY <1>0, CheckAbortOK
<1>2. Lists(queue, W \cup D)
  BY <1>0, ListsConcat DEF Placed
<1> HIDE DEF queue
<1>3. /\ N \in Nat /\ Injective(queue)
      /\ \A i \in 1 .. N : queue[i] \in W \cup D
      /\ \A q \in W \cup D : \E i \in 1 .. N : queue[i] = q
  BY <1>2 DEF Lists
<1>4. PICK f : /\ f[0] = s
               /\ \A n \in 1 .. N : f[n] = AbortNext(f[n - 1], queue[n])
               /\ AbortEach(s, queue) = f[N]
  BY <1>3, AbortEachLoop
<1> DEFINE X(n) == {queue[i] : i \in 1 .. n} \cap s.abort
           OK(n) == Sound(A, f[n], W \ X(n), D \ X(n), F, {}) /\ f[n].abort = s.abort \ X(n)
           G == {n \in 0 .. N : OK(n)}
<1> HIDE DEF N
<1>5. OK(0)
  <2>1. X(0) = {}
    OBVIOUS
  <2>2. W \ {} = W /\ D \ {} = D /\ s.abort = s.abort \ {}
    OBVIOUS
  <2> HIDE DEF X
  <2> QED BY <1>4, <2>1, <2>2
<1>6. ASSUME NEW n \in 1 .. N, OK(n - 1) PROVE OK(n)
  <2> DEFINE u == f[n - 1]
             q == queue[n]
             Y == X(n - 1)
  <2>1. Sound(A, u, W \ Y, D \ Y, F, {}) /\ u.abort = s.abort \ Y
    BY <1>6
  <2>2. /\ f[n] = AbortNext(u, q) /\ q \in W \cup D /\ q \notin {queue[i] : i \in 1 .. n - 1}
        /\ {queue[i] : i \in 1 .. n} = {queue[i] : i \in 1 .. n - 1} \cup {q}
    <3>1. f[n] = AbortNext(u, q)
      BY <1>4
    <3>2. q \in W \cup D
      BY <1>3
    <3>3. \A i \in 1 .. n - 1 : i \in 1 .. N /\ i # n /\ i \in 1 .. n
      BY <1>3
    <3>4. q \notin {queue[i] : i \in 1 .. n - 1}
      BY <1>3, <3>3 DEF Injective, N
    <3>5. \A i \in 1 .. n : i \in 1 .. n - 1 \/ i = n
      BY <1>3
    <3>6. n \in 1 .. n
      BY <1>3
    <3> QED BY <3>1, <3>2, <3>3, <3>4, <3>5, <3>6
  <2>3. X(n) = IF q \in s.abort THEN Y \cup {q} ELSE Y
    BY <2>2
  <2>4. q \notin Y
    BY <2>2
  <2> HIDE DEF Y, X, u, q
  <2>5. Typed(A, u) /\ Placed(u, W \ Y, D \ Y, F)
    BY <2>1 DEF Sound
  <2>6. CASE q \notin s.abort
    <3>1. f[n] = u
      BY <2>1, <2>2, <2>6 DEF AbortNext
    <3> QED BY <2>1, <2>3, <2>6, <3>1
  <2>7. CASE q \in s.abort
    <3> DEFINE t == AbortOne(u, q)
    <3>1. f[n] = t
      BY <2>1, <2>2, <2>4, <2>7 DEF AbortNext
    <3>2. q \in (W \ Y) \cup (D \ Y)
      BY <2>2, <2>4
    <3>3. Sound(A, t, (W \ Y) \ {q}, (D \ Y) \ {q}, F, {})
      BY <2>1, <3>2, SoundAbortOne
    <3>4. GivenUp(A, u, t, W \ Y, D \ Y, F, {q})
      BY <2>5, <3>2, AbortOneOK
    <3> HIDE DEF t
    <3>5. (W \ Y) \ {q} = W \ (Y \cup {q}) /\ (D \ Y) \ {q} = D \ (Y \cup {q})
      OBVIOUS
    <3>6. t.abort = s.abort \ (Y \cup {q})
      BY <2>1, <3>4 DEF GivenUp
    <3>7. Sound(A, t, W \ (Y \cup {q}), D \ (Y \cup {q}), F, {})
      BY <3>3, <3>5
    <3> QED BY <2>3, <2>7, <3>1, <3>6, <3>7
  <2> QED BY <2>6, <2>7
<1>7. {queue[i] : i \in 1 .. N} = W \cup D
  BY <1>3 DEF N
<1>8. X(N) = Aborted(s)
  BY <1>1, <1>7
<1> HIDE DEF OK
<1>9. 0 \in G
  BY <1>3, <1>5 DEF N
<1>10. ASSUME NEW n \in 1 .. N, n - 1 \in G PROVE n \in G
  BY <1>3, <1>6, <1>10 DEF N
<1> HIDE DEF G
<1>11. \A n \in 0 .. N : n \in G
  BY <1>3, <1>9, <1>10, Induct, Zenon DEF N
<1>12. OK(N)
  BY <1>3, <1>11 DEF G, N
<1>13. CheckAbort(s) = f[N]
  BY <1>4 DEF CheckAbort, queue, N
<1> HIDE DEF X
<1> QED BY <1>8, <1>12, <1>13 DEF OK

-----------------------------------------------------------------------------
(* New requests. *)

\* Requests without pages come in, one after the other.
LEMMA LedgerEnters ==
  ASSUME NEW A, NEW s, Typed(A, s), NEW L \in SUBSET Reqs, NEW F \in SUBSET Reqs,
         Ledger(s, L, F, {}), NEW new \in Seq(Reqs),
         \A i \in 1 .. Len(new) : LET o == s.obj[new[i]] IN
           /\ new[i] \notin F /\ o.table = <<>> /\ o.computed = 0
           /\ ChainOK(o) /\ Long(o)
  PROVE  Ledger(s, L \cup Range(new), F, {})
<1> DEFINE N == Len(new)
           X(n) == {new[i] : i \in 1 .. n}
           OK(n) == Ledger(s, L \cup X(n), F, {})
           G == {n \in 0 .. N : OK(n)}
<1>1. N \in Nat
  OBVIOUS
<1>2. OK(0)
  <2>1. L \cup X(0) = L
    OBVIOUS
  <2> HIDE DEF X
  <2> QED BY <2>1
<1>3. ASSUME NEW n \in 1 .. N, OK(n - 1) PROVE OK(n)
  <2> DEFINE q == new[n]
             M == L \cup X(n - 1)
  <2>1. Ledger(s, M, F, {})
    BY <1>3
  <2>2. L \cup X(n) = M \cup {q}
    <3>1. \A i : i \in 1 .. n <=> i \in 1 .. n - 1 \/ i = n
      BY <1>1
    <3> QED BY <3>1
  <2>3. M \in SUBSET Reqs
    <3>1. \A i \in 1 .. n - 1 : i \in 1 .. N
      BY <1>1
    <3> QED BY <3>1
  <2>4. q \in Reqs \ F
    OBVIOUS
  <2>5. /\ s.obj[q].table = <<>> /\ s.obj[q].computed = 0 /\ ChainOK(s.obj[q])
        /\ Long(s.obj[q])
    OBVIOUS
  <2> HIDE DEF q, M, X
  <2>6. Ledger(s, M \cup {q}, F, {})
    BY <2>1, <2>3, <2>4, <2>5, LedgerEnter
  <2> QED BY <2>2, <2>6
<1> HIDE DEF OK
<1>7. 0 \in G
  BY <1>1, <1>2
<1>8. ASSUME NEW n \in 1 .. N, n - 1 \in G PROVE n \in G
  BY <1>1, <1>3, <1>8
<1> HIDE DEF G
<1>4. \A n \in 0 .. N : n \in G
  BY <1>1, <1>7, <1>8, Induct, Zenon
<1>5. Ledger(s, L \cup X(N), F, {})
  <2>1. N \in G
    BY <1>1, <1>4
  <2> QED BY <2>1 DEF G, OK
<1>6. X(N) = Range(new)
  BY <1>1 DEF Range
<1> QED BY <1>5, <1>6
==============================================================================
