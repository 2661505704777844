---------------------------- MODULE GbEngineProofs ---------------------------
(***************************************************************************)
(* Theorems about the two parts of the serving engine that share what they  *)
(* give away: GbSegment's pages and GbFrontend's request ids.               *)
(*                                                                          *)
(* GbSegment, for every number of pages, sequences and prefixes: the counts *)
(* and the free list are right, a cached page stands for the prefix of      *)
(* everyone who holds it, and the segment implements GbPageOwners.  The     *)
(* properties are inductive together with two facts: a sequence holds no    *)
(* page twice, and a page that is not in the cache has one holder.  The     *)
(* first is why free() takes one from the count for each sequence; it holds *)
(* because a hash fixes the index of its page.  The second is why a page    *)
(* may be given a hash while it is held.                                    *)
(*                                                                          *)
(* GbFrontend, for every number of clients, ids and replicas: a client      *)
(* reads its own tokens and the ids have one holder each, and what is       *)
(* aborted has the id of a client that hung up.  FrontInv says where a      *)
(* request is, what is on its way back and what the packages under way      *)
(* hold; the ids need to know of the packages, because an id is used again  *)
(* while packages are under way.                                            *)
(***************************************************************************)
EXTENDS GbSegment, GbFrontend, FiniteSetTheorems, TLAPS

InSeq(s, x) == \E i \in 1 .. Len(s) : s[i] = x

Injective(s) == \A i, j \in 1 .. Len(s) : s[i] = s[j] => i = j

-----------------------------------------------------------------------------
(* Sequences and sets. *)

\* OrderedDict.pop keeps the other elements, once each.
LEMMA WithoutOK ==
  ASSUME NEW S, NEW s \in Seq(S), NEW x, Injective(s)
  PROVE  /\ Without(s, x) \in Seq(S)
         /\ Injective(Without(s, x))
         /\ \A y : InSeq(Without(s, x), y) <=> InSeq(s, y) /\ y # x
<1>1. CASE ~InSeq(s, x)
  BY <1>1 DEF Without, InSeq
<1>2. CASE InSeq(s, x)
  <2> DEFINE k == CHOOSE i \in 1 .. Len(s) : s[i] = x
             w == [i \in 1 .. Len(s) - 1 |-> IF i < k THEN s[i] ELSE s[i + 1]]
  <2>1. k \in 1 .. Len(s) /\ s[k] = x
    BY <1>2 DEF InSeq
  <2>2. Without(s, x) = w
    BY <1>2 DEF Without, InSeq
  <2> HIDE DEF k
  <2>3. w \in Seq(S) /\ Len(w) = Len(s) - 1
    BY <2>1
  <2>4. Injective(w)
    <3> SUFFICES ASSUME NEW i \in 1 .. Len(s) - 1, NEW j \in 1 .. Len(s) - 1, w[i] = w[j]
                 PROVE  i = j
      BY <2>3 DEF Injective
    <3> DEFINE pos(n) == IF n < k THEN n ELSE n + 1
    <3>1. pos(i) \in 1 .. Len(s) /\ pos(j) \in 1 .. Len(s) /\ s[pos(i)] = s[pos(j)]
      BY <2>1
    <3>2. pos(i) = pos(j)
      BY <3>1 DEF Injective
    <3> QED
      BY <3>2, <2>1
  <2>5. ASSUME NEW y
        PROVE  InSeq(w, y) <=> InSeq(s, y) /\ y # x
    <3>1. ASSUME NEW i \in 1 .. Len(w), w[i] = y
          PROVE  InSeq(s, y) /\ y # x
      <4> DEFINE n == IF i < k THEN i ELSE i + 1
      <4>1. n \in 1 .. Len(s) /\ s[n] = y /\ n # k
        BY <3>1, <2>1, <2>3
      <4> QED
        BY <4>1, <2>1 DEF InSeq, Injective
    <3>2. ASSUME NEW i \in 1 .. Len(s), s[i] = y, y # x
          PROVE  InSeq(w, y)
      <4> DEFINE n == IF i < k THEN i ELSE i - 1
      <4>1. n \in 1 .. Len(w) /\ w[n] = y
        BY <3>2, <2>1, <2>3
      <4> QED
        BY <4>1 DEF InSeq
    <3> QED
      BY <3>1, <3>2 DEF InSeq
  <2> QED
    BY <2>2, <2>3, <2>4, <2>5
<1> QED
  BY <1>1, <1>2

LEMMA AppendOK ==
  ASSUME NEW S, NEW s \in Seq(S), NEW x \in S, Injective(s), ~InSeq(s, x)
  PROVE  /\ Append(s, x) \in Seq(S)
         /\ Injective(Append(s, x))
         /\ \A y : InSeq(Append(s, x), y) <=> InSeq(s, y) \/ y = x
<1>1. /\ Append(s, x) \in Seq(S) /\ Len(Append(s, x)) = Len(s) + 1 /\ Len(s) \in Nat
      /\ \A i \in 1 .. Len(s) : Append(s, x)[i] = s[i]
      /\ Append(s, x)[Len(s) + 1] = x
  OBVIOUS
<1> DEFINE t == Append(s, x)
<1> HIDE DEF t
<1>2. Len(t) = Len(s) + 1 /\ (\A i \in 1 .. Len(s) : t[i] = s[i]) /\ t[Len(s) + 1] = x
  BY <1>1 DEF t
<1>3. Injective(t)
  BY <1>1, <1>2 DEF InSeq, Injective
<1>4. \A y : InSeq(t, y) <=> InSeq(s, y) \/ y = x
  BY <1>1, <1>2 DEF InSeq
<1> QED BY <1>1, <1>3, <1>4 DEF t

LEMMA TailOK ==
  ASSUME NEW S, NEW s \in Seq(S), s # <<>>, Injective(s)
  PROVE  /\ Head(s) \in S /\ InSeq(s, Head(s))
         /\ Tail(s) \in Seq(S)
         /\ Injective(Tail(s))
         /\ \A y : InSeq(Tail(s), y) <=> InSeq(s, y) /\ y # Head(s)
<1>1. /\ Len(s) \in Nat \ {0} /\ Head(s) = s[1] /\ Head(s) \in S
      /\ Tail(s) \in Seq(S) /\ Len(Tail(s)) = Len(s) - 1
      /\ \A i \in 1 .. Len(Tail(s)) : Tail(s)[i] = s[i + 1]
  OBVIOUS
<1>2. InSeq(s, Head(s))
  BY <1>1 DEF InSeq
<1>3. Injective(Tail(s))
  BY <1>1 DEF Injective
<1>4. ASSUME NEW y
      PROVE  InSeq(Tail(s), y) <=> InSeq(s, y) /\ y # Head(s)
  <2>1. ASSUME NEW i \in 1 .. Len(Tail(s)), Tail(s)[i] = y
        PROVE  InSeq(s, y) /\ y # Head(s)
    BY <1>1, <2>1 DEF InSeq, Injective
  <2>2. ASSUME NEW i \in 1 .. Len(s), s[i] = y, y # Head(s)
        PROVE  InSeq(Tail(s), y)
    <3>1. i - 1 \in 1 .. Len(Tail(s)) /\ Tail(s)[i - 1] = y
      BY <1>1, <2>2
    <3> QED
      BY <3>1 DEF InSeq
  <2> QED
    BY <2>1, <2>2 DEF InSeq
<1> QED
  BY <1>1, <1>2, <1>3, <1>4

-----------------------------------------------------------------------------
(* The inductive invariant. *)

\* A sequence holds no page twice.
NoRepeats ==
  \A q \in Seqs : \A i, j \in freed[q] + 1 .. Len(table[q]) :
    table[q][i] = table[q][j] => i = j

\* A page that is not in the cache has at most one holder.
PrivatePages ==
  \A p \in Pages : pool.p2h[p] = NoHash =>
    \A q, r \in Seqs : Holds(q, p) /\ Holds(r, p) => q = r

IInv ==
  /\ TypeOK /\ FreeIffUnheld /\ CacheEntriesAgree /\ OwnPrefixOnly /\ RefsCountHolders
  /\ NoRepeats /\ PrivatePages

LEMMA HoldersFinite ==
  \A p \in Pages : IsFiniteSet(Holders(p)) /\ Cardinality(Holders(p)) \in Nat
<1> TAKE p \in Pages
<1>1. Holders(p) \in SUBSET Seqs
  BY DEF Holders
<1> QED
  BY <1>1, FS_Subset, FS_CardinalityType, ChainAssumption

\* A page that is put into q's table gets q for a holder.
LEMMA HoldersAppend ==
  ASSUME TypeOK, NEW q \in Seqs, NEW p \in Pages,
         table' = [table EXCEPT ![q] = Append(@, p)], freed' = freed
  PROVE  /\ \A r \in Seqs, x \in Pages :
              Holds(r, x)' <=> Holds(r, x) \/ (r = q /\ x = p)
         /\ \A x \in Pages :
              Holders(x)' = IF x = p THEN Holders(x) \cup {q} ELSE Holders(x)
<1>1. /\ table[q] \in Seq(Pages) /\ freed[q] \in Nat /\ freed[q] <= Len(table[q])
      /\ table'[q] = Append(table[q], p)
      /\ \A r \in Seqs \ {q} : table'[r] = table[r]
  BY DEF TypeOK
<1>2. /\ Len(table'[q]) = Len(table[q]) + 1
      /\ table'[q][Len(table[q]) + 1] = p
      /\ \A i \in 1 .. Len(table[q]) : table'[q][i] = table[q][i]
  BY <1>1
<1>3. ASSUME NEW r \in Seqs, NEW x \in Pages
      PROVE  Holds(r, x)' <=> Holds(r, x) \/ (r = q /\ x = p)
  <2>1. CASE r # q
    BY <2>1, <1>1 DEF Holds
  <2>2. CASE r = q
    <3>1. ASSUME Holds(q, x)' PROVE Holds(q, x) \/ x = p
      BY <3>1, <1>1, <1>2 DEF Holds
    <3>2. ASSUME Holds(q, x) PROVE Holds(q, x)'
      BY <3>2, <1>1, <1>2 DEF Holds
    <3>3. Holds(q, p)'
      BY <1>1, <1>2 DEF Holds
    <3> QED
      BY <3>1, <3>2, <3>3, <2>2
  <2> QED
    BY <2>1, <2>2
<1> QED
  BY <1>3 DEF Holders

\* A page that is freed loses q, and only the page that is freed.
LEMMA HoldersFree ==
  ASSUME TypeOK, NoRepeats, NEW q \in Seqs, freed[q] < Len(table[q]),
         table' = table, freed' = [freed EXCEPT ![q] = @ + 1]
  PROVE  LET p == table[q][freed[q] + 1]
         IN  /\ p \in Pages /\ Holds(q, p)
             /\ \A r \in Seqs, x \in Pages :
                  Holds(r, x)' <=> Holds(r, x) /\ ~(r = q /\ x = p)
             /\ \A x \in Pages :
                  Holders(x)' = IF x = p THEN Holders(x) \ {q} ELSE Holders(x)
<1> DEFINE p == table[q][freed[q] + 1]
<1>1. /\ table[q] \in Seq(Pages) /\ freed[q] \in Nat
      /\ freed'[q] = freed[q] + 1
      /\ \A r \in Seqs \ {q} : freed'[r] = freed[r]
  BY DEF TypeOK
<1>2. freed[q] + 1 \in freed[q] + 1 .. Len(table[q]) /\ p \in Pages
  BY <1>1
<1>3. Holds(q, p)
  BY <1>2 DEF Holds
<1>4. ASSUME NEW r \in Seqs, NEW x \in Pages
      PROVE  Holds(r, x)' <=> Holds(r, x) /\ ~(r = q /\ x = p)
  <2>1. CASE r # q
    BY <2>1, <1>1 DEF Holds
  <2>2. CASE r = q
    <3>1. ASSUME NEW i \in freed[q] + 2 .. Len(table[q]), table[q][i] = x
          PROVE  Holds(q, x) /\ x # p
      <4>1. i \in freed[q] + 1 .. Len(table[q]) /\ i # freed[q] + 1
        BY <1>1
      <4>2. table[q][i] # table[q][freed[q] + 1]
        BY <4>1, <1>2 DEF NoRepeats
      <4> QED
        BY <3>1, <4>1, <4>2 DEF Holds
    <3>2. ASSUME NEW i \in freed[q] + 1 .. Len(table[q]), table[q][i] = x, x # p
          PROVE  i \in freed[q] + 2 .. Len(table[q])
      BY <3>2, <1>1
    <3>3. Holds(q, x)' <=> \E i \in freed[q] + 2 .. Len(table[q]) : table[q][i] = x
      BY <1>1 DEF Holds
    <3> QED
      BY <3>1, <3>2, <3>3, <2>2 DEF Holds
  <2> QED
    BY <2>1, <2>2
<1>5. \A x \in Pages : Holders(x)' = IF x = p THEN Holders(x) \ {q} ELSE Holders(x)
  BY <1>4 DEF Holders
<1> QED
  BY <1>2, <1>3, <1>4, <1>5

\* Emptying a table whose pages have all been freed changes no holder.
LEMMA HoldersLeave ==
  ASSUME TypeOK, NEW q \in Seqs, freed[q] = Len(table[q]),
         table' = [table EXCEPT ![q] = <<>>], freed' = [freed EXCEPT ![q] = 0]
  PROVE  /\ \A r \in Seqs, x \in Pages : Holds(r, x)' <=> Holds(r, x)
         /\ \A x \in Pages : Holders(x)' = Holders(x)
<1>1. /\ freed[q] \in Nat /\ table'[q] = <<>> /\ freed'[q] = 0
      /\ \A r \in Seqs \ {q} : table'[r] = table[r] /\ freed'[r] = freed[r]
  BY DEF TypeOK
<1>2. \A r \in Seqs, x \in Pages : Holds(r, x)' <=> Holds(r, x)
  BY <1>1 DEF Holds
<1> QED
  BY <1>2 DEF Holders

\* What is unheld is free, and held pages are not in the free list.
LEMMA HeldNotFree ==
  ASSUME IInv, NEW p \in Pages
  PROVE  /\ pool.ref[p] = 0 <=> Holders(p) = {}
         /\ InSeq(pool.free, p) <=> Holders(p) = {}
<1>1. pool.ref[p] = 0 <=> Holders(p) = {}
  BY HoldersFinite, FS_EmptySet DEF IInv, RefsCountHolders
<1> QED
  BY <1>1 DEF IInv, FreeIffUnheld, InSeq

LEMMA InitIInv == Init => IInv
<1> SUFFICES ASSUME Init PROVE IInv
  OBVIOUS
<1> USE DEF Init, EmptyPool
<1>0. NumPages \in Nat \ {0} /\ pool.free \in Seq(Pages) /\ Len(pool.free) = NumPages
  BY PagesAssumption DEF Pages
<1>1. TypeOK
  BY <1>0, ChainAssumption DEF TypeOK
<1>2. FreeIffUnheld
  <2>1. ASSUME NEW p \in Pages PROVE pool.ref[p] = 0 /\ pool.free[p + 1] = p /\ p + 1 \in 1 .. NumPages
    BY <1>0 DEF Pages
  <2>2. \A p \in Pages : pool.ref[p] = 0 /\ \E i \in 1 .. Len(pool.free) : pool.free[i] = p
    BY <2>1, <1>0
  <2>3. \A i \in 1 .. Len(pool.free) : pool.free[i] = i - 1
    BY <1>0
  <2>4. \A i, j \in 1 .. Len(pool.free) : pool.free[i] = pool.free[j] => i = j
    BY <2>3, <1>0
  <2> QED
    BY <2>2, <2>4 DEF FreeIffUnheld
<1>3. \A p \in Pages : Holders(p) = {}
  BY DEF Holders, Holds
<1>4. RefsCountHolders
  BY <1>3, FS_EmptySet DEF RefsCountHolders
<1>5. CacheEntriesAgree /\ OwnPrefixOnly /\ NoRepeats /\ PrivatePages
  BY DEF CacheEntriesAgree, OwnPrefixOnly, NoRepeats, PrivatePages, Holds
<1> QED
  BY <1>1, <1>2, <1>4, <1>5 DEF IInv

-----------------------------------------------------------------------------
(* Every call of the segment preserves it. *)

\* What the counts of the held pages become when q takes p.
LEMMA CountTaken ==
  ASSUME IInv, NEW q \in Seqs, NEW p \in Pages, ~Holds(q, p)
  PROVE  Cardinality(Holders(p) \cup {q}) = pool.ref[p] + 1
<1>1. q \notin Holders(p)
  BY DEF Holders
<1>2. IsFiniteSet(Holders(p)) /\ pool.ref[p] = Cardinality(Holders(p))
  BY HoldersFinite DEF IInv, RefsCountHolders
<1> QED
  BY <1>1, <1>2, FS_AddElement

LEMMA CountGiven ==
  ASSUME IInv, NEW q \in Seqs, NEW p \in Pages, Holds(q, p)
  PROVE  Cardinality(Holders(p) \ {q}) = pool.ref[p] - 1 /\ pool.ref[p] \in Nat \ {0}
<1>1. q \in Holders(p)
  BY DEF Holders
<1>2. Cardinality(Holders(p) \ {q}) = pool.ref[p] - 1
  BY <1>1, HoldersFinite, FS_RemoveElement DEF IInv, RefsCountHolders
<1>3. pool.ref[p] \in Nat /\ pool.ref[p] # 0
  BY <1>1, HeldNotFree DEF IInv, TypeOK
<1> QED
  BY <1>2, <1>3

LEMMA NoRepeatsAppend ==
  ASSUME IInv, NEW q \in Seqs, NEW p \in Pages, ~Holds(q, p),
         table' = [table EXCEPT ![q] = Append(@, p)], freed' = freed
  PROVE  NoRepeats'
<1>1. /\ table[q] \in Seq(Pages) /\ freed[q] \in Nat /\ freed[q] <= Len(table[q])
      /\ table'[q] = Append(table[q], p)
      /\ \A r \in Seqs \ {q} : table'[r] = table[r]
  BY DEF IInv, TypeOK
<1>2. /\ Len(table'[q]) = Len(table[q]) + 1
      /\ table'[q][Len(table[q]) + 1] = p
      /\ \A i \in 1 .. Len(table[q]) : table'[q][i] = table[q][i]
  BY <1>1
<1>3. ASSUME NEW r \in Seqs, NEW i \in freed[r] + 1 .. Len(table'[r]),
             NEW j \in freed[r] + 1 .. Len(table'[r]), table'[r][i] = table'[r][j]
      PROVE  i = j
  <2>1. CASE r # q
    BY <2>1, <1>1, <1>3 DEF IInv, NoRepeats
  <2>2. CASE r = q
    <3>1. \A k \in freed[q] + 1 .. Len(table[q]) : table[q][k] # p
      BY DEF Holds
    <3>2. \A k, l \in freed[q] + 1 .. Len(table[q]) : table[q][k] = table[q][l] => k = l
      BY DEF IInv, NoRepeats
    <3> QED
      BY <3>1, <3>2, <2>2, <1>1, <1>2, <1>3
  <2> QED
    BY <2>1, <2>2
<1> QED
  BY <1>3 DEF NoRepeats

LEMMA HasComputedIInv ==
  ASSUME IInv, NEW q \in Seqs, HasComputed(q)
  PROVE  IInv'
<1> DEFINE h == Chain[q][NextIndex(q)]
           p == pool.h2p[h]
<1> USE DEF IInv
<1>0. /\ pool' = Share(pool, p)
      /\ table' = [table EXCEPT ![q] = Append(@, p)]
      /\ looking' = looking /\ full' = full /\ freed' = freed
      /\ NextIndex(q) <= full[q] /\ h \in DOMAIN pool.h2p
  BY DEF HasComputed, Cached
<1>1. /\ table[q] \in Seq(Pages) /\ freed[q] \in Nat /\ freed[q] <= Len(table[q])
      /\ full[q] \in Nat /\ full[q] <= Len(Chain[q]) /\ NextIndex(q) = Len(table[q]) + 1
      /\ NextIndex(q) \in 1 .. Len(Chain[q])
  BY <1>0, ChainAssumption DEF TypeOK, NextIndex
<1>2. p \in Pages /\ h \in Hashes /\ pool.p2h[p] = h /\ pool.p2h[p] # NoHash
  BY <1>0, ChainAssumption DEF TypeOK, CacheEntriesAgree
<1>3. ~Holds(q, p)
  <2> SUFFICES ASSUME NEW i \in freed[q] + 1 .. Len(table[q]), table[q][i] = p
               PROVE  FALSE
    BY DEF Holds
  <2>1. i <= full[q] /\ h = Chain[q][i]
    BY <1>2 DEF OwnPrefixOnly
  <2>2. i \in 1 .. Len(Chain[q]) /\ Chain[q][i] = Chain[q][NextIndex(q)]
    BY <2>1, <1>1
  <2>3. i = NextIndex(q)
    BY <2>2, <1>1, ChainAssumption
  <2> QED
    BY <2>3, <1>1
<1> HIDE DEF p, h
<1>4. /\ pool'.ref = [pool.ref EXCEPT ![p] = @ + 1]
      /\ pool'.free = Without(pool.free, p)
      /\ pool'.p2h = pool.p2h /\ pool'.h2p = pool.h2p
      /\ pool' = [free |-> pool'.free, ref |-> pool'.ref, p2h |-> pool'.p2h, h2p |-> pool'.h2p]
  BY <1>0 DEF Share, TypeOK
<1>5. /\ \A r \in Seqs, x \in Pages : Holds(r, x)' <=> Holds(r, x) \/ (r = q /\ x = p)
      /\ \A x \in Pages : Holders(x)' = IF x = p THEN Holders(x) \cup {q} ELSE Holders(x)
  BY <1>0, <1>2, HoldersAppend
<1>6. /\ Without(pool.free, p) \in Seq(Pages)
      /\ Injective(Without(pool.free, p))
      /\ \A y : InSeq(Without(pool.free, p), y) <=> InSeq(pool.free, y) /\ y # p
  <2>1. pool.free \in Seq(Pages) /\ Injective(pool.free)
    BY DEF TypeOK, FreeIffUnheld, Injective
  <2> QED
    BY <2>1, WithoutOK
<1>7. /\ table'[q] = Append(table[q], p) /\ table'[q] \in Seq(Pages)
      /\ Len(table'[q]) = Len(table[q]) + 1
      /\ table'[q][Len(table[q]) + 1] = p
      /\ \A i \in 1 .. Len(table[q]) : table'[q][i] = table[q][i]
      /\ \A r \in Seqs \ {q} : table'[r] = table[r]
      /\ table' \in [Seqs -> Seq(Pages)]
  BY <1>0, <1>1, <1>2 DEF TypeOK
<1>8. TypeOK'
  <2>1. pool'.ref \in [Pages -> Nat]
    BY <1>4, <1>2 DEF TypeOK
  <2>2. ASSUME NEW r \in Seqs PROVE freed[r] <= Len(table'[r])
    <3>1. CASE r = q
      BY <3>1, <1>7, <1>1
    <3>2. CASE r # q
      BY <3>2, <1>7 DEF TypeOK
    <3> QED
      BY <3>1, <3>2
  <2> QED
    BY <2>1, <2>2, <1>0, <1>4, <1>6, <1>7 DEF TypeOK
<1>9. RefsCountHolders'
  <2> SUFFICES ASSUME NEW x \in Pages PROVE pool'.ref[x] = Cardinality(Holders(x)')
    BY DEF RefsCountHolders
  <2>1. CASE x = p
    <3>1. Holders(x)' = Holders(p) \cup {q} /\ pool'.ref[x] = pool.ref[p] + 1
      BY <2>1, <1>4, <1>5, <1>2 DEF TypeOK
    <3>2. Cardinality(Holders(p) \cup {q}) = pool.ref[p] + 1
      BY <1>2, <1>3, CountTaken
    <3> QED
      BY <3>1, <3>2
  <2>2. CASE x # p
    BY <2>2, <1>4, <1>5, <1>2 DEF RefsCountHolders, TypeOK
  <2> QED
    BY <2>1, <2>2
<1>10. FreeIffUnheld'
  <2>1. ASSUME NEW x \in Pages PROVE pool'.ref[x] = 0 <=> InSeq(pool'.free, x)
    <3>1. pool.ref[x] \in Nat /\ (pool.ref[x] = 0 <=> InSeq(pool.free, x))
      BY DEF FreeIffUnheld, InSeq, TypeOK
    <3>2. pool'.ref[x] = IF x = p THEN pool.ref[x] + 1 ELSE pool.ref[x]
      BY <1>4, <1>2 DEF TypeOK
    <3>3. InSeq(pool'.free, x) <=> InSeq(pool.free, x) /\ x # p
      BY <1>4, <1>6
    <3> QED
      BY <3>1, <3>2, <3>3
  <2> QED
    BY <2>1, <1>6, <1>4 DEF FreeIffUnheld, InSeq, Injective
<1>11. CacheEntriesAgree'
  BY <1>4 DEF CacheEntriesAgree
<1>12. OwnPrefixOnly'
  <2> SUFFICES ASSUME NEW r \in Seqs, NEW i \in freed[r] + 1 .. Len(table'[r]),
                      pool'.p2h[table'[r][i]] # NoHash
               PROVE  i <= full[r] /\ pool'.p2h[table'[r][i]] = Chain[r][i]
    BY <1>0 DEF OwnPrefixOnly
  <2>1. CASE r = q /\ i = Len(table[q]) + 1
    BY <2>1, <1>0, <1>1, <1>2, <1>4, <1>7 DEF h
  <2>2. CASE ~(r = q /\ i = Len(table[q]) + 1)
    <3>1. i \in freed[r] + 1 .. Len(table[r]) /\ table'[r][i] = table[r][i]
      <4>1. Len(table[r]) \in Nat /\ freed[r] \in Nat
        BY DEF TypeOK
      <4>2. CASE r # q
        BY <4>2, <1>7
      <4>3. CASE r = q /\ i <= Len(table[q])
        BY <4>1, <4>3, <1>7
      <4> QED
        BY <4>1, <4>2, <4>3, <2>2, <1>7
    <3> QED
      BY <3>1, <1>4 DEF OwnPrefixOnly
  <2> QED
    BY <2>1, <2>2
<1>13. NoRepeats'
  BY <1>0, <1>2, <1>3, NoRepeatsAppend
<1>14. PrivatePages'
  BY <1>2, <1>4, <1>5 DEF PrivatePages
<1> QED
  BY <1>8, <1>9, <1>10, <1>11, <1>12, <1>13, <1>14

LEMMA AllocateIInv ==
  ASSUME IInv, NEW q \in Seqs, Allocate(q)
  PROVE  IInv'
<1> DEFINE p == Head(pool.free)
           h == HashFor(q, NextIndex(q))
           rest == Unbind(pool.h2p, pool.p2h[p])
<1> USE DEF IInv
<1>0. /\ pool' = Mint(pool, h)
      /\ table' = [table EXCEPT ![q] = Append(@, p)]
      /\ looking' = [looking EXCEPT ![q] = FALSE] /\ full' = full /\ freed' = freed
      /\ NextIndex(q) <= full[q] + 1 /\ pool.free # <<>>
  BY DEF Allocate
<1>1. /\ table[q] \in Seq(Pages) /\ freed[q] \in Nat /\ freed[q] <= Len(table[q])
      /\ full[q] \in Nat /\ full[q] <= Len(Chain[q]) /\ NextIndex(q) = Len(table[q]) + 1
  BY <1>0, ChainAssumption DEF TypeOK, NextIndex
<1>2. /\ p \in Pages /\ InSeq(pool.free, p)
      /\ Tail(pool.free) \in Seq(Pages)
      /\ Injective(Tail(pool.free))
      /\ \A y : InSeq(Tail(pool.free), y) <=> InSeq(pool.free, y) /\ y # p
  <2>1. pool.free \in Seq(Pages) /\ Injective(pool.free)
    BY DEF TypeOK, FreeIffUnheld, Injective
  <2> QED
    BY <2>1, <1>0, TailOK
<1>3. \A r \in Seqs : ~Holds(r, p)
  BY <1>2, HeldNotFree DEF Holders
<1>4. h = NoHash \/ (h \in Hashes /\ NextIndex(q) <= full[q] /\ h = Chain[q][NextIndex(q)])
  BY <1>1, ChainAssumption DEF HashFor
<1>5. /\ pool'.ref = [pool.ref EXCEPT ![p] = @ + 1]
      /\ pool'.free = Tail(pool.free)
      /\ pool'.p2h = [pool.p2h EXCEPT ![p] = h]
      /\ pool'.h2p = IF h = NoHash THEN rest ELSE Bind(rest, h, p)
      /\ pool' = [free |-> pool'.free, ref |-> pool'.ref, p2h |-> pool'.p2h, h2p |-> pool'.h2p]
  BY <1>0 DEF Mint
<1> HIDE DEF p, h, rest
<1>6. /\ \A r \in Seqs, x \in Pages : Holds(r, x)' <=> Holds(r, x) \/ (r = q /\ x = p)
      /\ \A x \in Pages : Holders(x)' = IF x = p THEN Holders(x) \cup {q} ELSE Holders(x)
  BY <1>0, <1>2, HoldersAppend
<1>7. /\ table'[q] = Append(table[q], p) /\ table'[q] \in Seq(Pages)
      /\ Len(table'[q]) = Len(table[q]) + 1
      /\ table'[q][Len(table[q]) + 1] = p
      /\ \A i \in 1 .. Len(table[q]) : table'[q][i] = table[q][i]
      /\ \A r \in Seqs \ {q} : table'[r] = table[r]
      /\ table' \in [Seqs -> Seq(Pages)]
  BY <1>0, <1>1, <1>2 DEF TypeOK
<1>8. /\ DOMAIN pool'.h2p \subseteq Hashes
      /\ pool'.h2p \in [DOMAIN pool'.h2p -> Pages]
      /\ \A g \in DOMAIN pool'.h2p :
           \/ g = h /\ h # NoHash /\ pool'.h2p[g] = p
           \/ g # pool.p2h[p] /\ g \in DOMAIN pool.h2p /\ pool'.h2p[g] = pool.h2p[g]
  <2>1. /\ DOMAIN rest = DOMAIN pool.h2p \ {pool.p2h[p]}
        /\ \A g \in DOMAIN rest : rest[g] = pool.h2p[g]
        /\ rest \in [DOMAIN rest -> Pages]
    BY DEF Unbind, TypeOK, rest
  <2>2. CASE h = NoHash
    BY <2>1, <2>2, <1>5 DEF TypeOK
  <2>3. CASE h # NoHash
    <3>1. /\ DOMAIN pool'.h2p = DOMAIN rest \cup {h}
          /\ \A g \in DOMAIN pool'.h2p : pool'.h2p[g] = IF g = h THEN p ELSE rest[g]
          /\ pool'.h2p = [g \in DOMAIN rest \cup {h} |-> IF g = h THEN p ELSE rest[g]]
      BY <2>3, <1>5 DEF Bind
    <3> QED
      BY <3>1, <2>1, <2>3, <1>2, <1>4 DEF TypeOK
  <2> QED
    BY <2>2, <2>3
<1>9. TypeOK'
  <2>1. pool'.ref \in [Pages -> Nat] /\ pool'.p2h \in [Pages -> Hashes \cup {NoHash}]
    BY <1>5, <1>2, <1>4 DEF TypeOK
  <2>2. ASSUME NEW r \in Seqs PROVE freed[r] <= Len(table'[r])
    <3>1. CASE r = q
      BY <3>1, <1>7, <1>1
    <3>2. CASE r # q
      BY <3>2, <1>7 DEF TypeOK
    <3> QED
      BY <3>1, <3>2
  <2>3. pool'.free \in Seq(Pages) /\ looking' \in [Seqs -> BOOLEAN]
    BY <1>0, <1>2, <1>5 DEF TypeOK
  <2> QED
    BY <2>1, <2>2, <2>3, <1>0, <1>5, <1>7, <1>8 DEF TypeOK
<1>10. RefsCountHolders'
  <2> SUFFICES ASSUME NEW x \in Pages PROVE pool'.ref[x] = Cardinality(Holders(x)')
    BY DEF RefsCountHolders
  <2>1. CASE x = p
    <3>1. Holders(x)' = Holders(p) \cup {q} /\ pool'.ref[x] = pool.ref[p] + 1
      BY <2>1, <1>5, <1>6, <1>2 DEF TypeOK
    <3>2. Cardinality(Holders(p) \cup {q}) = pool.ref[p] + 1
      BY <1>2, <1>3, CountTaken
    <3> QED
      BY <3>1, <3>2
  <2>2. CASE x # p
    BY <2>2, <1>5, <1>6, <1>2 DEF RefsCountHolders, TypeOK
  <2> QED
    BY <2>1, <2>2
<1>11. FreeIffUnheld'
  <2>1. ASSUME NEW x \in Pages PROVE pool'.ref[x] = 0 <=> InSeq(pool'.free, x)
    <3>1. pool.ref[x] \in Nat /\ (pool.ref[x] = 0 <=> InSeq(pool.free, x))
      BY DEF FreeIffUnheld, InSeq, TypeOK
    <3>2. pool'.ref[x] = IF x = p THEN pool.ref[x] + 1 ELSE pool.ref[x]
      BY <1>5, <1>2 DEF TypeOK
    <3>3. InSeq(pool'.free, x) <=> InSeq(pool.free, x) /\ x # p
      BY <1>5, <1>2
    <3> QED
      BY <3>1, <3>2, <3>3
  <2> QED
    BY <2>1, <1>2, <1>5 DEF FreeIffUnheld, InSeq, Injective
<1>12. CacheEntriesAgree'
  <2> SUFFICES ASSUME NEW g \in DOMAIN pool'.h2p PROVE pool'.p2h[pool'.h2p[g]] = g
    BY DEF CacheEntriesAgree
  <2>1. CASE g = h /\ pool'.h2p[g] = p
    BY <2>1, <1>2, <1>5 DEF TypeOK
  <2>2. CASE g # pool.p2h[p] /\ g \in DOMAIN pool.h2p /\ pool'.h2p[g] = pool.h2p[g]
    <3>1. pool.h2p[g] \in Pages /\ pool.p2h[pool.h2p[g]] = g
      BY <2>2 DEF CacheEntriesAgree, TypeOK
    <3> QED
      BY <3>1, <2>2, <1>5 DEF TypeOK
  <2> QED
    BY <2>1, <2>2, <1>8
<1>13. OwnPrefixOnly'
  <2> SUFFICES ASSUME NEW r \in Seqs, NEW i \in freed[r] + 1 .. Len(table'[r]),
                      pool'.p2h[table'[r][i]] # NoHash
               PROVE  i <= full[r] /\ pool'.p2h[table'[r][i]] = Chain[r][i]
    BY <1>0 DEF OwnPrefixOnly
  <2>1. CASE r = q /\ i = Len(table[q]) + 1
    BY <2>1, <1>1, <1>2, <1>4, <1>5, <1>7 DEF TypeOK
  <2>2. CASE ~(r = q /\ i = Len(table[q]) + 1)
    <3>1. i \in freed[r] + 1 .. Len(table[r]) /\ table'[r][i] = table[r][i]
      <4>1. CASE r = q
        BY <4>1, <2>2, <1>1, <1>7
      <4>2. CASE r # q
        BY <4>2, <1>7
      <4> QED
        BY <4>1, <4>2
    <3>2. table[r][i] # p /\ table[r][i] \in Pages
      BY <3>1, <1>3 DEF Holds, TypeOK
    <3>3. pool'.p2h[table[r][i]] = pool.p2h[table[r][i]]
      BY <3>2, <1>5 DEF TypeOK
    <3> QED
      BY <3>1, <3>3 DEF OwnPrefixOnly
  <2> QED
    BY <2>1, <2>2
<1>14. NoRepeats'
  BY <1>0, <1>2, <1>3, NoRepeatsAppend
<1>15. PrivatePages'
  <2>1. \A x \in Pages : x # p => pool'.p2h[x] = pool.p2h[x]
    BY <1>5 DEF TypeOK
  <2> SUFFICES ASSUME NEW x \in Pages, pool'.p2h[x] = NoHash,
                      NEW r \in Seqs, NEW t \in Seqs, Holds(r, x)', Holds(t, x)'
               PROVE  r = t
    BY DEF PrivatePages
  <2>2. CASE x = p
    BY <2>2, <1>3, <1>6
  <2>3. CASE x # p
    BY <2>3, <2>1, <1>6 DEF PrivatePages
  <2> QED
    BY <2>2, <2>3
<1> QED
  BY <1>9, <1>10, <1>11, <1>12, <1>13, <1>14, <1>15

LEMMA CompletePageIInv ==
  ASSUME IInv, NEW q \in Seqs, CompletePage(q)
  PROVE  IInv'
<1> DEFINE n == full[q] + 1
           h == Chain[q][n]
           p == table[q][n]
<1> USE DEF IInv
<1>0. /\ full' = [full EXCEPT ![q] = n] /\ full[q] \in Nat
      /\ pool' = IF full[q] < Len(table[q]) THEN Register(pool, p, h) ELSE pool
      /\ table' = table /\ looking' = looking /\ freed' = freed /\ freed[q] = 0
      /\ full[q] < Len(Chain[q])
  BY DEF CompletePage, TypeOK
<1>1. n \in 1 .. Len(Chain[q]) /\ h \in Hashes /\ h # NoHash
  <2>1. Chain[q] \in Seq(Hashes) /\ NoHash \notin Hashes
    BY ChainAssumption
  <2> QED
    BY <2>1, <1>0
<1>2. /\ \A r \in Seqs, x \in Pages : Holds(r, x)' <=> Holds(r, x)
      /\ \A x \in Pages : Holders(x)' = Holders(x)
  BY <1>0 DEF Holds, Holders
<1>3. /\ full' \in [Seqs -> Nat]
      /\ \A r \in Seqs : full[r] \in Nat /\ full[r] <= full'[r] /\ full'[r] <= Len(Chain[r])
  BY <1>0, <1>1 DEF TypeOK
<1>4. NoRepeats'
  BY <1>0 DEF NoRepeats
<1>5. CASE pool' = pool
  <2>1. TypeOK'
    BY <1>5, <1>0, <1>3 DEF TypeOK
  <2>2. RefsCountHolders' /\ FreeIffUnheld' /\ CacheEntriesAgree' /\ PrivatePages'
    BY <1>5, <1>2 DEF RefsCountHolders, FreeIffUnheld, CacheEntriesAgree, PrivatePages
  <2>3. OwnPrefixOnly'
    <3>1. OwnPrefixOnly /\ pool' = pool /\ table' = table /\ freed' = freed
      BY <1>5, <1>0
    <3> HIDE DEF IInv
    <3> SUFFICES ASSUME NEW r \in Seqs, NEW i \in freed[r] + 1 .. Len(table[r]),
                        pool.p2h[table[r][i]] # NoHash
                 PROVE  i <= full'[r] /\ pool.p2h[table[r][i]] = Chain[r][i]
      BY <3>1 DEF OwnPrefixOnly
    <3>2. i <= full[r] /\ pool.p2h[table[r][i]] = Chain[r][i]
      BY <3>1 DEF OwnPrefixOnly
    <3>3. freed[r] \in Nat
      BY DEF TypeOK, IInv
    <3> QED
      BY <3>2, <3>3, <1>3
  <2> QED
    BY <2>1, <2>2, <2>3, <1>4
<1>6. CASE pool' # pool
  <2>1. /\ n \in freed[q] + 1 .. Len(table[q]) /\ p \in Pages
        /\ h \notin DOMAIN pool.h2p
        /\ pool' = [pool EXCEPT !.p2h[p] = h, !.h2p = Bind(@, h, p)]
    BY <1>6, <1>0 DEF Register, TypeOK
  <2>2. pool.p2h[p] = NoHash
    <3>1. ~(n <= full[q])
      BY <1>0
    <3> QED
      BY <3>1, <2>1 DEF OwnPrefixOnly
  <2>3. \A r \in Seqs : Holds(r, p) <=> r = q
    <3>1. Holds(q, p)
      BY <2>1 DEF Holds
    <3> QED
      BY <3>1, <2>1, <2>2 DEF PrivatePages
  <2> HIDE DEF p, h
  <2>4. /\ pool'.free = pool.free /\ pool'.ref = pool.ref
        /\ pool'.p2h = [pool.p2h EXCEPT ![p] = h]
        /\ pool'.h2p = [g \in DOMAIN pool.h2p \cup {h} |-> IF g = h THEN p ELSE pool.h2p[g]]
        /\ pool' = [free |-> pool'.free, ref |-> pool'.ref, p2h |-> pool'.p2h, h2p |-> pool'.h2p]
    BY <2>1 DEF Bind, TypeOK
  <2>5. TypeOK'
    <3>1. pool'.p2h \in [Pages -> Hashes \cup {NoHash}]
      BY <2>4, <1>1, <2>1 DEF TypeOK
    <3>2. DOMAIN pool'.h2p \subseteq Hashes /\ pool'.h2p \in [DOMAIN pool'.h2p -> Pages]
      BY <2>4, <1>1, <2>1 DEF TypeOK
    <3>3. pool'.free \in Seq(Pages) /\ pool'.ref \in [Pages -> Nat]
      BY <2>4 DEF TypeOK
    <3>4. /\ table' \in [Seqs -> Seq(Pages)] /\ looking' \in [Seqs -> BOOLEAN]
          /\ full' \in [Seqs -> Nat] /\ freed' \in [Seqs -> Nat]
          /\ \A r \in Seqs : freed'[r] <= Len(table'[r]) /\ full'[r] <= Len(Chain[r])
      BY <1>0, <1>3 DEF TypeOK
    <3> QED
      BY <3>1, <3>2, <3>3, <3>4, <2>4 DEF TypeOK
  <2>6. RefsCountHolders' /\ FreeIffUnheld'
    BY <2>4, <1>2 DEF RefsCountHolders, FreeIffUnheld
  <2>7. CacheEntriesAgree'
    <3> SUFFICES ASSUME NEW g \in DOMAIN pool'.h2p PROVE pool'.p2h[pool'.h2p[g]] = g
      BY DEF CacheEntriesAgree
    <3>1. CASE g = h
      BY <3>1, <2>4, <2>1 DEF TypeOK
    <3>2. CASE g # h
      <4>1. g \in Hashes /\ pool.h2p[g] \in Pages /\ pool.p2h[pool.h2p[g]] = g
        BY <3>2, <2>4 DEF CacheEntriesAgree, TypeOK
      <4>2. pool.h2p[g] # p
        BY <4>1, <2>2, ChainAssumption
      <4> QED
        BY <4>1, <4>2, <3>2, <2>4 DEF TypeOK
    <3> QED
      BY <3>1, <3>2
  <2>8. OwnPrefixOnly'
    <3> SUFFICES ASSUME NEW r \in Seqs, NEW i \in freed[r] + 1 .. Len(table[r]),
                        pool'.p2h[table[r][i]] # NoHash
                 PROVE  i <= full'[r] /\ pool'.p2h[table[r][i]] = Chain[r][i]
      BY <1>0 DEF OwnPrefixOnly
    <3>0. table[r][i] \in Pages /\ i \in Int
      BY DEF TypeOK
    <3>1. CASE table[r][i] = p
      <4>1. r = q
        BY <3>1, <2>3 DEF Holds
      <4>2. i = n
        BY <4>1, <3>1, <2>1 DEF NoRepeats, p
      <4> QED
        BY <4>1, <4>2, <3>1, <2>4, <2>1, <1>0 DEF h, TypeOK
    <3>2. CASE table[r][i] # p
      <4>1. pool'.p2h[table[r][i]] = pool.p2h[table[r][i]]
        BY <3>0, <3>2, <2>4 DEF TypeOK
      <4>2. i <= full[r] /\ pool.p2h[table[r][i]] = Chain[r][i]
        BY <4>1 DEF OwnPrefixOnly
      <4> QED
        BY <4>1, <4>2, <3>0, <1>3
    <3> QED
      BY <3>1, <3>2
  <2>9. PrivatePages'
    <3>1. \A x \in Pages : pool'.p2h[x] = NoHash => pool.p2h[x] = NoHash
      BY <2>4, <2>1, <1>1 DEF TypeOK
    <3> QED
      BY <3>1, <1>2 DEF PrivatePages
  <2> QED
    BY <2>5, <2>6, <2>7, <2>8, <2>9, <1>4
<1> QED
  BY <1>5, <1>6

LEMMA FreePageIInv ==
  ASSUME IInv, NEW q \in Seqs, FreePage(q)
  PROVE  IInv'
<1> DEFINE p == table[q][freed[q] + 1]
<1> USE DEF IInv
<1>0. /\ freed' = [freed EXCEPT ![q] = @ + 1] /\ freed[q] < Len(table[q])
      /\ pool' = Drop(pool, p)
      /\ table' = table /\ looking' = looking /\ full' = full
  BY DEF FreePage
<1>1. /\ p \in Pages /\ Holds(q, p)
      /\ \A r \in Seqs, x \in Pages : Holds(r, x)' <=> Holds(r, x) /\ ~(r = q /\ x = p)
      /\ \A x \in Pages : Holders(x)' = IF x = p THEN Holders(x) \ {q} ELSE Holders(x)
  BY <1>0, HoldersFree
<1>2. Cardinality(Holders(p) \ {q}) = pool.ref[p] - 1 /\ pool.ref[p] \in Nat \ {0}
  BY <1>1, CountGiven
<1> HIDE DEF p
<1>3. /\ pool'.ref = [pool.ref EXCEPT ![p] = @ - 1]
      /\ pool'.free = IF pool.ref[p] = 1 THEN Append(pool.free, p) ELSE pool.free
      /\ pool'.p2h = pool.p2h /\ pool'.h2p = pool.h2p
      /\ pool' = [free |-> pool'.free, ref |-> pool'.ref, p2h |-> pool'.p2h, h2p |-> pool'.h2p]
  BY <1>0 DEF Drop, TypeOK
<1>4. pool.free \in Seq(Pages) /\ Injective(pool.free) /\ ~InSeq(pool.free, p)
  BY <1>1, <1>2 DEF TypeOK, FreeIffUnheld, Injective, InSeq
<1>5. /\ pool'.free \in Seq(Pages) /\ Injective(pool'.free)
      /\ \A y : InSeq(pool'.free, y) <=> InSeq(pool.free, y) \/ (y = p /\ pool.ref[p] = 1)
  BY <1>1, <1>3, <1>4, AppendOK
<1>6. \A r \in Seqs : freed[r] \in Nat /\ freed'[r] \in Nat /\ freed[r] <= freed'[r] /\ freed'[r] <= Len(table[r])
  <2> TAKE r \in Seqs
  <2>1. CASE r = q
    BY <2>1, <1>0 DEF TypeOK
  <2>2. CASE r # q
    BY <2>2, <1>0 DEF TypeOK
  <2> QED
    BY <2>1, <2>2
<1>7. \A r \in Seqs : \A i \in freed'[r] + 1 .. Len(table[r]) : i \in freed[r] + 1 .. Len(table[r])
  BY <1>6
<1>8. TypeOK'
  <2>1. pool'.ref \in [Pages -> Nat]
    BY <1>1, <1>2, <1>3 DEF TypeOK
  <2>2. freed' \in [Seqs -> Nat]
    BY <1>0, <1>6 DEF TypeOK
  <2> QED
    BY <2>1, <2>2, <1>0, <1>3, <1>5, <1>6 DEF TypeOK
<1>9. RefsCountHolders'
  <2> SUFFICES ASSUME NEW x \in Pages PROVE pool'.ref[x] = Cardinality(Holders(x)')
    BY DEF RefsCountHolders
  <2>1. CASE x = p
    <3>1. Holders(x)' = Holders(p) \ {q} /\ pool'.ref[x] = pool.ref[p] - 1
      BY <2>1, <1>1, <1>3 DEF TypeOK
    <3> QED
      BY <3>1, <1>2
  <2>2. CASE x # p
    BY <2>2, <1>1, <1>3 DEF RefsCountHolders, TypeOK
  <2> QED
    BY <2>1, <2>2
<1>10. FreeIffUnheld'
  <2>1. ASSUME NEW x \in Pages PROVE pool'.ref[x] = 0 <=> InSeq(pool'.free, x)
    <3>1. pool.ref[x] \in Nat /\ (pool.ref[x] = 0 <=> InSeq(pool.free, x))
      BY DEF FreeIffUnheld, InSeq, TypeOK
    <3>2. pool'.ref[x] = IF x = p THEN pool.ref[x] - 1 ELSE pool.ref[x]
      BY <1>1, <1>3 DEF TypeOK
    <3> QED
      BY <3>1, <3>2, <1>2, <1>4, <1>5
  <2> QED
    BY <2>1, <1>5 DEF FreeIffUnheld, InSeq, Injective
<1>11. CacheEntriesAgree'
  BY <1>3 DEF CacheEntriesAgree
<1>12. OwnPrefixOnly'
  BY <1>0, <1>3, <1>7 DEF OwnPrefixOnly
<1>13. NoRepeats'
  BY <1>0, <1>7 DEF NoRepeats
<1>14. PrivatePages'
  BY <1>1, <1>3 DEF PrivatePages
<1> QED
  BY <1>8, <1>9, <1>10, <1>11, <1>12, <1>13, <1>14

LEMMA LeaveIInv ==
  ASSUME IInv, NEW q \in Seqs, Leave(q)
  PROVE  IInv'
<1> USE DEF IInv
<1>0. /\ table' = [table EXCEPT ![q] = <<>>] /\ freed' = [freed EXCEPT ![q] = 0]
      /\ looking' = [looking EXCEPT ![q] = TRUE] /\ pool' = pool
      /\ freed[q] = Len(table[q])
      /\ full' = full \/ full' = [full EXCEPT ![q] = Start[q]]
  BY DEF Leave
<1>1. /\ \A r \in Seqs, x \in Pages : Holds(r, x)' <=> Holds(r, x)
      /\ \A x \in Pages : Holders(x)' = Holders(x)
  BY <1>0, HoldersLeave
<1>2. /\ table'[q] = <<>> /\ freed'[q] = 0
      /\ \A r \in Seqs \ {q} : table'[r] = table[r] /\ freed'[r] = freed[r] /\ full'[r] = full[r]
  BY <1>0 DEF TypeOK
<1>3. TypeOK'
  <2>1. full' \in [Seqs -> Nat] /\ \A r \in Seqs : full'[r] <= Len(Chain[r])
    BY <1>0, ChainAssumption DEF TypeOK
  <2>2. table' \in [Seqs -> Seq(Pages)] /\ freed' \in [Seqs -> Nat] /\ looking' \in [Seqs -> BOOLEAN]
    BY <1>0 DEF TypeOK
  <2>3. \A r \in Seqs : freed'[r] <= Len(table'[r])
    <3> TAKE r \in Seqs
    <3>1. CASE r = q
      BY <3>1, <1>2
    <3>2. CASE r # q
      BY <3>2, <1>2 DEF TypeOK
    <3> QED
      BY <3>1, <3>2
  <2> QED
    BY <2>1, <2>2, <2>3, <1>0 DEF TypeOK
<1>4. RefsCountHolders' /\ FreeIffUnheld' /\ CacheEntriesAgree' /\ PrivatePages'
  BY <1>0, <1>1 DEF RefsCountHolders, FreeIffUnheld, CacheEntriesAgree, PrivatePages
<1>5. \A r \in Seqs : \A i \in freed'[r] + 1 .. Len(table'[r]) : r # q
  BY <1>2
<1>6. OwnPrefixOnly'
  BY <1>0, <1>2, <1>5 DEF OwnPrefixOnly
<1>7. NoRepeats'
  BY <1>2, <1>5 DEF NoRepeats
<1> QED
  BY <1>3, <1>4, <1>6, <1>7

LEMMA StepIInv == IInv /\ [Next]_vars => IInv'
<1> SUFFICES ASSUME IInv, [Next]_vars PROVE IInv'
  OBVIOUS
<1>1. CASE Next
  <2>1. PICK q \in Seqs : HasComputed(q) \/ Allocate(q) \/ CompletePage(q) \/ FreePage(q) \/ Leave(q)
    BY <1>1 DEF Next
  <2> QED
    BY <2>1, HasComputedIInv, AllocateIInv, CompletePageIInv, FreePageIInv, LeaveIInv
<1>2. CASE UNCHANGED vars
  <2>1. pool' = pool /\ table' = table /\ looking' = looking /\ full' = full /\ freed' = freed
    BY <1>2 DEF vars
  <2>2. TypeOK' /\ FreeIffUnheld' /\ CacheEntriesAgree' /\ OwnPrefixOnly' /\ NoRepeats'
    BY <2>1 DEF IInv, TypeOK, FreeIffUnheld, CacheEntriesAgree, OwnPrefixOnly, NoRepeats
  <2>3. RefsCountHolders' /\ PrivatePages'
    BY <2>1 DEF IInv, RefsCountHolders, PrivatePages, Holders, Holds
  <2> QED
    BY <2>2, <2>3 DEF IInv
<1> QED
  BY <1>1, <1>2

-----------------------------------------------------------------------------
(* The theorems. *)

\* The invariant with the two facts that make it inductive.
THEOREM SegmentInvariance == Spec => []IInv
<1>1. IInv /\ [Next]_vars => IInv'
  BY StepIInv
<1> QED
  BY InitIInv, <1>1, PTL DEF Spec

\* The counts are those of the page tables: free() never fails its assertion and
\* no page is lost, for any number of sequences, prefixes and pages.
THEOREM CountsAreRight == Spec => []RefsCountHolders
<1>1. IInv => RefsCountHolders
  BY DEF IInv
<1> QED
  BY <1>1, SegmentInvariance, PTL

\* No held page is ever given away, and no unheld one is missing.
THEOREM FreeListIsRight == Spec => []FreeIffUnheld
<1>1. IInv => FreeIffUnheld
  BY DEF IInv
<1> QED
  BY <1>1, SegmentInvariance, PTL

\* What the segment keeps of its pages is right together: counts, free list and
\* cache entries, after every sequence of lookups, allocations, frees and preemptions.
THEOREM PoolIsExact == Spec => []PoolExact
<1>1. IInv => PoolExact
  BY DEF IInv, PoolExact
<1> QED
  BY <1>1, SegmentInvariance, PTL

\* Sharing never puts the KV of one prompt under another's.
THEOREM PrefixesAreTheirOwn == Spec => []OwnPrefixOnly
<1>1. IInv => OwnPrefixOnly
  BY DEF IInv
<1> QED
  BY <1>1, SegmentInvariance, PTL

LEMMA OwnersInit == Init => Owners!Init
<1> SUFFICES ASSUME Init PROVE Owners!Init
  OBVIOUS
<1>1. \A p \in Pages : Holders(p) = {}
  BY DEF Init, Holders, Holds
<1> QED
  BY <1>1 DEF Init, EmptyPool, Owners!Init

\* One owner more or less, as an EXCEPT.
LEMMA OwnersChange ==
  ASSUME NEW p \in Pages, NEW S,
         \A x \in Pages : Holders(x)' = IF x = p THEN S ELSE Holders(x)
  PROVE  [x \in Pages |-> Holders(x)'] = [[x \in Pages |-> Holders(x)] EXCEPT ![p] = S]
  OBVIOUS

LEMMA OwnersStep == IInv /\ [Next]_vars => [Owners!Next]_(Owners!vars)
<1> SUFFICES ASSUME IInv, [Next]_vars PROVE [Owners!Next]_(Owners!vars)
  OBVIOUS
<1> USE DEF IInv
<1>1. ASSUME NEW q \in Seqs, HasComputed(q)
      PROVE  Owners!Next
  <2> DEFINE h == Chain[q][NextIndex(q)]
             p == pool.h2p[h]
  <2>1. /\ pool' = Share(pool, p) /\ h \in DOMAIN pool.h2p
        /\ table' = [table EXCEPT ![q] = Append(@, p)] /\ freed' = freed
    BY <1>1 DEF HasComputed, Cached
  <2>2. p \in Pages /\ pool.p2h[p] = h /\ h # NoHash
    BY <2>1, ChainAssumption DEF TypeOK, CacheEntriesAgree
  <2>3. q \notin Holders(p)
    <3>1. NextIndex(q) \in 1 .. Len(Chain[q]) /\ NextIndex(q) = Len(table[q]) + 1
      BY <1>1, ChainAssumption DEF HasComputed, Cached, TypeOK, NextIndex
    <3> SUFFICES ASSUME NEW i \in freed[q] + 1 .. Len(table[q]), table[q][i] = p
                 PROVE  FALSE
      BY DEF Holders, Holds
    <3>2. i <= full[q] /\ Chain[q][i] = h /\ i \in 1 .. Len(table[q])
      <4>1. freed[q] \in Nat
        BY DEF TypeOK
      <4>2. i <= full[q] /\ pool.p2h[table[q][i]] = Chain[q][i]
        BY <2>2 DEF OwnPrefixOnly
      <4> QED
        BY <2>2, <4>1, <4>2
    <3>3. i \in 1 .. Len(Chain[q])
      BY <3>2 DEF TypeOK
    <3> QED
      BY <3>1, <3>2, <3>3, ChainAssumption
  <2> HIDE DEF p, h
  <2>4. \A x \in Pages : Holders(x)' = IF x = p THEN Holders(p) \cup {q} ELSE Holders(x)
    BY <2>1, <2>2, HoldersAppend
  <2>5. pool'.p2h = pool.p2h
    BY <2>1 DEF Share, TypeOK
  <2>6. Owners!TakeShared(p, q)
    BY <2>2, <2>3, <2>4, <2>5, OwnersChange DEF Owners!TakeShared
  <2> QED
    BY <2>2, <2>6 DEF Owners!Next
<1>2. ASSUME NEW q \in Seqs, Allocate(q)
      PROVE  Owners!Next
  <2> DEFINE p == Head(pool.free)
             h == HashFor(q, NextIndex(q))
  <2>1. /\ pool' = Mint(pool, h) /\ pool.free # <<>>
        /\ table' = [table EXCEPT ![q] = Append(@, p)] /\ freed' = freed
    BY <1>2 DEF Allocate
  <2>2. p \in Pages /\ Holders(p) = {}
    <3>1. p \in Pages /\ InSeq(pool.free, p)
      BY <2>1, TailOK DEF TypeOK, FreeIffUnheld, Injective
    <3> QED
      BY <3>1, HeldNotFree
  <2>3. h \in Hashes \cup {NoHash}
    BY ChainAssumption DEF HashFor, TypeOK, NextIndex
  <2> HIDE DEF p, h
  <2>4. \A x \in Pages : Holders(x)' = IF x = p THEN {q} ELSE Holders(x)
    BY <2>1, <2>2, HoldersAppend
  <2>5. pool'.p2h = [pool.p2h EXCEPT ![p] = h]
    BY <2>1 DEF Mint, p
  <2>6. Owners!TakeFresh(p, q, h)
    BY <2>2, <2>4, <2>5, OwnersChange DEF Owners!TakeFresh
  <2> QED
    BY <2>2, <2>3, <2>6 DEF Owners!Next
<1>3. ASSUME NEW q \in Seqs, CompletePage(q)
      PROVE  Owners!Next \/ UNCHANGED Owners!vars
  <2> DEFINE n == full[q] + 1
             h == Chain[q][n]
             p == table[q][n]
  <2>1. /\ pool' = IF full[q] < Len(table[q]) THEN Register(pool, p, h) ELSE pool
        /\ table' = table /\ freed' = freed /\ freed[q] = 0 /\ full[q] < Len(Chain[q])
    BY <1>3 DEF CompletePage
  <2>2. \A x \in Pages : Holders(x)' = Holders(x)
    BY <2>1 DEF Holders, Holds
  <2>3. CASE pool' = pool
    BY <2>2, <2>3 DEF Owners!vars
  <2>4. CASE pool' # pool
    <3>1. /\ n \in freed[q] + 1 .. Len(table[q]) /\ p \in Pages
          /\ pool' = [pool EXCEPT !.p2h[p] = h, !.h2p = Bind(@, h, p)]
      BY <2>4, <2>1 DEF Register, TypeOK
    <3>2. h \in Hashes
      <4>1. Chain[q] \in Seq(Hashes) /\ n \in 1 .. Len(Chain[q])
        BY <2>1, <3>1, ChainAssumption DEF TypeOK
      <4> QED
        BY <4>1
    <3>3. pool.p2h[p] = NoHash
      <4>1. ~(n <= full[q])
        BY DEF TypeOK
      <4> QED
        BY <4>1, <3>1 DEF OwnPrefixOnly
    <3>4. Holders(p) = {q}
      <4>1. Holds(q, p)
        BY <3>1 DEF Holds
      <4> QED
        BY <4>1, <3>1, <3>3 DEF PrivatePages, Holders
    <3> HIDE DEF p, h
    <3>5. pool'.p2h = [pool.p2h EXCEPT ![p] = h]
      BY <3>1 DEF TypeOK
    <3>6. Owners!Label(p, q, h)
      BY <2>2, <3>1, <3>3, <3>4, <3>5 DEF Owners!Label
    <3> QED
      BY <3>1, <3>2, <3>6 DEF Owners!Next
  <2> QED
    BY <2>3, <2>4
<1>4. ASSUME NEW q \in Seqs, FreePage(q)
      PROVE  Owners!Next
  <2> DEFINE p == table[q][freed[q] + 1]
  <2>1. pool' = Drop(pool, p)
    BY <1>4 DEF FreePage
  <2>2. /\ p \in Pages /\ Holds(q, p)
        /\ \A x \in Pages : Holders(x)' = IF x = p THEN Holders(x) \ {q} ELSE Holders(x)
    BY <1>4, HoldersFree DEF FreePage
  <2> HIDE DEF p
  <2>3. \A x \in Pages : Holders(x)' = IF x = p THEN Holders(p) \ {q} ELSE Holders(x)
    BY <2>2
  <2>4. q \in Holders(p)
    BY <2>2 DEF Holders
  <2>5. pool'.p2h = pool.p2h
    BY <2>1 DEF Drop, TypeOK
  <2>6. Owners!GiveBack(p, q)
    BY <2>2, <2>3, <2>4, <2>5, OwnersChange DEF Owners!GiveBack
  <2> QED
    BY <2>2, <2>6 DEF Owners!Next
<1>5. ASSUME NEW q \in Seqs, Leave(q)
      PROVE  UNCHANGED Owners!vars
  <2>1. pool' = pool /\ \A x \in Pages : Holders(x)' = Holders(x)
    BY <1>5, HoldersLeave DEF Leave
  <2> QED
    BY <2>1 DEF Owners!vars
<1>6. CASE UNCHANGED vars
  <2>1. pool' = pool /\ \A x \in Pages : Holders(x)' = Holders(x)
    BY <1>6 DEF vars, Holders, Holds
  <2> QED
    BY <2>1 DEF Owners!vars
<1> QED
  BY <1>1, <1>2, <1>3, <1>4, <1>5, <1>6 DEF Next

\* The segment implements the ownership of pages that it promises: a page that is
\* held keeps its prefix, and only pages with a prefix are shared.
THEOREM SegmentImplementsOwners == Spec => ImplementsOwners
<1>1. IInv /\ [Next]_vars => [Owners!Next]_(Owners!vars)
  BY OwnersStep
<1> QED
  BY OwnersInit, <1>1, SegmentInvariance, PTL DEF Spec, ImplementsOwners, Owners!Spec

-----------------------------------------------------------------------------
(* The front end. *)

\* A request goes from add_requests_async through both hand-off lists and one
\* package to its replica, and is in one place at a time.
InOnePlace ==
  /\ \A r \in adding : r \notin Range(wait) \cup Range(sending) /\ ~InPackage(r)
  /\ \A r \in Range(wait) : r \notin Range(sending) /\ ~InPackage(r)
  /\ \A r \in Range(sending) : ~InPackage(r)
  /\ \A i, j \in DOMAIN wait : wait[i] = wait[j] => i = j
  /\ \A i, j \in DOMAIN sending : sending[i] = sending[j] => i = j
  /\ \A d, e \in Replicas : \A k \in DOMAIN up[d], l \in DOMAIN up[e] :
       \A r \in up[d][k].new \cap up[e][l].new : d = e /\ k = l
  /\ \A r \in Carried : idOf[r] # 0 /\ (fate[r] = "new" \/ fate[r] = "live")
  /\ \A r \in Reqs : fate[r] # "new" => idOf[r] # 0
  /\ \A r \in Reqs : fate[r] = "live" =>
       r \notin adding \cup Range(wait) \cup Range(sending) /\ ~InPackage(r)

\* An id on its way back is nobody's, is not in the pool, and comes back once.
ComesBackOnce ==
  \A d \in Replicas : \A k \in DOMAIN down[d] : \A j \in DOMAIN down[d][k].frees :
    /\ \A r \in Carried : idOf[r] # down[d][k].frees[j]
    /\ \A n \in DOMAIN freeIds : freeIds[n] # down[d][k].frees[j]
    /\ \A e \in Replicas : \A l \in DOMAIN down[e] : \A m \in DOMAIN down[e][l].frees :
         down[d][k].frees[j] = down[e][l].frees[m] => d = e /\ k = l /\ j = m

\* Who reads under an id has it; the table has who is carried, and running_maps too
\* once it was sent.
TablesAgree ==
  /\ \A i \in DOMAIN streams : idOf[streams[i]] = i
  /\ \A r \in Carried :
       /\ idOf[r] \in DOMAIN streams /\ streams[idOf[r]] = r
       /\ r \notin adding \cup Range(wait) => idOf[r] \in DOMAIN running

\* A token under way is the next but those before it in the same socket, its id runs,
\* and is freed by no package before it.
TokenOK(d, k, a) ==
  LET r == a.token[1]
  IN  /\ a.id \in DOMAIN running /\ a.id \in DOMAIN streams /\ streams[a.id] = r
      /\ at[r] = d /\ fate[r] # "new"
      /\ a.token[2] \in Len(got[r]) + 1 .. Len(out[r])
      /\ \A e \in Replicas : \A l \in DOMAIN down[e] :
           a.id \in Range(down[e][l].frees) => e = d /\ k <= l
      /\ \A l \in DOMAIN down[d] : \A b \in down[d][l].acts :
           b.token[1] = r => (a.token[2] < b.token[2] <=> k < l)

TokensInOrder ==
  /\ \A d \in Replicas : \A k \in DOMAIN down[d] : \A a \in down[d][k].acts : TokenOK(d, k, a)
  /\ \A r \in Reqs : \A n \in Len(got[r]) + 1 .. Len(out[r]) :
       \E k \in DOMAIN down[at[r]] : \E a \in down[at[r]][k].acts : a.token = <<r, n>>

\* What was read is in order, and of a request that was closed it is all.
ReadInOrder ==
  \A r \in Reqs :
    /\ Len(got[r]) <= Len(out[r])
    /\ fate[r] = "new" => out[r] = <<>>
    /\ \A k \in DOMAIN got[r] : got[r][k] = <<r, k>>
    /\ r \in ended => Len(got[r]) = Len(out[r]) /\ fate[r] \notin {"new", "live"}

\* The ids to abort are those of clients that hung up.
HungIds == {idOf[r] : r \in hung}

AbortsOK ==
  /\ \A r \in hung : idOf[r] # 0
  /\ abortIds \cup aborting \subseteq HungIds
  /\ \A d \in Replicas : toAbort[d] \subseteq HungIds
  /\ \A d \in Replicas : \A k \in DOMAIN up[d] : up[d][k].aborts \subseteq HungIds
  /\ AbortsFollowAHangUp

FrontInv ==
  /\ TablesTyped /\ InOnePlace /\ IdsHeldOnce /\ ComesBackOnce
  /\ TablesAgree /\ TokensInOrder /\ ReadInOrder /\ AbortsOK

LEMMA FrontendConstants == NumIds \in Nat /\ DpSize \in Nat /\ DpSize > 0 /\ 0 \in Replicas
BY FrontendAssumption DEF Replicas

\* What an order of a set of ids is.
LEMMA OrderOfIds ==
  ASSUME NEW S \in SUBSET Ids, NEW s \in Orders(S)
  PROVE  /\ s \in Seq(Ids)
         /\ \A x : x \in S <=> \E j \in DOMAIN s : s[j] = x
         /\ \A i, j \in DOMAIN s : s[i] = s[j] => i = j
<1>1. s \in [1 .. Cardinality(S) -> S]
  BY DEF Orders, Bijection, Injection
<1>2. \A i, j \in DOMAIN s : s[i] = s[j] => i = j
  BY <1>1 DEF Orders, Bijection, Injection, IsInjective
<1>3. \A x : x \in S <=> \E j \in DOMAIN s : s[j] = x
  BY <1>1 DEF Orders, Bijection, Surjection
<1>4. Cardinality(S) \in Nat
  <2>1. IsFiniteSet(Ids)
    BY FrontendConstants, FS_Interval DEF Ids
  <2> QED
    BY <2>1, FS_Subset, FS_CardinalityType
<1>5. s \in Seq(Ids)
  BY <1>1, <1>4
<1> QED BY <1>2, <1>3, <1>5

LEMMA CarriedIds ==
  ASSUME TablesTyped, InOnePlace
  PROVE  /\ \A r \in Carried : r \in Reqs /\ idOf[r] \in Ids
         /\ \A d \in Replicas : \A r \in Live(d) : r \in Carried
         /\ Range(wait) \subseteq Carried /\ Range(sending) \subseteq Carried
<1>1. wait \in Seq(Reqs) /\ sending \in Seq(Reqs)
  BY DEF TablesTyped
<1>2. Range(wait) \subseteq Reqs /\ Range(sending) \subseteq Reqs
  BY <1>1 DEF Range
<1> QED
  BY <1>2 DEF TablesTyped, InOnePlace, Carried, Live, Ids

\* The types of what a package holds.
LEMMA PackageTypes ==
  ASSUME TablesTyped, NEW d \in Replicas
  PROVE  /\ down[d] \in Seq(Package)
         /\ \A k \in DOMAIN down[d] :
              /\ down[d][k] \in Package /\ down[d][k].frees \in Seq(Ids)
              /\ \A j \in DOMAIN down[d][k].frees : down[d][k].frees[j] \in Ids
              /\ \A a \in down[d][k].acts :
                   /\ a.id \in Ids /\ a.token \in Reqs \X Nat
                   /\ a.token[1] \in Reqs /\ a.token[2] \in Nat
                   /\ a = [id |-> a.id, token |-> a.token]
                   /\ a.token = <<a.token[1], a.token[2]>>
<1>1. down[d] \in Seq(Package)
  BY DEF TablesTyped
<1>2. ASSUME NEW k \in DOMAIN down[d]
      PROVE  down[d][k] \in Package
  BY <1>1, <1>2
<1>3. ASSUME NEW p \in Package
      PROVE  /\ p.frees \in Seq(Ids)
             /\ \A j \in DOMAIN p.frees : p.frees[j] \in Ids
             /\ \A a \in p.acts :
                  /\ a.id \in Ids /\ a.token \in Reqs \X Nat
                  /\ a.token[1] \in Reqs /\ a.token[2] \in Nat
                  /\ a = [id |-> a.id, token |-> a.token]
                  /\ a.token = <<a.token[1], a.token[2]>>
  <2>1. p.frees \in Seq(Ids) /\ p.acts \in SUBSET [id : Ids, token : Reqs \X Nat]
    BY DEF Package
  <2> QED BY <2>1
<1> QED BY <1>1, <1>2, <1>3

\* A replica puts a package into its socket: the next token of each request of T,
\* and the ids of those of D, which end.
NextTokens(T) == {[id |-> idOf[r], token |-> <<r, Len(out[r]) + 1>>] : r \in T}

Returns(d, T, D) ==
  /\ out' \in [Reqs -> Seq(Tokens)]
  /\ \A r \in Reqs : r \notin T => out'[r] = out[r]
  /\ \A r \in T : Len(out'[r]) = Len(out[r]) + 1
  /\ fate' \in [Reqs -> {"new", "live", "finished", "aborted"}]
  /\ \A r \in Reqs : r \notin D => fate'[r] = fate[r]
  /\ \A r \in D : fate'[r] \in {"finished", "aborted"}
  /\ \E order \in Orders({idOf[r] : r \in D}) :
       down' = [down EXCEPT ![d] = Append(@, [acts |-> NextTokens(T), frees |-> order])]

LEMMA ReturnShape ==
  ASSUME TablesTyped, NEW d \in Replicas, ReplicaAbort(d) \/ ReplicaAnswer(d)
  PROVE  \E T, D \in SUBSET Live(d) : Returns(d, T, D)
<1>1. CASE ReplicaAbort(d)
  <2>1. PICK S \in SUBSET Live(d) :
          /\ Replica!Abort(S)
          /\ \E order \in Orders({idOf[r] : r \in S}) :
               down' = [down EXCEPT ![d] = Append(@, [acts |-> {}, frees |-> order])]
    BY <1>1 DEF ReplicaAbort
  <2>2. NextTokens({}) = {}
    BY DEF NextTokens
  <2>3. S \subseteq Reqs
    BY DEF Live
  <2>4. Returns(d, {}, S)
    BY <2>1, <2>2, <2>3 DEF Returns, Replica!Abort, TablesTyped
  <2> QED BY <2>4
<1>2. CASE ReplicaAnswer(d)
  <2>1. PICK T \in SUBSET Live(d) : \E token \in [T -> Tokens] :
          /\ Replica!Answer(T, token)
          /\ \E order \in Orders({idOf[r] : r \in {q \in T : Replica!Ended(q, Append(out[q], token[q]))}}) :
               down' = [down EXCEPT ![d] = Append(@, [acts |-> NextTokens(T), frees |-> order])]
    BY <1>2 DEF ReplicaAnswer, NextTokens
  <2>2. PICK token \in [T -> Tokens] :
          /\ Replica!Answer(T, token)
          /\ \E order \in Orders({idOf[r] : r \in {q \in T : Replica!Ended(q, Append(out[q], token[q]))}}) :
               down' = [down EXCEPT ![d] = Append(@, [acts |-> NextTokens(T), frees |-> order])]
    BY <2>1
  <2> DEFINE D == {q \in T : Replica!Ended(q, Append(out[q], token[q]))}
  <2>3. T \subseteq Reqs
    BY DEF Live
  <2>4. \A r \in Reqs : out'[r] = IF r \in T THEN Append(out[r], token[r]) ELSE out[r]
    BY <2>2 DEF Replica!Answer
  <2>5. out' \in [Reqs -> Seq(Tokens)] /\ \A r \in T : Len(out'[r]) = Len(out[r]) + 1
    <3>1. \A r \in T : out[r] \in Seq(Tokens) /\ token[r] \in Tokens
      BY <2>3 DEF TablesTyped
    <3>2. out' = [r \in Reqs |-> out'[r]]
      BY <2>2 DEF Replica!Answer
    <3>3. \A r \in T : Append(out[r], token[r]) \in Seq(Tokens)
                       /\ Len(Append(out[r], token[r])) = Len(out[r]) + 1
      BY <3>1
    <3>4. \A r \in Reqs : out'[r] \in Seq(Tokens)
      <4>1. \A r \in Reqs : out[r] \in Seq(Tokens)
        BY DEF TablesTyped
      <4> QED BY <2>4, <3>3, <4>1
    <3> QED BY <2>3, <2>4, <3>2, <3>3, <3>4
  <2>6. fate' = [r \in Reqs |-> IF r \in D THEN "finished" ELSE fate[r]]
    BY <2>2, <2>4 DEF Replica!Answer
  <2>7. fate' \in [Reqs -> {"new", "live", "finished", "aborted"}]
        /\ (\A r \in Reqs : r \notin D => fate'[r] = fate[r])
        /\ \A r \in D : fate'[r] = "finished"
    <3> HIDE DEF D
    <3>1. D \subseteq Reqs
      BY <2>3 DEF D
    <3> QED BY <2>6, <3>1 DEF TablesTyped
  <2>8. Returns(d, T, D)
    BY <2>2, <2>4, <2>5, <2>7 DEF Returns
  <2> QED BY <2>8
<1> QED BY <1>1, <1>2

LEMMA FrontendTypes ==
  ASSUME TablesTyped, InOnePlace, TokensInOrder, [FNext]_fvars
  PROVE  TablesTyped'
<1> USE FrontendConstants
<1>1. ASSUME NEW r \in Reqs, AddRequestsAsync(r)
      PROVE  TablesTyped'
  <2>1. freeIds \in Seq(Ids) /\ freeIds # <<>> /\ idOf[r] = 0
    BY <1>1 DEF AddRequestsAsync, TablesTyped
  <2> DEFINE i == Head(freeIds)
  <2>2. i \in Ids /\ i \in 0 .. NumIds /\ Tail(freeIds) \in Seq(Ids)
    BY <2>1 DEF Ids
  <2>3. freeIds' \in Seq(Ids) /\ idOf' \in [Reqs -> 0 .. NumIds]
    BY <1>1, <2>1, <2>2 DEF AddRequestsAsync, TablesTyped
  <2>4. DOMAIN streams' \subseteq Ids /\ streams' \in [DOMAIN streams' -> Reqs]
    <3>1. CASE i \in DOMAIN streams
      BY <1>1, <3>1 DEF AddRequestsAsync, TablesTyped
    <3>2. CASE i \notin DOMAIN streams
      <4>1. streams' = Put(streams, i, r)
        BY <1>1, <3>2 DEF AddRequestsAsync
      <4> QED
        BY <4>1, <2>2 DEF TablesTyped, Put
    <3> QED BY <3>1, <3>2
  <2>5. adding' \subseteq Reqs /\ refused' \subseteq Reqs
    BY <1>1 DEF AddRequestsAsync, TablesTyped
  <2> QED
    BY <1>1, <2>3, <2>4, <2>5 DEF AddRequestsAsync, TablesTyped, hand, claim, route, engine, told
<1>2. ASSUME NEW r \in Reqs, HangUp(r)
      PROVE  TablesTyped'
  BY <1>2 DEF HangUp, TablesTyped, hand, claim, route, engine, told
<1>3. ASSUME NEW r \in Reqs, AddRequests(r)
      PROVE  TablesTyped'
  <2>1. wait' \in Seq(Reqs) /\ adding' \subseteq Reqs
    BY <1>3 DEF AddRequests, TablesTyped
  <2> QED
    BY <1>3, <2>1 DEF AddRequests, TablesTyped, claim, route, engine, told
<1>4. CASE CheckAbortSeqs
  <2>1. abortIds' \subseteq Ids /\ noticed' \subseteq Reqs /\ pc' = "recv"
    BY <1>4 DEF CheckAbortSeqs, TablesTyped
  <2> QED
    BY <1>4, <2>1 DEF CheckAbortSeqs, TablesTyped, client, claim, route, engine, told
<1>5. ASSUME NEW d \in Replicas, RecvOutput(d)
      PROVE  TablesTyped'
  <2> DEFINE p == Head(down[d])
             C == Closes(p)
  <2>1. down[d] \in Seq(Package) /\ down[d] # <<>>
    BY <1>5 DEF RecvOutput, TablesTyped
  <2>2. p \in Package /\ Tail(down[d]) \in Seq(Package)
    BY <2>1
  <2>3. p.acts \in SUBSET [id : Ids, token : Reqs \X Nat] /\ p.frees \in Seq(Ids)
    BY <2>2 DEF Package
  <2>4. down' \in [Replicas -> Seq(Package)]
    BY <1>5, <2>2 DEF RecvOutput, TablesTyped
  <2>5. freeIds' \in Seq(Ids)
    BY <1>5, <2>3 DEF RecvOutput, TablesTyped, GivenBack
  <2>6. DOMAIN running' \subseteq Ids /\ running' \in [DOMAIN running' -> Reqs]
    <3>1. running' = Minus(running, C)
      BY <1>5 DEF RecvOutput
    <3> QED BY <3>1 DEF TablesTyped, Minus
  <2>7. DOMAIN streams' \subseteq Ids /\ streams' \in [DOMAIN streams' -> Reqs]
    <3>1. streams' = Minus(streams, C)
      BY <1>5 DEF RecvOutput
    <3> QED BY <3>1 DEF TablesTyped, Minus
  <2>8. got' \in [Reqs -> Seq(Reqs \X Nat)]
    <3> DEFINE For(r) == {a \in Heard(p) : streams[a.id] = r}
    <3>1. got' = [r \in Reqs |-> IF For(r) = {} THEN got[r]
                                 ELSE Append(got[r], (CHOOSE a \in For(r) : TRUE).token)]
      BY <1>5 DEF RecvOutput
    <3>2. ASSUME NEW r \in Reqs
          PROVE  got'[r] \in Seq(Reqs \X Nat)
      <4>1. got[r] \in Seq(Reqs \X Nat)
        BY DEF TablesTyped
      <4>2. CASE For(r) = {}
        BY <3>1, <4>1, <4>2
      <4>3. CASE For(r) # {}
        <5>1. (CHOOSE a \in For(r) : TRUE) \in For(r)
          BY <4>3
        <5>2. (CHOOSE a \in For(r) : TRUE).token \in Reqs \X Nat
          BY <5>1, <2>3 DEF Heard
        <5> HIDE DEF For
        <5> QED BY <3>1, <4>1, <4>3, <5>2
      <4> QED BY <4>2, <4>3
    <3> HIDE DEF For
    <3> QED BY <3>1, <3>2
  <2>9. ended' \subseteq Reqs
    <3>1. 1 \in DOMAIN down[d] /\ p = down[d][1]
      BY <2>1
    <3>2. C \subseteq DOMAIN streams
      BY <3>1 DEF TokensInOrder, TokenOK, Closes, Heard
    <3>3. ended' = ended \cup {streams[i] : i \in C}
      BY <1>5 DEF RecvOutput
    <3> QED
      BY <3>2, <3>3 DEF TablesTyped
  <2> QED
    BY <1>5, <2>4, <2>5, <2>6, <2>7, <2>8, <2>9 DEF RecvOutput, TablesTyped, hand, claim, route, engine
<1>6. CASE RecvDone
  BY <1>6 DEF RecvDone, TablesTyped, client, hand, claim, route, engine, told
<1>7. CASE SendIpcPackage
  <2>1. Range(wait) \subseteq Reqs
    BY DEF TablesTyped, Range
  <2> DEFINE ran(i) == IF \E r \in Range(wait) : idOf[r] = i
                       THEN CHOOSE r \in Range(wait) : idOf[r] = i ELSE running[i]
  <2>2. running' = [i \in DOMAIN running \cup {idOf[r] : r \in Range(wait)} |-> ran(i)]
    BY <1>7 DEF SendIpcPackage
  <2>3. ASSUME NEW i \in DOMAIN running \cup {idOf[r] : r \in Range(wait)}
        PROVE  ran(i) \in Reqs
    BY <2>1 DEF TablesTyped
  <2>4. {idOf[r] : r \in Range(wait)} \subseteq Ids
    BY CarriedIds
  <2>5. DOMAIN running' \subseteq Ids /\ running' \in [DOMAIN running' -> Reqs]
    <3> HIDE DEF ran
    <3> QED
      BY <2>2, <2>3, <2>4 DEF TablesTyped
  <2>6. wait' \in Seq(Reqs) /\ sending' \in Seq(Reqs)
    BY <1>7 DEF SendIpcPackage, TablesTyped
  <2>7. abortIds' \cup aborting' \subseteq Ids /\ pc' = "post"
    BY <1>7 DEF SendIpcPackage, TablesTyped
  <2>8. UNCHANGED <<client, route, engine, told, streams, noticed, up, down>>
    BY <1>7 DEF SendIpcPackage
  <2> QED
    BY <2>5, <2>6, <2>7, <2>8 DEF TablesTyped, client, route, engine, told
<1>8. CASE SendNew
  <2>1. sending \in Seq(Reqs) /\ sending # <<>>
    BY <1>8 DEF SendNew, TablesTyped
  <2>2. Head(sending) \in Reqs /\ sending' \in Seq(Reqs)
    BY <1>8, <2>1 DEF SendNew
  <2>5. (rr + 1) % DpSize \in Replicas
    BY DEF TablesTyped, Replicas
  <2>3. rr' \in Replicas /\ at' \in [Reqs -> Replicas]
    BY <1>8, <2>2, <2>5 DEF SendNew, TablesTyped
  <2>4. up' \in [Replicas -> Seq(Letter)]
    <3> DEFINE box == [new |-> {Head(sending)}, aborts |-> {}]
    <3>1. box \in Letter
      BY <2>2 DEF Letter
    <3>2. up' = [up EXCEPT ![rr] = Append(@, box)]
      BY <1>8 DEF SendNew
    <3> HIDE DEF box
    <3> QED BY <3>1, <3>2 DEF TablesTyped
  <2> QED
    BY <1>8, <2>2, <2>3, <2>4 DEF SendNew, TablesTyped, client, hand, engine, told
<1>9. CASE SendAborts
  <2> DEFINE box == [new |-> {}, aborts |-> aborting]
  <2>1. box \in Letter
    BY DEF TablesTyped, Letter
  <2>2. up' = [d \in Replicas |-> IF aborting = {} THEN up[d] ELSE Append(up[d], box)]
    BY <1>9 DEF SendAborts
  <2>3. up' \in [Replicas -> Seq(Letter)]
    <3> HIDE DEF box
    <3> QED BY <2>1, <2>2 DEF TablesTyped
  <2> QED
    BY <1>9, <2>3 DEF SendAborts, TablesTyped, client, hand, route, engine, told
<1>10. ASSUME NEW d \in Replicas, ReplicaRecv(d)
       PROVE  TablesTyped'
  <2>1. up[d] \in Seq(Letter) /\ up[d] # <<>>
    BY <1>10 DEF ReplicaRecv, TablesTyped
  <2>2. Head(up[d]) \in Letter /\ Tail(up[d]) \in Seq(Letter)
    BY <2>1
  <2>6. Head(up[d]).aborts \subseteq Ids
    BY <2>2 DEF Letter
  <2>3. up' \in [Replicas -> Seq(Letter)]
    BY <1>10, <2>2 DEF ReplicaRecv, TablesTyped
  <2>4. toAbort' \in [Replicas -> SUBSET Ids]
    BY <1>10, <2>6 DEF ReplicaRecv, TablesTyped
  <2>5. fate' \in [Reqs -> {"new", "live", "finished", "aborted"}]
    BY <1>10 DEF ReplicaRecv, Replica!Admit, TablesTyped
  <2> QED
    BY <1>10, <2>3, <2>4, <2>5 DEF ReplicaRecv, Replica!Admit, TablesTyped, client, hand, claim, route, told
<1>11. ASSUME NEW d \in Replicas, ReplicaAbort(d) \/ ReplicaAnswer(d)
       PROVE  TablesTyped'
  <2>1. PICK T \in SUBSET Live(d), D \in SUBSET Live(d) : Returns(d, T, D)
    BY <1>11, ReturnShape
  <2>2. PICK order \in Orders({idOf[r] : r \in D}) :
          down' = [down EXCEPT ![d] = Append(@, [acts |-> NextTokens(T), frees |-> order])]
    BY <2>1 DEF Returns
  <2>3. T \subseteq Reqs /\ \A r \in T \cup D : idOf[r] \in Ids
    BY CarriedIds
  <2>4. [acts |-> NextTokens(T), frees |-> order] \in Package
    <3>1. NextTokens(T) \in SUBSET [id : Ids, token : Reqs \X Nat]
      <4>1. \A r \in T : idOf[r] \in Ids /\ <<r, Len(out[r]) + 1>> \in Reqs \X Nat
        BY <2>3 DEF TablesTyped
      <4> QED BY <4>1 DEF NextTokens
    <3>2. {idOf[r] : r \in D} \in SUBSET Ids
      BY <2>3
    <3> QED
      BY <3>1, <3>2, OrderOfIds DEF Package
  <2>5. down' \in [Replicas -> Seq(Package)]
    BY <2>2, <2>4 DEF TablesTyped
  <2>6. fate' \in [Reqs -> {"new", "live", "finished", "aborted"}] /\ out' \in [Reqs -> Seq(Tokens)]
    BY <2>1 DEF Returns
  <2>7. toAbort' \in [Replicas -> SUBSET Ids]
    <3>1. CASE ReplicaAbort(d)
      BY <3>1 DEF ReplicaAbort, TablesTyped
    <3>2. CASE ReplicaAnswer(d)
      BY <3>2 DEF ReplicaAnswer, TablesTyped
    <3> QED BY <1>11, <3>1, <3>2
  <2>8. UNCHANGED <<client, hand, claim, route, told, streams, noticed, running, pc, up>>
    BY <1>11 DEF ReplicaAbort, ReplicaAnswer
  <2> QED
    BY <2>5, <2>6, <2>7, <2>8 DEF TablesTyped, client, hand, claim, route, told
<1>12. CASE UNCHANGED fvars
  BY <1>12 DEF TablesTyped, fvars, client, hand, claim, route, engine, told
<1> QED
  BY <1>1, <1>2, <1>3, <1>4, <1>5, <1>6, <1>7, <1>8, <1>9, <1>10, <1>11, <1>12
  DEF FNext, Schedule

-----------------------------------------------------------------------------
\* Queues.
LEMMA RangeOfAppend ==
  ASSUME NEW S, NEW s \in Seq(S), NEW x
  PROVE  /\ Range(Append(s, x)) = Range(s) \cup {x}
         /\ (\A i, j \in DOMAIN s : s[i] = s[j] => i = j) /\ x \notin Range(s)
              => \A i, j \in DOMAIN Append(s, x) : Append(s, x)[i] = Append(s, x)[j] => i = j
<1> DEFINE t == Append(s, x)
<1>1. DOMAIN t = 1 .. Len(s) + 1 /\ DOMAIN s = 1 .. Len(s) /\ Len(s) \in Nat
  OBVIOUS
<1>2. \A i \in 1 .. Len(s) : t[i] = s[i]
  OBVIOUS
<1>3. t[Len(s) + 1] = x
  OBVIOUS
<1> HIDE DEF t
<1>4. \A i \in DOMAIN t : i \in DOMAIN s \/ i = Len(s) + 1
  BY <1>1
<1>5. Range(t) = Range(s) \cup {x}
  BY <1>1, <1>2, <1>3, <1>4 DEF Range
<1>6. ASSUME \A i, j \in DOMAIN s : s[i] = s[j] => i = j, x \notin Range(s)
      PROVE  \A i, j \in DOMAIN t : t[i] = t[j] => i = j
  BY <1>1, <1>2, <1>3, <1>4, <1>6 DEF Range
<1> QED BY <1>5, <1>6 DEF t

LEMMA RangeOfTail ==
  ASSUME NEW S, NEW s \in Seq(S), s # <<>>
  PROVE  /\ Range(s) = Range(Tail(s)) \cup {Head(s)} /\ Head(s) = s[1] /\ 1 \in DOMAIN s
         /\ \A i \in DOMAIN Tail(s) : i + 1 \in DOMAIN s /\ Tail(s)[i] = s[i + 1]
         /\ \A i \in DOMAIN s : i = 1 \/ (i - 1 \in DOMAIN Tail(s) /\ s[i] = Tail(s)[i - 1])
         /\ (\A i, j \in DOMAIN s : s[i] = s[j] => i = j)
              => /\ \A i, j \in DOMAIN Tail(s) : Tail(s)[i] = Tail(s)[j] => i = j
                 /\ Head(s) \notin Range(Tail(s))
<1> DEFINE t == Tail(s)
<1>1. DOMAIN t = 1 .. Len(s) - 1 /\ DOMAIN s = 1 .. Len(s) /\ Len(s) \in Nat \ {0} /\ Head(s) = s[1]
  OBVIOUS
<1>2. \A i \in DOMAIN t : t[i] = s[i + 1]
  OBVIOUS
<1> HIDE DEF t
<1>3. \A i \in DOMAIN t : i + 1 \in DOMAIN s /\ i + 1 # 1
  BY <1>1
<1>4. \A i \in DOMAIN s : i = 1 \/ (i - 1 \in DOMAIN t /\ s[i] = t[i - 1])
  BY <1>1, <1>2
<1>5. Range(s) = Range(t) \cup {s[1]}
  <2>1. ASSUME NEW x \in Range(s)
        PROVE  x \in Range(t) \cup {s[1]}
    BY <1>4 DEF Range
  <2>2. ASSUME NEW x \in Range(t) \cup {s[1]}
        PROVE  x \in Range(s)
    BY <1>1, <1>2, <1>3 DEF Range
  <2> QED BY <2>1, <2>2
<1>6. ASSUME \A i, j \in DOMAIN s : s[i] = s[j] => i = j
      PROVE  /\ \A i, j \in DOMAIN t : t[i] = t[j] => i = j
             /\ s[1] \notin Range(t)
  <2>1. 1 \in DOMAIN s
    BY <1>1
  <2> QED BY <1>1, <1>2, <1>3, <1>6, <2>1 DEF Range
<1> QED BY <1>1, <1>2, <1>3, <1>4, <1>5, <1>6 DEF t

LEMMA ShapeOfAppend ==
  ASSUME NEW S, NEW s \in Seq(S), NEW x
  PROVE  /\ DOMAIN Append(s, x) = DOMAIN s \cup {Len(s) + 1} /\ Len(s) + 1 \notin DOMAIN s
         /\ \A i \in DOMAIN s : Append(s, x)[i] = s[i] /\ i \in Nat /\ i < Len(s) + 1
         /\ Append(s, x)[Len(s) + 1] = x
OBVIOUS

-----------------------------------------------------------------------------
(* Where a request is. *)

LEMMA OnePlaceHere ==
  ASSUME TablesTyped, TablesTyped', InOnePlace,
         \/ \E r \in Reqs : (AddRequestsAsync(r) /\ Head(freeIds) # 0) \/ AddRequests(r)
         \/ SendIpcPackage
  PROVE  InOnePlace'
<1>1. ASSUME NEW r \in Reqs, AddRequestsAsync(r), Head(freeIds) # 0
      PROVE  InOnePlace'
  <2>1. r \notin Carried /\ fate[r] # "live" /\ idOf[r] = 0
    BY <1>1 DEF InOnePlace, AddRequestsAsync, Carried
  <2>2. r \notin adding /\ r \notin Range(wait) /\ r \notin Range(sending) /\ ~InPackage(r)
    BY <2>1 DEF Carried
  <2>3. UNCHANGED <<wait, sending, up, fate>> /\ adding' \in {adding, adding \cup {r}}
    BY <1>1 DEF AddRequestsAsync, hand, claim, engine
  <2>4. (\A q \in Reqs : q # r => idOf'[q] = idOf[q]) /\ idOf'[r] # 0
    BY <1>1 DEF AddRequestsAsync, TablesTyped
  <2>5. \A q : InPackage(q)' <=> InPackage(q)
    BY <2>3 DEF InPackage
  <2>6. \A q \in Carried' : q \in Carried \/ q = r
    BY <2>3, <2>5 DEF Carried
  <2>7. fate[r] = "new"
    BY <2>1 DEF InOnePlace
  <2>8. /\ \A q \in adding' : q \notin Range(wait)' \cup Range(sending)' /\ ~InPackage(q)'
        /\ \A q \in Range(wait)' : q \notin Range(sending)' /\ ~InPackage(q)'
        /\ \A q \in Range(sending)' : ~InPackage(q)'
        /\ \A q \in Reqs : fate'[q] = "live" =>
             q \notin adding' \cup Range(wait)' \cup Range(sending)' /\ ~InPackage(q)'
    BY <2>1, <2>2, <2>3, <2>5 DEF InOnePlace
  <2>9. /\ \A i, j \in DOMAIN wait' : wait'[i] = wait'[j] => i = j
        /\ \A i, j \in DOMAIN sending' : sending'[i] = sending'[j] => i = j
        /\ \A d, e \in Replicas : \A k \in DOMAIN up'[d], l \in DOMAIN up'[e] :
             \A q \in up'[d][k].new \cap up'[e][l].new : d = e /\ k = l
    BY <2>3 DEF InOnePlace
  <2>10. /\ \A q \in Carried' : idOf'[q] # 0 /\ (fate'[q] = "new" \/ fate'[q] = "live")
         /\ \A q \in Reqs : fate'[q] # "new" => idOf'[q] # 0
    <3>1. \A q \in Carried : q \in Reqs
      BY DEF Carried
    <3> QED BY <2>3, <2>4, <2>6, <2>7, <3>1 DEF InOnePlace
  <2> QED BY <2>8, <2>9, <2>10 DEF InOnePlace
<1>2. ASSUME NEW r \in Reqs, AddRequests(r)
      PROVE  InOnePlace'
  <2>1. r \in adding /\ adding' = adding \ {r} /\ wait' = Append(wait, r)
        /\ UNCHANGED <<sending, up, fate, idOf>>
    BY <1>2 DEF AddRequests, claim, engine
  <2>2. wait \in Seq(Reqs)
    BY DEF TablesTyped
  <2>3. r \notin Range(wait)
    BY <2>1 DEF InOnePlace
  <2>4. /\ Range(wait') = Range(wait) \cup {r}
        /\ \A i, j \in DOMAIN wait' : wait'[i] = wait'[j] => i = j
    BY <2>1, <2>2, <2>3, RangeOfAppend DEF InOnePlace
  <2>5. \A q : InPackage(q)' <=> InPackage(q)
    BY <2>1 DEF InPackage
  <2>6. Carried' = Carried
    BY <2>1, <2>4, <2>5 DEF Carried
  <2>7. fate[r] # "live"
    BY <2>1 DEF InOnePlace
  <2> QED BY <2>1, <2>4, <2>5, <2>6, <2>7 DEF InOnePlace
<1>3. CASE SendIpcPackage
  <2>1. sending' = wait /\ wait' = <<>> /\ UNCHANGED <<adding, up, fate, idOf>>
    BY <1>3 DEF SendIpcPackage, client, engine
  <2>2. Range(wait') = {} /\ Range(sending') = Range(wait)
    BY <2>1 DEF Range
  <2>3. \A q : InPackage(q)' <=> InPackage(q)
    BY <2>1 DEF InPackage
  <2>4. \A q \in Carried' : q \in Carried
    BY <2>1, <2>2, <2>3 DEF Carried
  <2> QED BY <2>1, <2>2, <2>3, <2>4 DEF InOnePlace
<1> QED BY <1>1, <1>2, <1>3

LEMMA OnePlaceSent ==
  ASSUME TablesTyped, TablesTyped', InOnePlace, SendNew \/ SendAborts
  PROVE  InOnePlace' /\ Carried' = Carried
<1>1. CASE SendNew
  <2> PICK r : r = Head(sending)
    OBVIOUS
  <2> DEFINE b == [new |-> {r}, aborts |-> {}]
  <2>1. sending # <<>> /\ sending' = Tail(sending) /\ up' = [up EXCEPT ![rr] = Append(@, b)]
        /\ UNCHANGED <<adding, wait, fate, idOf>>
    BY <1>1 DEF SendNew, client, hand, engine
  <2>2. sending \in Seq(Reqs) /\ up[rr] \in Seq(Letter) /\ rr \in Replicas
    BY DEF TablesTyped
  <2>3. /\ Range(sending) = Range(sending') \cup {r} /\ r \notin Range(sending')
        /\ \A i, j \in DOMAIN sending' : sending'[i] = sending'[j] => i = j
    BY <2>1, <2>2, RangeOfTail DEF InOnePlace
  <2> DEFINE m == Len(up[rr]) + 1
  <2>4. /\ \A e \in Replicas : e # rr => up'[e] = up[e]
        /\ DOMAIN up'[rr] = DOMAIN up[rr] \cup {m} /\ m \notin DOMAIN up[rr]
        /\ \A k \in DOMAIN up[rr] : up'[rr][k] = up[rr][k]
        /\ up'[rr][m].new = {r}
    <3>1. up'[rr] = Append(up[rr], b) /\ \A e \in Replicas : e # rr => up'[e] = up[e]
      BY <2>1, <2>2 DEF TablesTyped
    <3> HIDE DEF b
    <3>2. /\ DOMAIN up'[rr] = DOMAIN up[rr] \cup {m} /\ m \notin DOMAIN up[rr]
          /\ \A k \in DOMAIN up[rr] : up'[rr][k] = up[rr][k]
          /\ up'[rr][m] = b
      BY <3>1, <2>2, ShapeOfAppend
    <3> QED BY <3>1, <3>2 DEF b
  <2> HIDE DEF b, m
  <2>5. \A q : InPackage(q)' <=> InPackage(q) \/ q = r
    <3>1. ASSUME NEW q, InPackage(q)
          PROVE  InPackage(q)'
      BY <3>1, <2>4 DEF InPackage
    <3>2. InPackage(r)'
      BY <2>2, <2>4 DEF InPackage
    <3>3. ASSUME NEW q, InPackage(q)', q # r
          PROVE  InPackage(q)
      BY <3>3, <2>4 DEF InPackage
    <3> QED BY <3>1, <3>2, <3>3
  <2>6. r \in Range(sending) /\ ~InPackage(r)
    BY <2>3 DEF InOnePlace
  <2>7. \A d, e \in Replicas : \A k \in DOMAIN up'[d], l \in DOMAIN up'[e] :
          \A q \in up'[d][k].new \cap up'[e][l].new : d = e /\ k = l
    <3> SUFFICES ASSUME NEW d \in Replicas, NEW e \in Replicas, NEW k \in DOMAIN up'[d],
                        NEW l \in DOMAIN up'[e], NEW q \in up'[d][k].new \cap up'[e][l].new
                 PROVE  d = e /\ k = l
      OBVIOUS
    <3>1. (d = rr /\ k = m /\ q = r) \/ (k \in DOMAIN up[d] /\ up'[d][k] = up[d][k])
      BY <2>4
    <3>2. (e = rr /\ l = m /\ q = r) \/ (l \in DOMAIN up[e] /\ up'[e][l] = up[e][l])
      BY <2>4
    <3> QED BY <3>1, <3>2, <2>6 DEF InOnePlace, InPackage
  <2>8. Carried' = Carried
    BY <2>1, <2>3, <2>5 DEF Carried
  <2>9. InOnePlace'
    BY <2>1, <2>3, <2>5, <2>6, <2>7, <2>8 DEF InOnePlace
  <2> QED BY <2>8, <2>9
<1>2. CASE SendAborts
  <2> DEFINE b == [new |-> {}, aborts |-> aborting]
  <2>1. up' = [d \in Replicas |-> IF aborting = {} THEN up[d] ELSE Append(up[d], b)]
        /\ UNCHANGED <<adding, wait, sending, fate, idOf>>
    BY <1>2 DEF SendAborts, client, hand, engine
  <2>2. ASSUME NEW d \in Replicas
        PROVE  /\ DOMAIN up[d] \subseteq DOMAIN up'[d]
               /\ \A k \in DOMAIN up[d] : up'[d][k] = up[d][k]
               /\ \A k \in DOMAIN up'[d] : k \in DOMAIN up[d] \/ up'[d][k].new = {}
    <3>1. up[d] \in Seq(Letter)
      BY DEF TablesTyped
    <3> QED BY <2>1, <3>1, ShapeOfAppend
  <2>3. \A q : InPackage(q)' <=> InPackage(q)
    BY <2>2 DEF InPackage
  <2>4. Carried' = Carried
    BY <2>1, <2>3 DEF Carried
  <2>5. \A d, e \in Replicas : \A k \in DOMAIN up'[d], l \in DOMAIN up'[e] :
          \A q \in up'[d][k].new \cap up'[e][l].new : d = e /\ k = l
    BY <2>2 DEF InOnePlace
  <2>6. InOnePlace'
    BY <2>1, <2>3, <2>4, <2>5 DEF InOnePlace
  <2> QED BY <2>4, <2>6
<1> QED BY <1>1, <1>2

LEMMA OnePlaceReceived ==
  ASSUME TablesTyped, TablesTyped', InOnePlace, NEW d \in Replicas, ReplicaRecv(d)
  PROVE  InOnePlace' /\ Carried' = Carried
<1> DEFINE N == Head(up[d]).new
<1>1. up[d] # <<>> /\ up' = [up EXCEPT ![d] = Tail(@)]
      /\ UNCHANGED <<adding, wait, sending, idOf>>
  BY DEF ReplicaRecv, client, hand, claim
<1>2. up[d] \in Seq(Letter)
  BY DEF TablesTyped
<1>3. /\ \A e \in Replicas : e # d => up'[e] = up[e]
      /\ \A k \in DOMAIN up'[d] : k + 1 \in DOMAIN up[d] /\ up'[d][k] = up[d][k + 1]
      /\ \A k \in DOMAIN up[d] : k = 1 \/ (k - 1 \in DOMAIN up'[d] /\ up[d][k] = up'[d][k - 1])
      /\ N = up[d][1].new /\ 1 \in DOMAIN up[d]
      /\ \A k \in DOMAIN up'[d] : k \in Nat \ {0}
  <2>1. up'[d] = Tail(up[d])
    BY <1>1 DEF TablesTyped
  <2>2. \A k \in DOMAIN Tail(up[d]) : k \in Nat \ {0}
    BY <1>1, <1>2
  <2>3. \A e \in Replicas : e # d => up'[e] = up[e]
    BY <1>1 DEF TablesTyped
  <2>4. /\ Head(up[d]) = up[d][1] /\ 1 \in DOMAIN up[d]
        /\ \A i \in DOMAIN Tail(up[d]) : i + 1 \in DOMAIN up[d] /\ Tail(up[d])[i] = up[d][i + 1]
        /\ \A i \in DOMAIN up[d] : i = 1 \/ (i - 1 \in DOMAIN Tail(up[d]) /\ up[d][i] = Tail(up[d])[i - 1])
    BY <1>1, <1>2, RangeOfTail
  <2> QED BY <2>1, <2>2, <2>3, <2>4
<1>4. N \subseteq Reqs /\ \A q \in N : InPackage(q) /\ q \in Carried
  <2>1. up[d][1] \in Letter
    BY <1>2, <1>3
  <2> QED BY <1>3, <2>1 DEF Letter, InPackage, Carried
<1>5. fate' = [q \in Reqs |-> IF q \in N THEN "live" ELSE fate[q]] /\ \A q \in N : fate[q] = "new"
  BY DEF ReplicaRecv, Replica!Admit
<1> HIDE DEF N
<1>6. \A q : InPackage(q)' <=> InPackage(q) /\ q \notin N
  <2>1. ASSUME NEW q, InPackage(q)'
        PROVE  InPackage(q) /\ q \notin N
    <3>1. PICK e \in Replicas : \E k \in DOMAIN up'[e] : q \in up'[e][k].new
      BY <2>1 DEF InPackage
    <3>4. PICK k \in DOMAIN up'[e] : q \in up'[e][k].new
      BY <3>1
    <3>2. CASE e = d
      <4>1. k + 1 \in DOMAIN up[d] /\ q \in up[d][k + 1].new /\ k + 1 # 1
        BY <3>4, <3>2, <1>3
      <4> QED BY <4>1, <1>3 DEF InOnePlace, InPackage
    <3>3. CASE e # d
      BY <3>1, <3>3, <1>3 DEF InOnePlace, InPackage
    <3> QED BY <3>2, <3>3
  <2>2. ASSUME NEW q, InPackage(q), q \notin N
        PROVE  InPackage(q)'
    <3>1. PICK e \in Replicas : \E k \in DOMAIN up[e] : q \in up[e][k].new
      BY <2>2 DEF InPackage
    <3> QED BY <3>1, <2>2, <1>3 DEF InPackage
  <2> QED BY <2>1, <2>2
<1>7. Carried' = Carried
  BY <1>1, <1>4, <1>5, <1>6 DEF Carried
<1>8. \A e, f \in Replicas : \A k \in DOMAIN up'[e], l \in DOMAIN up'[f] :
        \A q \in up'[e][k].new \cap up'[f][l].new : e = f /\ k = l
  <2> SUFFICES ASSUME NEW e \in Replicas, NEW f \in Replicas, NEW k \in DOMAIN up'[e],
                      NEW l \in DOMAIN up'[f], NEW q \in up'[e][k].new \cap up'[f][l].new
               PROVE  e = f /\ k = l
    OBVIOUS
  <2>1. (e = d /\ k \in Nat /\ k + 1 \in DOMAIN up[e] /\ up'[e][k] = up[e][k + 1])
          \/ (e # d /\ k \in DOMAIN up[e] /\ up'[e][k] = up[e][k])
    BY <1>3
  <2>2. (f = d /\ l \in Nat /\ l + 1 \in DOMAIN up[f] /\ up'[f][l] = up[f][l + 1])
          \/ (f # d /\ l \in DOMAIN up[f] /\ up'[f][l] = up[f][l])
    BY <1>3
  <2> QED BY <2>1, <2>2 DEF InOnePlace
<1>9. \A q \in Reqs : fate'[q] # "new" => idOf[q] # 0
  BY <1>4, <1>5 DEF InOnePlace
<1>10. \A q \in N : q \notin adding \cup Range(wait) \cup Range(sending)
  BY <1>4 DEF InOnePlace
<1>11. \A q \in Carried' : fate'[q] \in {"new", "live"}
  BY <1>5, <1>7 DEF InOnePlace, Carried
<1> QED BY <1>1, <1>4, <1>5, <1>6, <1>7, <1>8, <1>9, <1>10, <1>11 DEF InOnePlace

LEMMA OnePlaceReturned ==
  ASSUME TablesTyped, TablesTyped', InOnePlace, NEW d \in Replicas, ReplicaAbort(d) \/ ReplicaAnswer(d),
         NEW T \in SUBSET Live(d), NEW D \in SUBSET Live(d), Returns(d, T, D)
  PROVE  InOnePlace' /\ Carried' = Carried \ D
<1>1. UNCHANGED <<adding, wait, sending, idOf, up>>
  BY DEF ReplicaAbort, ReplicaAnswer, client, hand, claim
<1>2. \A q : InPackage(q)' <=> InPackage(q)
  BY <1>1 DEF InPackage
<1>3. D \subseteq Reqs /\ \A q \in D : fate[q] = "live" /\ q \in Carried
  BY DEF Live, Carried
<1>4. /\ \A q \in Reqs : q \notin D => fate'[q] = fate[q]
      /\ \A q \in D : fate'[q] \in {"finished", "aborted"}
  BY DEF Returns
<1>5. Carried' = Carried \ D
  BY <1>1, <1>2, <1>3, <1>4 DEF Carried, InOnePlace
<1>6. \A q \in Reqs : fate'[q] # "new" => idOf[q] # 0
  BY <1>3, <1>4 DEF InOnePlace
<1>7. \A q \in Carried' : q \in Carried /\ q \in Reqs /\ fate'[q] = fate[q]
  BY <1>4, <1>5 DEF Carried
<1>8. \A q \in Reqs : fate'[q] = "live" => fate[q] = "live"
  BY <1>4
<1>9. /\ \A q \in adding' : q \notin Range(wait)' \cup Range(sending)' /\ ~InPackage(q)'
      /\ \A q \in Range(wait)' : q \notin Range(sending)' /\ ~InPackage(q)'
      /\ \A q \in Range(sending)' : ~InPackage(q)'
      /\ \A q \in Reqs : fate'[q] = "live" =>
           q \notin adding' \cup Range(wait)' \cup Range(sending)' /\ ~InPackage(q)'
  BY <1>1, <1>2, <1>8 DEF InOnePlace
<1>10. /\ \A i, j \in DOMAIN wait' : wait'[i] = wait'[j] => i = j
       /\ \A i, j \in DOMAIN sending' : sending'[i] = sending'[j] => i = j
       /\ \A e, f \in Replicas : \A k \in DOMAIN up'[e], l \in DOMAIN up'[f] :
            \A q \in up'[e][k].new \cap up'[f][l].new : e = f /\ k = l
  BY <1>1 DEF InOnePlace
<1>11. \A q \in Carried' : idOf'[q] # 0 /\ (fate'[q] = "new" \/ fate'[q] = "live")
  BY <1>1, <1>7 DEF InOnePlace
<1>12. \A q \in Reqs : fate'[q] # "new" => idOf'[q] # 0
  BY <1>1, <1>6
<1> QED BY <1>5, <1>9, <1>10, <1>11, <1>12 DEF InOnePlace

\* The steps that leave every request where it is.
LEMMA OnePlaceStays ==
  ASSUME InOnePlace, UNCHANGED <<adding, wait, sending, up, fate, idOf>>
  PROVE  InOnePlace' /\ Carried' = Carried
<1>1. \A q : InPackage(q)' <=> InPackage(q)
  BY DEF InPackage
<1>2. Carried' = Carried
  BY <1>1 DEF Carried
<1>3. /\ \A q \in adding' : q \notin Range(wait)' \cup Range(sending)' /\ ~InPackage(q)'
      /\ \A q \in Range(wait)' : q \notin Range(sending)' /\ ~InPackage(q)'
      /\ \A q \in Range(sending)' : ~InPackage(q)'
      /\ \A q \in Reqs : fate'[q] = "live" =>
           q \notin adding' \cup Range(wait)' \cup Range(sending)' /\ ~InPackage(q)'
  BY <1>1 DEF InOnePlace
<1>4. /\ \A i, j \in DOMAIN wait' : wait'[i] = wait'[j] => i = j
      /\ \A i, j \in DOMAIN sending' : sending'[i] = sending'[j] => i = j
      /\ \A e, f \in Replicas : \A k \in DOMAIN up'[e], l \in DOMAIN up'[f] :
           \A q \in up'[e][k].new \cap up'[f][l].new : e = f /\ k = l
      /\ \A q \in Reqs : fate'[q] # "new" => idOf'[q] # 0
  BY DEF InOnePlace
<1>5. \A q \in Carried' : idOf'[q] # 0 /\ (fate'[q] = "new" \/ fate'[q] = "live")
  BY <1>2 DEF InOnePlace
<1> QED BY <1>2, <1>3, <1>4, <1>5 DEF InOnePlace

\* Steps of the front end, but for a new request, leave nobody carried who was not.
LEMMA HandedOn ==
  ASSUME TablesTyped, TablesTyped', InOnePlace,
         \/ \E r \in Reqs : HangUp(r) \/ AddRequests(r)
         \/ Schedule \/ UNCHANGED fvars
  PROVE  InOnePlace' /\ Carried' \subseteq Carried
<1>1. ASSUME NEW r \in Reqs, AddRequests(r)
      PROVE  InOnePlace' /\ Carried' \subseteq Carried
  <2>1. r \in adding /\ adding' = adding \ {r} /\ wait' = Append(wait, r)
        /\ UNCHANGED <<sending, up, fate>>
    BY <1>1 DEF AddRequests, claim, engine
  <2>2. Range(wait') = Range(wait) \cup {r}
    BY <2>1, RangeOfAppend DEF TablesTyped
  <2>3. \A q : InPackage(q)' <=> InPackage(q)
    BY <2>1 DEF InPackage
  <2>4. Carried' \subseteq Carried
    BY <2>1, <2>2, <2>3 DEF Carried
  <2> QED BY <1>1, <2>4, OnePlaceHere
<1>2. CASE SendIpcPackage
  <2>1. sending' = wait /\ wait' = <<>> /\ UNCHANGED <<adding, up, fate>>
    BY <1>2 DEF SendIpcPackage, client, engine
  <2>2. Range(wait') = {} /\ Range(sending') = Range(wait)
    BY <2>1 DEF Range
  <2>3. \A q : InPackage(q)' <=> InPackage(q)
    BY <2>1 DEF InPackage
  <2>4. Carried' \subseteq Carried
    BY <2>1, <2>2, <2>3 DEF Carried
  <2> QED BY <1>2, <2>4, OnePlaceHere
<1>3. CASE SendNew \/ SendAborts
  BY <1>3, OnePlaceSent
<1>4. ASSUME NEW r \in Reqs, HangUp(r)
      PROVE  InOnePlace' /\ Carried' \subseteq Carried
  BY <1>4, OnePlaceStays DEF HangUp, hand, claim, engine
<1>5. CASE CheckAbortSeqs
  BY <1>5, OnePlaceStays DEF CheckAbortSeqs, client, claim, engine
<1>6. ASSUME NEW d \in Replicas, RecvOutput(d)
      PROVE  InOnePlace' /\ Carried' \subseteq Carried
  BY <1>6, OnePlaceStays DEF RecvOutput, hand, claim, engine
<1>7. CASE RecvDone
  BY <1>7, OnePlaceStays DEF RecvDone, client, hand, claim, engine
<1>8. CASE UNCHANGED fvars
  BY <1>8, OnePlaceStays DEF fvars, client, hand, claim, engine
<1> QED
  BY <1>1, <1>2, <1>3, <1>4, <1>5, <1>6, <1>7, <1>8 DEF Schedule

\* A new request takes the next id.
LEMMA TakenIn ==
  ASSUME TablesTyped, TablesTyped', InOnePlace, NEW r \in Reqs, AddRequestsAsync(r)
  PROVE  /\ InOnePlace'
         /\ freeIds # <<>> /\ freeIds' = Tail(freeIds)
         /\ idOf[r] = 0 /\ idOf' = [idOf EXCEPT ![r] = freeIds[1]] /\ freeIds[1] \in Ids
         /\ r \notin Carried /\ Carried' \subseteq Carried \cup {r}
         /\ freeIds[1] \in DOMAIN streams => r \notin Carried' /\ streams' = streams
         /\ freeIds[1] \notin DOMAIN streams => streams' = Put(streams, freeIds[1], r)
         /\ UNCHANGED <<hung, hand, claim, route, engine, told, noticed, running, pc, up, down>>
<1>1. freeIds \in Seq(Ids) /\ freeIds # <<>> /\ freeIds' = Tail(freeIds)
  BY DEF AddRequestsAsync, TablesTyped
<1>2. Head(freeIds) = freeIds[1] /\ freeIds[1] \in Ids /\ Head(freeIds) # 0
  <2>1. Head(freeIds) = freeIds[1] /\ freeIds[1] \in Ids
    BY <1>1
  <2> QED BY <2>1 DEF Ids
<1>3. InOnePlace'
  BY <1>2, OnePlaceHere
<1>4. /\ UNCHANGED <<hung, hand, claim, route, engine, told, noticed, running, pc, up, down>>
      /\ idOf[r] = 0 /\ idOf' = [idOf EXCEPT ![r] = freeIds[1]]
  BY <1>2 DEF AddRequestsAsync
<1>5. \A q : InPackage(q)' <=> InPackage(q)
  BY <1>4 DEF InPackage
<1>6. adding' \subseteq adding \cup {r}
  BY DEF AddRequestsAsync
<1>7. r \notin Carried /\ Carried' \subseteq Carried \cup {r}
  BY <1>4, <1>5, <1>6 DEF Carried, InOnePlace, hand, claim, engine
<1>8. ASSUME freeIds[1] \in DOMAIN streams
      PROVE  r \notin Carried' /\ streams' = streams
  <2>1. adding' = adding /\ streams' = streams
    BY <1>2, <1>8 DEF AddRequestsAsync
  <2> QED BY <2>1, <1>4, <1>5, <1>7 DEF Carried, hand, claim, engine
<1>9. ASSUME freeIds[1] \notin DOMAIN streams
      PROVE  streams' = Put(streams, freeIds[1], r)
  BY <1>2, <1>9 DEF AddRequestsAsync
<1> QED BY <1>1, <1>2, <1>3, <1>4, <1>7, <1>8, <1>9

-----------------------------------------------------------------------------
(* Whose an id is. *)

IdsInv == IdsHeldOnce /\ ComesBackOnce

\* IdsHeldOnce without ranges.
LEMMA HeldOnce ==
  IdsHeldOnce <=>
    /\ \A q, r \in Carried : idOf[q] = idOf[r] => q = r
    /\ \A r \in Carried : \A n \in DOMAIN freeIds : freeIds[n] # idOf[r]
    /\ \A i, j \in DOMAIN freeIds : freeIds[i] = freeIds[j] => i = j
BY DEF IdsHeldOnce, Range

\* An id that nobody loses stays where it is.
LEMMA IdsStay ==
  ASSUME IdsInv, Carried' \subseteq Carried, UNCHANGED <<idOf, freeIds, down>>
  PROVE  IdsInv'
<1>1. IdsHeldOnce'
  BY DEF IdsInv, IdsHeldOnce
<1>2. ComesBackOnce'
  BY DEF IdsInv, ComesBackOnce
<1> QED BY <1>1, <1>2 DEF IdsInv

LEMMA IdsTaken ==
  ASSUME TablesTyped, TablesTyped', InOnePlace, IdsInv, NEW r \in Reqs, AddRequestsAsync(r)
  PROVE  IdsInv'
<1>1. /\ freeIds # <<>> /\ freeIds' = Tail(freeIds) /\ down' = down
      /\ idOf[r] = 0 /\ idOf' = [idOf EXCEPT ![r] = freeIds[1]]
      /\ r \notin Carried /\ Carried' \subseteq Carried \cup {r}
  BY TakenIn
<1>2. /\ 1 \in DOMAIN freeIds
      /\ \A i \in DOMAIN freeIds' : i \in Nat \ {0} /\ i + 1 \in DOMAIN freeIds /\ freeIds'[i] = freeIds[i + 1]
  <2>1. freeIds \in Seq(Ids)
    BY DEF TablesTyped
  <2> QED BY <1>1, <2>1
<1>3. /\ \A q \in Reqs : q # r => idOf'[q] = idOf[q]
      /\ idOf'[r] = freeIds[1]
  BY <1>1 DEF TablesTyped
<1>4. \A q \in Carried : q \in Reqs /\ q # r /\ idOf'[q] = idOf[q]
  BY <1>1, <1>3 DEF Carried
<1>5. IdsHeldOnce'
  <2>1. \A p, q \in Carried' : idOf'[p] = idOf'[q] => p = q
    BY <1>1, <1>2, <1>3, <1>4, HeldOnce DEF IdsInv
  <2>2. \A q \in Carried' : \A n \in DOMAIN freeIds' : freeIds'[n] # idOf'[q]
    <3> SUFFICES ASSUME NEW q \in Carried', NEW n \in DOMAIN freeIds'
                 PROVE  freeIds'[n] # idOf'[q]
      OBVIOUS
    <3>1. n + 1 \in DOMAIN freeIds /\ freeIds'[n] = freeIds[n + 1] /\ n + 1 # 1
      BY <1>2
    <3>2. CASE q = r
      BY <1>2, <1>3, <3>1, <3>2, HeldOnce DEF IdsInv
    <3>3. CASE q # r
      BY <1>1, <1>4, <3>1, <3>3, HeldOnce DEF IdsInv
    <3> QED BY <3>2, <3>3
  <2>3. \A i, j \in DOMAIN freeIds' : freeIds'[i] = freeIds'[j] => i = j
    <3> SUFFICES ASSUME NEW i \in DOMAIN freeIds', NEW j \in DOMAIN freeIds', freeIds'[i] = freeIds'[j]
                 PROVE  i = j
      OBVIOUS
    <3>1. i + 1 = j + 1 /\ i \in Nat /\ j \in Nat
      BY <1>2, HeldOnce DEF IdsInv
    <3> QED BY <3>1
  <2> QED BY <2>1, <2>2, <2>3 DEF IdsHeldOnce, Range
<1>6. ComesBackOnce'
  <2> SUFFICES ASSUME NEW d \in Replicas, NEW k \in DOMAIN down[d], NEW j \in DOMAIN down[d][k].frees
               PROVE  /\ \A q \in Carried' : idOf'[q] # down[d][k].frees[j]
                      /\ \A n \in DOMAIN freeIds' : freeIds'[n] # down[d][k].frees[j]
                      /\ \A e \in Replicas : \A l \in DOMAIN down[e] : \A m \in DOMAIN down[e][l].frees :
                           down[d][k].frees[j] = down[e][l].frees[m] => d = e /\ k = l /\ j = m
    BY <1>1 DEF ComesBackOnce
  <2>1. /\ \A q \in Carried : idOf[q] # down[d][k].frees[j]
        /\ \A n \in DOMAIN freeIds : freeIds[n] # down[d][k].frees[j]
        /\ \A e \in Replicas : \A l \in DOMAIN down[e] : \A m \in DOMAIN down[e][l].frees :
             down[d][k].frees[j] = down[e][l].frees[m] => d = e /\ k = l /\ j = m
    BY DEF IdsInv, ComesBackOnce
  <2> QED BY <2>1, <1>1, <1>2, <1>3, <1>4
<1> QED BY <1>5, <1>6 DEF IdsInv

LEMMA ShapeOfConcat ==
  ASSUME NEW S, NEW s \in Seq(S), NEW t \in Seq(S)
  PROVE  /\ \A n \in DOMAIN (s \o t) :
              \/ n \in DOMAIN s /\ (s \o t)[n] = s[n]
              \/ n \in Nat /\ n - Len(s) \in DOMAIN t /\ (s \o t)[n] = t[n - Len(s)]
         /\ Len(s) \in Nat
OBVIOUS

\* What is left in the sockets when the front end has read a package.
LEMMA ShapeOfRead ==
  ASSUME TablesTyped, NEW d \in Replicas, RecvOutput(d)
  PROVE  /\ down[d] # <<>> /\ 1 \in DOMAIN down[d] /\ Head(down[d]) = down[d][1]
         /\ \A e \in Replicas : e # d => down'[e] = down[e]
         /\ \A k \in DOMAIN down'[d] :
              k \in Nat \ {0} /\ k + 1 \in DOMAIN down[d] /\ down'[d][k] = down[d][k + 1]
         /\ \A k \in DOMAIN down[d] : k \in Nat \ {0}
         /\ \A k \in DOMAIN down[d] : k = 1 \/ (k - 1 \in DOMAIN down'[d] /\ down[d][k] = down'[d][k - 1])
<1>1. down[d] \in Seq(Package) /\ down[d] # <<>> /\ down' = [down EXCEPT ![d] = Tail(@)]
  BY DEF RecvOutput, TablesTyped
<1>2. down'[d] = Tail(down[d]) /\ \A e \in Replicas : e # d => down'[e] = down[e]
  BY <1>1 DEF TablesTyped
<1>3. \A k \in DOMAIN Tail(down[d]) : k \in Nat \ {0}
  BY <1>1
<1>4. \A k \in DOMAIN down[d] : k \in Nat \ {0}
  BY <1>1
<1>5. /\ Head(down[d]) = down[d][1] /\ 1 \in DOMAIN down[d]
      /\ \A i \in DOMAIN Tail(down[d]) : i + 1 \in DOMAIN down[d] /\ Tail(down[d])[i] = down[d][i + 1]
      /\ \A i \in DOMAIN down[d] : i = 1 \/ (i - 1 \in DOMAIN Tail(down[d]) /\ down[d][i] = Tail(down[d])[i - 1])
  BY <1>1, RangeOfTail
<1> QED BY <1>1, <1>2, <1>3, <1>4, <1>5

LEMMA IdsGivenBack ==
  ASSUME TablesTyped, TablesTyped', InOnePlace, IdsInv, NEW d \in Replicas, RecvOutput(d), Carried' \subseteq Carried
  PROVE  IdsInv'
<1> DEFINE fs == down[d][1].frees
<1>1. freeIds' = freeIds \o fs /\ idOf' = idOf /\ 1 \in DOMAIN down[d]
  BY ShapeOfRead DEF RecvOutput, GivenBack
<1>2. freeIds \in Seq(Ids) /\ fs \in Seq(Ids)
  BY <1>1, PackageTypes DEF TablesTyped
<1>3. \A n \in DOMAIN freeIds' :
        \/ n \in DOMAIN freeIds /\ freeIds'[n] = freeIds[n]
        \/ n \in Nat /\ n - Len(freeIds) \in DOMAIN fs /\ freeIds'[n] = fs[n - Len(freeIds)]
  BY <1>1, <1>2, ShapeOfConcat
<1>4. Len(freeIds) \in Nat
  BY <1>2
<1>5. \A j \in DOMAIN fs :
        /\ \A r \in Carried : idOf[r] # fs[j]
        /\ \A n \in DOMAIN freeIds : freeIds[n] # fs[j]
        /\ \A e \in Replicas : \A l \in DOMAIN down[e] : \A m \in DOMAIN down[e][l].frees :
             fs[j] = down[e][l].frees[m] => d = e /\ 1 = l /\ j = m
  BY <1>1 DEF IdsInv, ComesBackOnce
<1> HIDE DEF fs
<1>6. \A i, j \in DOMAIN fs : fs[i] = fs[j] => i = j
  BY <1>1, <1>5 DEF fs
<1>7. IdsHeldOnce'
  <2>1. \A p, q \in Carried' : idOf'[p] = idOf'[q] => p = q
    BY <1>1, HeldOnce DEF IdsInv
  <2>2. \A q \in Carried' : \A n \in DOMAIN freeIds' : freeIds'[n] # idOf'[q]
    BY <1>1, <1>3, <1>5, HeldOnce DEF IdsInv
  <2>3. \A i, j \in DOMAIN freeIds' : freeIds'[i] = freeIds'[j] => i = j
    <3> SUFFICES ASSUME NEW i \in DOMAIN freeIds', NEW j \in DOMAIN freeIds', freeIds'[i] = freeIds'[j]
                 PROVE  i = j
      OBVIOUS
    <3>1. CASE i \in DOMAIN freeIds /\ freeIds'[i] = freeIds[i] /\ j \in DOMAIN freeIds /\ freeIds'[j] = freeIds[j]
      BY <3>1, HeldOnce DEF IdsInv
    <3>2. CASE /\ i \in Nat /\ i - Len(freeIds) \in DOMAIN fs /\ freeIds'[i] = fs[i - Len(freeIds)]
               /\ j \in Nat /\ j - Len(freeIds) \in DOMAIN fs /\ freeIds'[j] = fs[j - Len(freeIds)]
      <4>1. i - Len(freeIds) = j - Len(freeIds)
        BY <3>2, <1>6
      <4> QED BY <4>1, <3>2, <1>4
    <3> QED BY <3>1, <3>2, <1>3, <1>5
  <2> QED BY <2>1, <2>2, <2>3 DEF IdsHeldOnce, Range
<1>8. ASSUME NEW e \in Replicas, NEW k \in DOMAIN down'[e]
      PROVE  \E l \in DOMAIN down[e] :
               /\ down'[e][k] = down[e][l] /\ (e = d => l = k + 1 /\ l # 1 /\ k \in Nat) /\ (e # d => l = k)
  BY ShapeOfRead, <1>8
<1>9. ComesBackOnce'
  <2> SUFFICES ASSUME NEW e \in Replicas, NEW k \in DOMAIN down'[e], NEW j \in DOMAIN down'[e][k].frees
               PROVE  /\ \A q \in Carried' : idOf'[q] # down'[e][k].frees[j]
                      /\ \A n \in DOMAIN freeIds' : freeIds'[n] # down'[e][k].frees[j]
                      /\ \A f \in Replicas : \A l \in DOMAIN down'[f] : \A m \in DOMAIN down'[f][l].frees :
                           down'[e][k].frees[j] = down'[f][l].frees[m] => e = f /\ k = l /\ j = m
    BY DEF ComesBackOnce
  <2>1. PICK o \in DOMAIN down[e] :
          /\ down'[e][k] = down[e][o] /\ (e = d => o = k + 1 /\ o # 1 /\ k \in Nat) /\ (e # d => o = k)
    BY <1>8
  <2>2. /\ \A r \in Carried : idOf[r] # down[e][o].frees[j]
        /\ \A n \in DOMAIN freeIds : freeIds[n] # down[e][o].frees[j]
        /\ \A f \in Replicas : \A l \in DOMAIN down[f] : \A m \in DOMAIN down[f][l].frees :
             down[e][o].frees[j] = down[f][l].frees[m] => e = f /\ o = l /\ j = m
    BY <2>1 DEF IdsInv, ComesBackOnce
  <2>3. \A n \in DOMAIN freeIds' : freeIds'[n] # down'[e][k].frees[j]
    BY <1>3, <1>5, <2>1, <2>2
  <2>4. ASSUME NEW f \in Replicas, NEW l \in DOMAIN down'[f], NEW m \in DOMAIN down'[f][l].frees,
               down'[e][k].frees[j] = down'[f][l].frees[m]
        PROVE  e = f /\ k = l /\ j = m
    <3>1. PICK n \in DOMAIN down[f] :
            /\ down'[f][l] = down[f][n] /\ (f = d => n = l + 1 /\ n # 1 /\ l \in Nat) /\ (f # d => n = l)
      BY <1>8
    <3>2. e = f /\ o = n /\ j = m
      BY <2>1, <2>2, <2>4, <3>1
    <3> QED BY <2>1, <3>1, <3>2
  <2> QED BY <1>1, <2>1, <2>2, <2>3, <2>4
<1> QED BY <1>7, <1>9 DEF IdsInv

\* What is in the sockets when a replica has sent a package.
LEMMA ShapeOfReturn ==
  ASSUME TablesTyped, TablesTyped', InOnePlace, NEW d \in Replicas, NEW T \in SUBSET Live(d),
         NEW D \in SUBSET Live(d), Returns(d, T, D)
  PROVE  \E new :
    /\ new.acts = NextTokens(T)
    /\ \A x : x \in {idOf[r] : r \in D} <=> \E j \in DOMAIN new.frees : new.frees[j] = x
    /\ \A i, j \in DOMAIN new.frees : new.frees[i] = new.frees[j] => i = j
    /\ \A e \in Replicas : e # d => down'[e] = down[e]
    /\ Len(down[d]) + 1 \notin DOMAIN down[d] /\ DOMAIN down'[d] = DOMAIN down[d] \cup {Len(down[d]) + 1}
    /\ \A k \in DOMAIN down[d] : down'[d][k] = down[d][k] /\ k \in Nat /\ k < Len(down[d]) + 1
    /\ down'[d][Len(down[d]) + 1] = new
<1>1. PICK order \in Orders({idOf[r] : r \in D}) :
        down' = [down EXCEPT ![d] = Append(@, [acts |-> NextTokens(T), frees |-> order])]
  BY DEF Returns
<1>2. {idOf[r] : r \in D} \in SUBSET Ids
  BY CarriedIds
<1>3. /\ \A x : x \in {idOf[r] : r \in D} <=> \E j \in DOMAIN order : order[j] = x
      /\ \A i, j \in DOMAIN order : order[i] = order[j] => i = j
  BY <1>2, OrderOfIds
<1> DEFINE new == [acts |-> NextTokens(T), frees |-> order]
<1>4. new.acts = NextTokens(T) /\ new.frees = order
  OBVIOUS
<1>5. down[d] \in Seq(Package) /\ down'[d] = Append(down[d], new) /\ \A e \in Replicas : e # d => down'[e] = down[e]
  BY <1>1 DEF TablesTyped
<1> HIDE DEF new
<1>6. /\ Len(down[d]) + 1 \notin DOMAIN down[d] /\ DOMAIN down'[d] = DOMAIN down[d] \cup {Len(down[d]) + 1}
      /\ \A k \in DOMAIN down[d] : down'[d][k] = down[d][k] /\ k \in Nat /\ k < Len(down[d]) + 1
      /\ down'[d][Len(down[d]) + 1] = new
  BY <1>5, ShapeOfAppend
<1>7. /\ \A x : x \in {idOf[r] : r \in D} <=> \E j \in DOMAIN new.frees : new.frees[j] = x
      /\ \A i, j \in DOMAIN new.frees : new.frees[i] = new.frees[j] => i = j
  BY <1>3, <1>4
<1> QED BY <1>4, <1>5, <1>6, <1>7

LEMMA IdsReturned ==
  ASSUME TablesTyped, TablesTyped', InOnePlace, IdsInv, NEW d \in Replicas, NEW T \in SUBSET Live(d),
         NEW D \in SUBSET Live(d), Returns(d, T, D), Carried' = Carried \ D,
         UNCHANGED <<idOf, freeIds>>
  PROVE  IdsInv'
<1>1. PICK new :
    /\ new.acts = NextTokens(T)
    /\ \A x : x \in {idOf[r] : r \in D} <=> \E j \in DOMAIN new.frees : new.frees[j] = x
    /\ \A i, j \in DOMAIN new.frees : new.frees[i] = new.frees[j] => i = j
    /\ \A e \in Replicas : e # d => down'[e] = down[e]
    /\ Len(down[d]) + 1 \notin DOMAIN down[d] /\ DOMAIN down'[d] = DOMAIN down[d] \cup {Len(down[d]) + 1}
    /\ \A k \in DOMAIN down[d] : down'[d][k] = down[d][k] /\ k \in Nat /\ k < Len(down[d]) + 1
    /\ down'[d][Len(down[d]) + 1] = new
  BY ShapeOfReturn
<1>2. IdsHeldOnce'
  BY DEF IdsInv, IdsHeldOnce
<1>3. \A r \in D : r \in Carried
  BY CarriedIds
<1> DEFINE m == Len(down[d]) + 1
<1> HIDE DEF m
<1>4. ASSUME NEW e \in Replicas, NEW k \in DOMAIN down'[e]
      PROVE  \/ k \in DOMAIN down[e] /\ down'[e][k] = down[e][k]
             \/ e = d /\ k = m /\ down'[e][k] = new
  BY <1>1, <1>4 DEF m
<1>5. ASSUME NEW j \in DOMAIN new.frees
      PROVE  \E r \in Carried \cap D : idOf[r] = new.frees[j]
  <2>1. new.frees[j] \in {idOf[r] : r \in D}
    BY <1>1
  <2> QED BY <2>1, <1>3
<1>6. ComesBackOnce'
  <2> SUFFICES ASSUME NEW e \in Replicas, NEW k \in DOMAIN down'[e], NEW j \in DOMAIN down'[e][k].frees
               PROVE  /\ \A q \in Carried' : idOf[q] # down'[e][k].frees[j]
                      /\ \A n \in DOMAIN freeIds : freeIds[n] # down'[e][k].frees[j]
                      /\ \A f \in Replicas : \A l \in DOMAIN down'[f] : \A i \in DOMAIN down'[f][l].frees :
                           down'[e][k].frees[j] = down'[f][l].frees[i] => e = f /\ k = l /\ j = i
    BY DEF ComesBackOnce
  <2>1. CASE k \in DOMAIN down[e] /\ down'[e][k] = down[e][k]
    <3>1. /\ \A q \in Carried : idOf[q] # down[e][k].frees[j]
          /\ \A n \in DOMAIN freeIds : freeIds[n] # down[e][k].frees[j]
          /\ \A f \in Replicas : \A l \in DOMAIN down[f] : \A i \in DOMAIN down[f][l].frees :
               down[e][k].frees[j] = down[f][l].frees[i] => e = f /\ k = l /\ j = i
      BY <2>1 DEF IdsInv, ComesBackOnce
    <3>2. ASSUME NEW f \in Replicas, NEW l \in DOMAIN down'[f], NEW i \in DOMAIN down'[f][l].frees,
                 down'[e][k].frees[j] = down'[f][l].frees[i]
          PROVE  e = f /\ k = l /\ j = i
      <4>1. CASE l \in DOMAIN down[f] /\ down'[f][l] = down[f][l]
        BY <2>1, <3>1, <3>2, <4>1
      <4>2. CASE down'[f][l] = new
        BY <2>1, <3>1, <3>2, <4>2, <1>5
      <4> QED BY <1>4, <4>1, <4>2
    <3> QED BY <2>1, <3>1, <3>2
  <2>2. CASE e = d /\ k = m /\ down'[e][k] = new
    <3>1. PICK r \in Carried \cap D : idOf[r] = new.frees[j]
      BY <2>2, <1>5
    <3>2. \A q \in Carried' : idOf[q] # new.frees[j]
      BY <3>1, HeldOnce DEF IdsInv
    <3>3. \A n \in DOMAIN freeIds : freeIds[n] # new.frees[j]
      BY <3>1, HeldOnce DEF IdsInv
    <3>4. ASSUME NEW f \in Replicas, NEW l \in DOMAIN down'[f], NEW i \in DOMAIN down'[f][l].frees,
                 new.frees[j] = down'[f][l].frees[i]
          PROVE  e = f /\ k = l /\ j = i
      <4>1. CASE l \in DOMAIN down[f] /\ down'[f][l] = down[f][l]
        BY <3>1, <3>4, <4>1 DEF IdsInv, ComesBackOnce
      <4>2. CASE f = d /\ l = m /\ down'[f][l] = new
        BY <2>2, <3>4, <4>2, <1>1
      <4> QED BY <1>4, <4>1, <4>2
    <3> QED BY <2>2, <3>2, <3>3, <3>4
  <2> QED BY <1>4, <2>1, <2>2
<1> QED BY <1>2, <1>6 DEF IdsInv

-----------------------------------------------------------------------------
(* Streams. *)

\* Steps that keep the tables.
LEMMA TablesStay ==
  ASSUME TablesAgree, Carried' \subseteq Carried, UNCHANGED <<idOf, streams, running>>,
         adding \cup Range(wait) \subseteq adding' \cup Range(wait')
  PROVE  TablesAgree'
BY DEF TablesAgree

LEMMA TablesTaken ==
  ASSUME TablesTyped, TablesTyped', InOnePlace, IdsInv, TablesAgree, NEW r \in Reqs, AddRequestsAsync(r)
  PROVE  /\ TablesAgree'
         /\ \A i \in DOMAIN streams : i \in DOMAIN streams' /\ streams'[i] = streams[i]
<1>1. /\ idOf[r] = 0 /\ idOf' = [idOf EXCEPT ![r] = freeIds[1]] /\ freeIds[1] \in Ids
      /\ r \notin Carried /\ Carried' \subseteq Carried \cup {r}
      /\ freeIds[1] \in DOMAIN streams => r \notin Carried' /\ streams' = streams
      /\ freeIds[1] \notin DOMAIN streams => streams' = Put(streams, freeIds[1], r)
      /\ wait' = wait /\ running' = running
  BY TakenIn DEF hand
<1>2. (\A q \in Reqs : q # r => idOf'[q] = idOf[q]) /\ idOf'[r] = freeIds[1]
  BY <1>1 DEF TablesTyped
<1>3. \A i \in DOMAIN streams : streams[i] \in Reqs /\ streams[i] # r
  BY <1>1 DEF TablesAgree, TablesTyped, Ids
<1>4. adding \subseteq adding' /\ (freeIds[1] \notin DOMAIN streams => r \in adding')
  <2>1. Head(freeIds) = freeIds[1]
    BY DEF AddRequestsAsync, TablesTyped
  <2> QED BY <2>1 DEF AddRequestsAsync
<1>5. \A q \in Carried : q \in Reqs /\ q # r
  BY <1>1 DEF Carried
<1>6. CASE freeIds[1] \in DOMAIN streams
  <2>1. Carried' \subseteq Carried /\ streams' = streams
    BY <1>1, <1>6
  <2> QED BY <2>1, <1>1, <1>2, <1>3, <1>4, <1>5 DEF TablesAgree
<1>7. CASE freeIds[1] \notin DOMAIN streams
  <2>1. /\ DOMAIN streams' = DOMAIN streams \cup {freeIds[1]} /\ streams'[freeIds[1]] = r
        /\ \A i \in DOMAIN streams : streams'[i] = streams[i]
    BY <1>1, <1>7 DEF Put
  <2>2. \A i \in DOMAIN streams' : idOf'[streams'[i]] = i
    BY <2>1, <1>2, <1>3 DEF TablesAgree
  <2>3. \A q \in Carried' :
          /\ idOf'[q] \in DOMAIN streams' /\ streams'[idOf'[q]] = q
          /\ q \notin adding' \cup Range(wait)' => idOf'[q] \in DOMAIN running'
    <3> SUFFICES ASSUME NEW q \in Carried'
                 PROVE  /\ idOf'[q] \in DOMAIN streams' /\ streams'[idOf'[q]] = q
                        /\ q \notin adding' \cup Range(wait)' => idOf'[q] \in DOMAIN running'
      OBVIOUS
    <3>1. CASE q = r
      BY <3>1, <2>1, <1>2, <1>4, <1>7
    <3>2. CASE q # r
      BY <3>2, <2>1, <1>1, <1>2, <1>4, <1>5 DEF TablesAgree
    <3> QED BY <3>1, <3>2
  <2> QED BY <2>1, <2>2, <2>3 DEF TablesAgree
<1> QED BY <1>6, <1>7

LEMMA TablesClaimed ==
  ASSUME TablesTyped, InOnePlace, TablesAgree, Carried' \subseteq Carried, SendIpcPackage
  PROVE  TablesAgree'
<1>1. /\ DOMAIN running' = DOMAIN running \cup {idOf[r] : r \in Range(wait)}
      /\ UNCHANGED <<idOf, streams, adding>>
  BY DEF SendIpcPackage, client
<1>2. \A r \in Carried' : r \notin adding' \cup Range(wait)' => idOf[r] \in DOMAIN running'
  BY <1>1 DEF TablesAgree
<1> QED BY <1>1, <1>2 DEF TablesAgree

\* The package that the front end reads.
First(d) == down[d][1]

LEMMA ShapeOfClosing ==
  ASSUME TablesTyped, NEW d \in Replicas, RecvOutput(d)
  PROVE  /\ running' = Minus(running, Closes(First(d))) /\ streams' = Minus(streams, Closes(First(d)))
         /\ ended' = ended \cup {streams[i] : i \in Closes(First(d))}
         /\ \A i \in Closes(First(d)) :
              i \in Range(First(d).frees) /\ \E a \in First(d).acts : a.id = i /\ i \in DOMAIN running
         /\ UNCHANGED <<idOf, adding, wait, at, fate, out>>
<1>1. Head(down[d]) = First(d)
  BY ShapeOfRead DEF First
<1> QED BY <1>1 DEF RecvOutput, Closes, Heard, hand, route, engine

\* The id of somebody who is carried is not closed.
LEMMA TablesClosed ==
  ASSUME TablesTyped, InOnePlace, IdsInv, TablesAgree, Carried' \subseteq Carried,
         NEW d \in Replicas, RecvOutput(d)
  PROVE  TablesAgree'
<1>1. /\ DOMAIN running' = DOMAIN running \ Closes(First(d))
      /\ DOMAIN streams' = DOMAIN streams \ Closes(First(d))
      /\ \A i \in DOMAIN streams' : streams'[i] = streams[i]
      /\ UNCHANGED <<idOf, adding, wait>>
  BY ShapeOfClosing DEF Minus
<1>2. \A q \in Carried : idOf[q] \notin Closes(First(d))
  <2>1. \A j \in DOMAIN First(d).frees : \A q \in Carried : idOf[q] # First(d).frees[j]
    BY ShapeOfRead DEF IdsInv, ComesBackOnce, First
  <2>2. \A i \in Closes(First(d)) : \E j \in DOMAIN First(d).frees : First(d).frees[j] = i
    BY ShapeOfClosing DEF Range
  <2> QED BY <2>1, <2>2
<1> QED BY <1>1, <1>2 DEF TablesAgree

-----------------------------------------------------------------------------
(* Tokens. *)

\* Steps that do not touch tokens, and keep what is known of their requests.
LEMMA TokensStay ==
  ASSUME TablesTyped, TokensInOrder, ReadInOrder,
         UNCHANGED <<down, got, out>>, DOMAIN running \subseteq DOMAIN running',
         \A i \in DOMAIN streams : i \in DOMAIN streams' /\ streams'[i] = streams[i],
         \A r \in Reqs : fate[r] # "new" => at'[r] = at[r] /\ fate'[r] # "new"
  PROVE  TokensInOrder'
<1>1. ASSUME NEW d \in Replicas, NEW k \in DOMAIN down[d], NEW a \in down[d][k].acts
      PROVE  TokenOK(d, k, a)'
  <2>1. TokenOK(d, k, a)
    BY DEF TokensInOrder
  <2>2. a.token[1] \in Reqs
    BY PackageTypes
  <2> QED BY <2>1, <2>2 DEF TokenOK
<1>2. ASSUME NEW r \in Reqs, NEW n \in Len(got[r]) + 1 .. Len(out[r])
      PROVE  \E k \in DOMAIN down[at'[r]] : \E a \in down[at'[r]][k].acts : a.token = <<r, n>>
  <2>1. CASE fate[r] = "new"
    <3>1. out[r] = <<>> /\ Len(got[r]) \in Nat
      BY <2>1 DEF ReadInOrder, TablesTyped
    <3> QED BY <3>1
  <2>2. CASE fate[r] # "new"
    BY <2>2, <1>2 DEF TokensInOrder
  <2> QED BY <2>1, <2>2
<1> QED BY <1>1, <1>2 DEF TokensInOrder

LEMMA ReadStays ==
  ASSUME ReadInOrder, UNCHANGED <<got, out, ended>>,
         \A r \in Reqs : fate'[r] = "new" => fate[r] = "new",
         \A r \in Reqs : fate'[r] = "live" => fate[r] \in {"new", "live"}
  PROVE  ReadInOrder'
BY DEF ReadInOrder

\* A token under way bears the id of its request.
LEMMA TokensById ==
  ASSUME TablesTyped, TablesAgree, TokensInOrder, NEW d \in Replicas, NEW k \in DOMAIN down[d],
         NEW a \in down[d][k].acts
  PROVE  /\ TokenOK(d, k, a) /\ a.id = idOf[a.token[1]] /\ at[a.token[1]] = d
         /\ a.token[1] \in Reqs /\ a.token[2] \in Nat /\ a.token = <<a.token[1], a.token[2]>>
         /\ a.token[2] \in Len(got[a.token[1]]) + 1 .. Len(out[a.token[1]])
         /\ Len(got[a.token[1]]) \in Nat /\ Len(out[a.token[1]]) \in Nat
<1>1. TokenOK(d, k, a)
  BY DEF TokensInOrder
<1>2. a.token[1] \in Reqs /\ a.token[2] \in Nat /\ a.token = <<a.token[1], a.token[2]>>
  BY PackageTypes
<1>3. Len(got[a.token[1]]) \in Nat /\ Len(out[a.token[1]]) \in Nat
  BY <1>2 DEF TablesTyped
<1> QED BY <1>1, <1>2, <1>3 DEF TokenOK, TablesAgree

\* A package has the next token of a request, or none of it.
LEMMA NextIsRead ==
  ASSUME TablesTyped, TablesAgree, TokensInOrder, NEW d \in Replicas, RecvOutput(d), NEW r \in Reqs
  PROVE  \/ /\ \E a \in First(d).acts : a.token = <<r, Len(got[r]) + 1>>
            /\ got'[r] = Append(got[r], <<r, Len(got[r]) + 1>>)
         \/ /\ \A a \in First(d).acts : a.token[1] # r
            /\ got'[r] = got[r]
<1> DEFINE p == First(d)
           For == {a \in Heard(p) : streams[a.id] = r}
<1>1. 1 \in DOMAIN down[d] /\ Head(down[d]) = p
  BY ShapeOfRead DEF First
<1>2. got'[r] = IF For = {} THEN got[r] ELSE Append(got[r], (CHOOSE a \in For : TRUE).token)
  BY <1>1 DEF RecvOutput
<1>3. For = {a \in p.acts : a.token[1] = r}
  <2>1. \A a \in p.acts : a.id \in DOMAIN running /\ streams[a.id] = a.token[1]
    BY <1>1 DEF TokensInOrder, TokenOK, First
  <2> QED BY <2>1 DEF Heard
<1> HIDE DEF For
<1>4. ASSUME NEW a \in p.acts, a.token[1] = r
      PROVE  a.token = <<r, Len(got[r]) + 1>>
  <2>1. /\ at[r] = d /\ a.token[2] \in Nat /\ a.token = <<r, a.token[2]>> /\ TokenOK(d, 1, a)
        /\ a.token[2] \in Len(got[r]) + 1 .. Len(out[r])
        /\ Len(got[r]) \in Nat /\ Len(out[r]) \in Nat
    BY <1>1, <1>4, TokensById DEF First
  <2> SUFFICES ASSUME Len(got[r]) + 1 < a.token[2]
               PROVE  FALSE
    BY <2>1
  <2>2. Len(got[r]) + 1 \in Len(got[r]) + 1 .. Len(out[r])
    BY <2>1
  <2>3. PICK k \in DOMAIN down[d] : \E b \in down[d][k].acts : b.token = <<r, Len(got[r]) + 1>>
    BY <2>1, <2>2 DEF TokensInOrder
  <2>4. PICK b \in down[d][k].acts : b.token = <<r, Len(got[r]) + 1>>
    BY <2>3
  <2>5. b.token[1] = r /\ b.token[2] = Len(got[r]) + 1
    BY <2>4
  <2>6. TokenOK(d, k, b)
    BY DEF TokensInOrder
  <2>7. k < 1
    BY <1>1, <1>4, <2>5, <2>6 DEF TokenOK, First
  <2>8. k \in Nat \ {0}
    BY ShapeOfRead
  <2> QED BY <2>7, <2>8
<1>5. CASE For = {}
  BY <1>2, <1>3, <1>5
<1>6. CASE For # {}
  <2>1. (CHOOSE a \in For : TRUE) \in For
    BY <1>6
  <2> QED BY <1>2, <1>3, <1>4, <1>6, <2>1
<1> QED BY <1>5, <1>6

LEMMA TokensRead ==
  ASSUME TablesTyped, TablesTyped', TablesAgree, TokensInOrder, ReadInOrder, NEW d \in Replicas, RecvOutput(d)
  PROVE  TokensInOrder'
<1>1. /\ DOMAIN running' = DOMAIN running \ Closes(First(d))
      /\ DOMAIN streams' = DOMAIN streams \ Closes(First(d))
      /\ \A i \in DOMAIN streams' : streams'[i] = streams[i]
      /\ UNCHANGED <<at, fate, out>> /\ \A i \in Closes(First(d)) : i \in Range(First(d).frees)
  BY ShapeOfClosing DEF Minus
<1>2. ASSUME NEW e \in Replicas, NEW k \in DOMAIN down'[e]
      PROVE  \E l \in DOMAIN down[e] :
               /\ down'[e][k] = down[e][l] /\ l \in Nat /\ k \in Nat
               /\ (e = d => l = k + 1 /\ l > 1) /\ (e # d => l = k)
  <2>1. CASE e = d
    BY <1>2, <2>1, ShapeOfRead
  <2>2. CASE e # d
    <3>1. down[e] \in Seq(Package) /\ down'[e] = down[e]
      <4>1. down[e] \in Seq(Package)
        BY DEF TablesTyped
      <4>2. down'[e] = down[e]
        BY <2>2, ShapeOfRead
      <4> QED BY <4>1, <4>2
    <3>2. k \in Nat
      BY <1>2, <3>1
    <3> QED BY <1>2, <2>2, <3>1, <3>2
  <2> QED BY <2>1, <2>2
<1>3. 1 \in DOMAIN down[d] /\ First(d) = down[d][1]
  BY ShapeOfRead DEF First
<1>4. ASSUME NEW e \in Replicas, NEW k \in DOMAIN down'[e], NEW a \in down'[e][k].acts
      PROVE  TokenOK(e, k, a)'
  <2>1. PICK o \in DOMAIN down[e] :
          /\ down'[e][k] = down[e][o] /\ o \in Nat /\ k \in Nat
          /\ (e = d => o = k + 1 /\ o > 1) /\ (e # d => o = k)
    BY <1>2
  <2> DEFINE r == a.token[1]
  <2>2. /\ TokenOK(e, o, a) /\ at[r] = e /\ r \in Reqs /\ a.token[2] \in Nat
        /\ a.token[2] \in Len(got[r]) + 1 .. Len(out[r]) /\ Len(got[r]) \in Nat /\ Len(out[r]) \in Nat
    BY <2>1, TokensById
  <2> HIDE DEF r
  <2>3. a.id \notin Closes(First(d))
    BY <1>1, <1>3, <2>1, <2>2 DEF TokenOK
  <2>4. a.id \in DOMAIN running' /\ a.id \in DOMAIN streams' /\ streams'[a.id] = r /\ at'[r] = e /\ fate'[r] # "new"
    BY <1>1, <2>2, <2>3 DEF TokenOK, r
  <2>5. a.token[2] \in Len(got'[r]) + 1 .. Len(out'[r])
    <3>1. CASE got'[r] = got[r]
      BY <3>1, <2>2, <1>1
    <3>2. CASE /\ \E b \in First(d).acts : b.token = <<r, Len(got[r]) + 1>>
               /\ got'[r] = Append(got[r], <<r, Len(got[r]) + 1>>)
      <4>1. PICK b \in down[d][1].acts : b.token = <<r, Len(got[r]) + 1>>
        BY <3>2, <1>3
      <4>2. b.token[1] = r /\ b.token[2] = Len(got[r]) + 1 /\ TokenOK(d, 1, b) /\ at[r] = d
        BY <4>1, <1>3, TokensById
      <4>3. e = d /\ 1 < o
        BY <4>2, <2>1, <2>2
      <4>4. b.token[2] < a.token[2]
        <5>1. \A l \in DOMAIN down[d] : \A c \in down[d][l].acts :
                c.token[1] = b.token[1] => (b.token[2] < c.token[2] <=> 1 < l)
          BY <4>2 DEF TokenOK
        <5> QED BY <5>1, <4>2, <4>3, <2>1 DEF r
      <4>5. Len(got'[r]) = Len(got[r]) + 1
        BY <3>2, <2>2 DEF TablesTyped
      <4> QED BY <4>2, <4>4, <4>5, <2>2, <1>1
    <3> QED BY <3>1, <3>2, NextIsRead, <2>2
  <2>6. ASSUME NEW f \in Replicas, NEW l \in DOMAIN down'[f], a.id \in Range(down'[f][l].frees)
        PROVE  f = e /\ k <= l
    <3>1. PICK n \in DOMAIN down[f] :
          /\ down'[f][l] = down[f][n] /\ n \in Nat /\ l \in Nat
          /\ (f = d => n = l + 1 /\ n > 1) /\ (f # d => n = l)
      BY <1>2
    <3>2. f = e /\ o <= n
      BY <3>1, <2>2, <2>6 DEF TokenOK
    <3> QED BY <3>1, <3>2, <2>1
  <2>7. ASSUME NEW l \in DOMAIN down'[e], NEW b \in down'[e][l].acts, b.token[1] = r
        PROVE  a.token[2] < b.token[2] <=> k < l
    <3>1. PICK n \in DOMAIN down[e] :
          /\ down'[e][l] = down[e][n] /\ n \in Nat /\ l \in Nat
          /\ (e = d => n = l + 1 /\ n > 1) /\ (e # d => n = l)
      BY <1>2
    <3>2. a.token[2] < b.token[2] <=> o < n
      BY <3>1, <2>2, <2>7 DEF TokenOK, r
    <3> QED BY <3>1, <3>2, <2>1
  <2> QED BY <2>4, <2>5, <2>6, <2>7 DEF TokenOK, r
<1>5. ASSUME NEW r \in Reqs, NEW n \in Len(got'[r]) + 1 .. Len(out'[r])
      PROVE  \E k \in DOMAIN down'[at'[r]] : \E a \in down'[at'[r]][k].acts : a.token = <<r, n>>
  <2>1. got[r] \in Seq(Reqs \X Nat) /\ out[r] \in Seq(Tokens) /\ at[r] \in Replicas
    BY DEF TablesTyped
  <2>2. Len(got'[r]) = Len(got[r]) \/ Len(got'[r]) = Len(got[r]) + 1
    BY <2>1, NextIsRead
  <2>3. n \in Len(got[r]) + 1 .. Len(out[r])
    BY <1>1, <1>5, <2>1, <2>2
  <2>4. PICK k \in DOMAIN down[at[r]] : \E a \in down[at[r]][k].acts : a.token = <<r, n>>
    BY <2>3 DEF TokensInOrder
  <2>5. CASE at[r] = d /\ k = 1
    <3>1. PICK a \in First(d).acts : a.token = <<r, n>>
      BY <2>4, <2>5, <1>3
    <3>8. a.token[1] = r
      BY <3>1
    <3>2. got'[r] = Append(got[r], <<r, Len(got[r]) + 1>>) /\ \E b \in First(d).acts : b.token = <<r, Len(got[r]) + 1>>
      BY <3>8, NextIsRead
    <3>3. PICK b \in First(d).acts : b.token = <<r, Len(got[r]) + 1>>
      BY <3>2
    <3>4. TokenOK(d, 1, b) /\ TokenOK(d, 1, a)
      BY <1>3 DEF TokensInOrder
    <3>5. /\ b.token[1] = r /\ a.token[1] = r /\ b.token[2] = Len(got[r]) + 1 /\ a.token[2] = n
      BY <3>1, <3>3
    <3>6. ~(b.token[2] < a.token[2])
      BY <3>4, <3>5, <1>3 DEF TokenOK
    <3>7. Len(got'[r]) = Len(got[r]) + 1
      BY <3>2, <2>1
    <3> QED BY <3>5, <3>6, <3>7, <2>1, <1>5
  <2>6. CASE at[r] = d /\ k # 1
    <3>1. k - 1 \in DOMAIN down'[d] /\ down[d][k] = down'[d][k - 1]
      <4>1. k \in DOMAIN down[d]
        BY <2>6
      <4>2. \A i \in DOMAIN down[d] : i = 1 \/ (i - 1 \in DOMAIN down'[d] /\ down[d][i] = down'[d][i - 1])
        BY ShapeOfRead
      <4> QED BY <4>1, <4>2, <2>6
    <3>2. PICK a \in down[d][k].acts : a.token = <<r, n>>
      BY <2>4, <2>6
    <3>3. at'[r] = d /\ a \in down'[d][k - 1].acts
      BY <3>1, <3>2, <2>6, <1>1
    <3> QED BY <3>1, <3>2, <3>3
  <2>7. CASE at[r] # d
    <3>1. down'[at[r]] = down[at[r]] /\ at'[r] = at[r]
      BY <2>1, <2>7, <1>1, ShapeOfRead
    <3> QED BY <3>1, <2>4
  <2> QED BY <2>5, <2>6, <2>7
<1> QED BY <1>1, <1>4, <1>5 DEF TokensInOrder

LEMMA ReadOnRead ==
  ASSUME TablesTyped, TablesTyped', InOnePlace, IdsInv, TablesAgree, TokensInOrder, ReadInOrder,
         NEW d \in Replicas, RecvOutput(d)
  PROVE  ReadInOrder'
<1>1. UNCHANGED <<fate, out>> /\ 1 \in DOMAIN down[d] /\ First(d) = down[d][1]
  BY ShapeOfRead, ShapeOfClosing DEF First
<1>2. ASSUME NEW r \in Reqs
      PROVE  /\ got[r] \in Seq(Reqs \X Nat) /\ out[r] \in Seq(Tokens)
             /\ Len(got'[r]) <= Len(out'[r])
             /\ \A k \in DOMAIN got'[r] : got'[r][k] = <<r, k>>
             /\ r \in ended => got'[r] = got[r]
  <2>1. got[r] \in Seq(Reqs \X Nat) /\ out[r] \in Seq(Tokens)
    BY DEF TablesTyped
  <2>2. CASE got'[r] = got[r]
    BY <2>1, <2>2, <1>1 DEF ReadInOrder
  <2>3. CASE /\ \E a \in First(d).acts : a.token = <<r, Len(got[r]) + 1>>
             /\ got'[r] = Append(got[r], <<r, Len(got[r]) + 1>>)
    <3>1. PICK a \in First(d).acts : a.token = <<r, Len(got[r]) + 1>>
      BY <2>3
    <3>2. a.token[1] = r /\ a.token[2] = Len(got[r]) + 1
      BY <3>1
    <3>3. a.token[2] \in Len(got[r]) + 1 .. Len(out[r])
      BY <3>2, <1>1, TokensById
    <3>4. Len(got[r]) + 1 <= Len(out[r]) /\ r \notin ended
      BY <3>2, <3>3, <2>1 DEF ReadInOrder
    <3>5. Len(got'[r]) = Len(got[r]) + 1
      BY <2>1, <2>3
    <3>6. \A k \in DOMAIN got'[r] : got'[r][k] = <<r, k>>
      <4>1. \A k \in DOMAIN got[r] : got[r][k] = <<r, k>>
        BY DEF ReadInOrder
      <4>2. /\ DOMAIN got'[r] = DOMAIN got[r] \cup {Len(got[r]) + 1}
            /\ \A k \in DOMAIN got[r] : got'[r][k] = got[r][k]
            /\ got'[r][Len(got[r]) + 1] = <<r, Len(got[r]) + 1>>
        BY <2>1, <2>3, ShapeOfAppend
      <4> QED BY <4>1, <4>2
    <3> QED BY <2>1, <3>4, <3>5, <3>6, <1>1
  <2> QED BY <2>2, <2>3, NextIsRead
<1>3. ASSUME NEW i \in Closes(First(d))
      PROVE  LET r == streams[i]
             IN  r \in Reqs /\ Len(got'[r]) = Len(out[r]) /\ fate[r] \notin {"new", "live"}
  <2>1. PICK a \in First(d).acts : a.id = i
    BY ShapeOfClosing
  <2> DEFINE r == a.token[1]
  <2>2. /\ TokenOK(d, 1, a) /\ i = idOf[r] /\ at[r] = d /\ r \in Reqs
        /\ a.token[2] \in Len(got[r]) + 1 .. Len(out[r])
        /\ Len(got[r]) \in Nat /\ Len(out[r]) \in Nat
    BY <2>1, <1>1, TokensById
  <2> HIDE DEF r
  <2>3. streams[i] = r /\ fate[r] # "new"
    BY <2>1, <2>2 DEF TokenOK, r
  <2>4. PICK j \in DOMAIN First(d).frees : First(d).frees[j] = i
    BY ShapeOfClosing DEF Range
  <2>5. fate[r] # "live"
    <3>1. r \notin Carried
      BY <2>2, <2>4, <1>1 DEF IdsInv, ComesBackOnce
    <3> QED BY <3>1, <2>2 DEF Carried
  <2>6. /\ \E b \in First(d).acts : b.token = <<r, Len(got[r]) + 1>>
        /\ got'[r] = Append(got[r], <<r, Len(got[r]) + 1>>)
    BY <2>2, NextIsRead DEF r
  <2>7. Len(got'[r]) = Len(got[r]) + 1
    BY <2>2, <2>6, <1>2
  <2>8. ASSUME Len(got[r]) + 1 < Len(out[r])
        PROVE  FALSE
    <3>1. Len(got[r]) + 2 \in Len(got[r]) + 1 .. Len(out[r])
      BY <2>2, <2>8
    <3>2. PICK k \in DOMAIN down[d] : \E b \in down[d][k].acts : b.token = <<r, Len(got[r]) + 2>>
      BY <2>2, <3>1 DEF TokensInOrder
    <3>3. PICK b \in down[d][k].acts : b.token = <<r, Len(got[r]) + 2>>
      BY <3>2
    <3>4. b.token[1] = r /\ b.token[2] = Len(got[r]) + 2 /\ TokenOK(d, k, b) /\ b.id = i
      BY <3>3, <2>2, TokensById
    <3>5. PICK c \in First(d).acts : c.token = <<r, Len(got[r]) + 1>>
      BY <2>6
    <3>6. c.token[1] = r /\ c.token[2] = Len(got[r]) + 1 /\ TokenOK(d, 1, c)
      BY <3>5, <1>1 DEF TokensInOrder
    <3>7. 1 < k
      <4>1. c.token[2] < b.token[2]
        BY <3>4, <3>6, <2>2
      <4>2. \A l \in DOMAIN down[d] : \A e \in down[d][l].acts :
              e.token[1] = r => (c.token[2] < e.token[2] <=> 1 < l)
        BY <3>6 DEF TokenOK
      <4> QED BY <4>1, <4>2, <3>4
    <3>8. k <= 1
      BY <3>4, <2>4, <1>1 DEF TokenOK, Range
    <3>9. k \in Nat
      BY ShapeOfRead
    <3> QED BY <3>7, <3>8, <3>9
  <2>9. Len(got'[r]) = Len(out[r])
    BY <2>2, <2>7, <2>8, <1>1, <1>2
  <2> QED BY <2>2, <2>3, <2>5, <2>9
<1>4. ended' = ended \cup {streams[i] : i \in Closes(First(d))}
  BY ShapeOfClosing
<1>5. ASSUME NEW r \in Reqs, r \in ended'
      PROVE  Len(got'[r]) = Len(out'[r]) /\ fate'[r] \notin {"new", "live"}
  <2>1. CASE r \in ended
    BY <2>1, <1>1, <1>2 DEF ReadInOrder
  <2>2. CASE \E i \in Closes(First(d)) : r = streams[i]
    BY <2>2, <1>1, <1>3
  <2> QED BY <2>1, <2>2, <1>4, <1>5
<1>6. \A r \in Reqs : fate'[r] = "new" => out'[r] = <<>>
  BY <1>1 DEF ReadInOrder
<1> QED BY <1>2, <1>5, <1>6 DEF ReadInOrder

LEMMA TokensReturned ==
  ASSUME TablesTyped, TablesTyped', InOnePlace, IdsInv, TablesAgree, TokensInOrder, ReadInOrder,
         NEW d \in Replicas, NEW T \in SUBSET Live(d), NEW D \in SUBSET Live(d), Returns(d, T, D),
         UNCHANGED <<idOf, streams, running, at, got, ended>>
  PROVE  TokensInOrder' /\ ReadInOrder'
<1> PICK m : m = Len(down[d]) + 1
  OBVIOUS
<1>15. PICK new :
    /\ new.acts = NextTokens(T)
    /\ \A x : x \in {idOf[r] : r \in D} <=> \E j \in DOMAIN new.frees : new.frees[j] = x
    /\ \A i, j \in DOMAIN new.frees : new.frees[i] = new.frees[j] => i = j
    /\ \A e \in Replicas : e # d => down'[e] = down[e]
    /\ Len(down[d]) + 1 \notin DOMAIN down[d] /\ DOMAIN down'[d] = DOMAIN down[d] \cup {Len(down[d]) + 1}
    /\ \A k \in DOMAIN down[d] : down'[d][k] = down[d][k] /\ k \in Nat /\ k < Len(down[d]) + 1
    /\ down'[d][Len(down[d]) + 1] = new
  BY ShapeOfReturn
<1>1. 
    /\ new.acts = NextTokens(T)
    /\ \A x : x \in {idOf[r] : r \in D} <=> \E j \in DOMAIN new.frees : new.frees[j] = x
    /\ \A i, j \in DOMAIN new.frees : new.frees[i] = new.frees[j] => i = j
    /\ \A e \in Replicas : e # d => down'[e] = down[e]
    /\ m \notin DOMAIN down[d] /\ DOMAIN down'[d] = DOMAIN down[d] \cup {m}
    /\ \A k \in DOMAIN down[d] : down'[d][k] = down[d][k] /\ k \in Nat /\ k < m
    /\ down'[d][m] = new
  BY <1>15
<1>2. m \in Nat
  BY PackageTypes
<1>3. ASSUME NEW e \in Replicas, NEW k \in DOMAIN down'[e]
      PROVE  \/ k \in DOMAIN down[e] /\ down'[e][k] = down[e][k] /\ (e = d => k \in Nat /\ k < m)
             \/ e = d /\ k = m /\ down'[e][k] = new
  BY <1>1, <1>3
<1>4. /\ \A r \in Reqs : r \notin T => out'[r] = out[r]
      /\ \A r \in T : Len(out'[r]) = Len(out[r]) + 1
      /\ \A r \in Reqs : r \notin D => fate'[r] = fate[r]
      /\ \A r \in D : fate'[r] \in {"finished", "aborted"}
  BY DEF Returns
<1>5. \A r \in T \cup D : r \in Reqs /\ r \in Carried /\ at[r] = d /\ fate[r] = "live"
  BY DEF Live, Carried
<1>6. \A r \in T \cup D : idOf[r] \in DOMAIN streams /\ streams[idOf[r]] = r /\ idOf[r] \in DOMAIN running
  BY <1>5 DEF TablesAgree, InOnePlace
<1>7. \A r \in Reqs : got[r] \in Seq(Reqs \X Nat) /\ Len(got[r]) \in Nat /\ Len(out[r]) \in Nat
                      /\ Len(got[r]) <= Len(out[r])
  <2>1. \A r \in Reqs : got[r] \in Seq(Reqs \X Nat) /\ out[r] \in Seq(Tokens)
    BY DEF TablesTyped
  <2> QED BY <2>1 DEF ReadInOrder
<1>8. \A j \in DOMAIN new.frees : \E r \in D : idOf[r] = new.frees[j]
  <2>1. \A j \in DOMAIN new.frees : new.frees[j] \in {idOf[r] : r \in D}
    BY <1>1
  <2> QED BY <2>1
<1>9. \A a \in new.acts : \E r \in T :
        a.id = idOf[r] /\ a.token[1] = r /\ a.token[2] = Len(out[r]) + 1 /\ a.token = <<r, Len(out[r]) + 1>>
  BY <1>1 DEF NextTokens
<1>10. ASSUME NEW e \in Replicas, NEW k \in DOMAIN down[e], NEW a \in down[e][k].acts
       PROVE  TokenOK(e, k, a)'
  <2> DEFINE r == a.token[1]
  <2>1. /\ TokenOK(e, k, a) /\ at[r] = e /\ r \in Reqs /\ a.token[2] \in Nat
        /\ a.token[2] \in Len(got[r]) + 1 .. Len(out[r]) /\ Len(got[r]) \in Nat /\ Len(out[r]) \in Nat
    BY TokensById
  <2> HIDE DEF r
  <2>2. a.id \in DOMAIN running' /\ a.id \in DOMAIN streams' /\ streams'[a.id] = r /\ at'[r] = e /\ fate'[r] # "new"
    <3>1. fate[r] # "new" /\ a.id \in DOMAIN running /\ a.id \in DOMAIN streams /\ streams[a.id] = r
      BY <2>1 DEF TokenOK, r
    <3> QED BY <3>1, <2>1, <1>4
  <2>3. a.token[2] \in Len(got'[r]) + 1 .. Len(out'[r])
    BY <2>1, <1>4
  <2>4. ASSUME NEW f \in Replicas, NEW l \in DOMAIN down'[f], a.id \in Range(down'[f][l].frees)
        PROVE  f = e /\ k <= l
    <3>1. CASE l \in DOMAIN down[f] /\ down'[f][l] = down[f][l]
      BY <3>1, <2>1, <2>4 DEF TokenOK
    <3>2. CASE f = d /\ l = m /\ down'[f][l] = new
      <4>1. PICK q \in D : idOf[q] = a.id
        BY <3>2, <2>4, <1>8 DEF Range
      <4>2. q = r
        BY <4>1, <1>6, <2>1 DEF TokenOK, r
      <4>3. e = d
        BY <4>1, <4>2, <1>5, <2>1
      <4> QED BY <4>3, <3>2, <1>1, <1>2
    <3> QED BY <3>1, <3>2, <1>3
  <2>5. ASSUME NEW l \in DOMAIN down'[e], NEW b \in down'[e][l].acts, b.token[1] = r
        PROVE  a.token[2] < b.token[2] <=> k < l
    <3>1. CASE l \in DOMAIN down[e] /\ down'[e][l] = down[e][l]
      BY <3>1, <2>1, <2>5 DEF TokenOK, r
    <3>2. CASE e = d /\ l = m /\ down'[e][l] = new
      <4>1. b.token[2] = Len(out[r]) + 1
        BY <3>2, <2>5, <1>9
      <4>2. k < m
        BY <3>2, <1>1
      <4> QED BY <4>1, <4>2, <3>2, <2>1
    <3> QED BY <3>1, <3>2, <1>3
  <2> QED BY <2>2, <2>3, <2>4, <2>5 DEF TokenOK, r
<1>11. ASSUME NEW a \in new.acts
       PROVE  TokenOK(d, m, a)'
  <2> DEFINE r == a.token[1]
  <2>1. r \in T /\ a.id = idOf[r] /\ a.token[2] = Len(out[r]) + 1
    BY <1>9
  <2>7. a.token[1] = r
    OBVIOUS
  <2> HIDE DEF r
  <2>2. r \in Reqs /\ r \in Carried /\ at[r] = d /\ fate[r] = "live" /\ Len(out'[r]) = Len(out[r]) + 1
    BY <2>1, <1>4, <1>5
  <2>3. a.id \in DOMAIN running' /\ a.id \in DOMAIN streams' /\ streams'[a.id] = r /\ at'[r] = d /\ fate'[r] # "new"
    BY <2>1, <2>2, <1>4, <1>6
  <2>4. a.token[2] \in Len(got'[r]) + 1 .. Len(out'[r])
    BY <2>1, <2>2, <1>7
  <2>5. ASSUME NEW f \in Replicas, NEW l \in DOMAIN down'[f], a.id \in Range(down'[f][l].frees)
        PROVE  f = d /\ m <= l
    <3>1. CASE l \in DOMAIN down[f] /\ down'[f][l] = down[f][l]
      BY <3>1, <2>1, <2>2, <2>5 DEF IdsInv, ComesBackOnce, Range
    <3>2. CASE f = d /\ l = m
      BY <3>2, <1>2
    <3> QED BY <3>1, <3>2, <1>3
  <2>6. ASSUME NEW l \in DOMAIN down'[d], NEW b \in down'[d][l].acts, b.token[1] = r
        PROVE  a.token[2] < b.token[2] <=> m < l
    <3>1. CASE l \in DOMAIN down[d] /\ down'[d][l] = down[d][l]
      <4>1. b.token[2] \in Len(got[r]) + 1 .. Len(out[r]) /\ b.token[2] \in Nat
        BY <3>1, <2>6, TokensById
      <4>2. l \in Nat /\ l < m
        BY <3>1, <1>1
      <4> QED BY <4>1, <4>2, <2>1, <2>2, <1>2, <1>7
    <3>2. CASE l = m /\ down'[d][l] = new
      <4>1. b.token[2] = Len(out[r]) + 1
        BY <3>2, <2>6, <1>9
      <4> QED BY <4>1, <3>2, <2>1, <2>2, <1>2, <1>7
    <3> QED BY <3>1, <3>2, <1>3
  <2> QED BY <2>3, <2>4, <2>5, <2>6 DEF TokenOK, r
<1>12. ASSUME NEW r \in Reqs, NEW n \in Len(got'[r]) + 1 .. Len(out'[r])
       PROVE  \E k \in DOMAIN down'[at'[r]] : \E a \in down'[at'[r]][k].acts : a.token = <<r, n>>
  <2>1. CASE n \in Len(got[r]) + 1 .. Len(out[r])
    <3>1. PICK k \in DOMAIN down[at[r]] : \E a \in down[at[r]][k].acts : a.token = <<r, n>>
      BY <2>1 DEF TokensInOrder
    <3>2. at[r] \in Replicas
      BY DEF TablesTyped
    <3>3. k \in DOMAIN down'[at[r]] /\ down'[at[r]][k] = down[at[r]][k]
      BY <1>1, <3>2
    <3> QED BY <3>1, <3>3
  <2>2. CASE r \in T /\ n = Len(out[r]) + 1
    <3>1. [id |-> idOf[r], token |-> <<r, Len(out[r]) + 1>>] \in down'[d][m].acts /\ m \in DOMAIN down'[d]
      BY <2>2, <1>1 DEF NextTokens
    <3> QED BY <3>1, <2>2, <1>5
  <2>3. CASE r \notin T
    BY <2>1, <2>3, <1>4, <1>12
  <2>4. CASE r \in T
    <3>1. n \in Len(got[r]) + 1 .. Len(out[r]) + 1 /\ Len(got[r]) \in Nat /\ Len(out[r]) \in Nat
      BY <2>4, <1>4, <1>7, <1>12
    <3>2. n \in Len(got[r]) + 1 .. Len(out[r]) \/ n = Len(out[r]) + 1
      BY <3>1
    <3> QED BY <2>1, <2>2, <2>4, <3>2
  <2> QED BY <2>3, <2>4
<1>13. TokensInOrder'
  <2>1. \A e \in Replicas : \A k \in DOMAIN down'[e] : \A a \in down'[e][k].acts : TokenOK(e, k, a)'
    <3> SUFFICES ASSUME NEW e \in Replicas, NEW k \in DOMAIN down'[e], NEW a \in down'[e][k].acts
                 PROVE  TokenOK(e, k, a)'
      OBVIOUS
    <3>1. CASE k \in DOMAIN down[e] /\ down'[e][k] = down[e][k]
      BY <3>1, <1>10
    <3>2. CASE e = d /\ k = m /\ down'[e][k] = new
      BY <3>2, <1>11
    <3> QED BY <3>1, <3>2, <1>3
  <2> QED BY <2>1, <1>12 DEF TokensInOrder
<1>14. ReadInOrder'
  <2> SUFFICES ASSUME NEW r \in Reqs
               PROVE  /\ Len(got'[r]) <= Len(out'[r])
                      /\ fate'[r] = "new" => out'[r] = <<>>
                      /\ \A k \in DOMAIN got'[r] : got'[r][k] = <<r, k>>
                      /\ r \in ended' => Len(got'[r]) = Len(out'[r]) /\ fate'[r] \notin {"new", "live"}
    BY DEF ReadInOrder
  <2>1. CASE r \in T
    BY <2>1, <1>4, <1>5, <1>7 DEF ReadInOrder
  <2>2. CASE r \notin T
    BY <2>2, <1>4, <1>5 DEF ReadInOrder
  <2> QED BY <2>1, <2>2
<1> QED BY <1>13, <1>14

-----------------------------------------------------------------------------
(* Aborts. *)

\* What a step may add to the aborts under way is under the id of a client that hung up.
AbortsGrow ==
  /\ hung \subseteq hung' /\ \A q \in hung' : idOf'[q] # 0
  /\ \A q \in Reqs : idOf[q] # 0 => idOf'[q] = idOf[q]
  /\ \A q \in Reqs : fate'[q] = "aborted" => fate[q] = "aborted" \/ idOf[q] \in HungIds
  /\ abortIds' \cup aborting' \subseteq HungIds
  /\ \A d \in Replicas : toAbort'[d] \subseteq HungIds
  /\ \A d \in Replicas : \A k \in DOMAIN up'[d] : up'[d][k].aborts \subseteq HungIds

LEMMA AbortsGrown ==
  ASSUME TablesTyped, AbortsOK, AbortsGrow
  PROVE  AbortsOK'
<1>1. \A q \in hung : q \in Reqs /\ idOf[q] # 0
  BY DEF TablesTyped, AbortsOK
<1>2. HungIds \subseteq HungIds'
  BY <1>1 DEF HungIds, AbortsGrow
<1>3. \A q \in Reqs : fate'[q] = "aborted" => idOf[q] \in HungIds /\ idOf'[q] = idOf[q]
  <2>1. \A q \in Reqs : fate'[q] = "aborted" => idOf[q] \in HungIds
    BY DEF AbortsOK, AbortsFollowAHangUp, HungIds, AbortsGrow
  <2>2. \A x \in HungIds : x # 0
    BY <1>1 DEF HungIds
  <2> QED BY <2>1, <2>2 DEF AbortsGrow
<1>4. AbortsFollowAHangUp'
  BY <1>2, <1>3 DEF AbortsFollowAHangUp, HungIds
<1> QED BY <1>2, <1>4 DEF AbortsOK, AbortsGrow

\* A step that leaves the clients and the verdicts alone, and adds no abort.
LEMMA AbortsKept ==
  ASSUME AbortsOK,
         hung' = hung, idOf' = idOf, toAbort' = toAbort, fate' = fate,
         abortIds' \cup aborting' \subseteq HungIds,
         \A d \in Replicas : \A k \in DOMAIN up'[d] : up'[d][k].aborts \subseteq HungIds
  PROVE  AbortsGrow
<1>1. hung \subseteq hung' /\ \A q \in hung' : idOf'[q] # 0
  BY DEF AbortsOK
<1>2. \A q \in Reqs : idOf[q] # 0 => idOf'[q] = idOf[q]
  OBVIOUS
<1>3. \A q \in Reqs : fate'[q] = "aborted" => fate[q] = "aborted" \/ idOf[q] \in HungIds
  OBVIOUS
<1>4. \A d \in Replicas : toAbort'[d] \subseteq HungIds
  BY DEF AbortsOK
<1> QED BY <1>1, <1>2, <1>3, <1>4 DEF AbortsGrow

LEMMA AbortsStayOK ==
  ASSUME TablesTyped, TablesTyped', InOnePlace, TablesAgree, AbortsOK, [FNext]_fvars
  PROVE  AbortsOK'
<1> SUFFICES AbortsGrow
  BY AbortsGrown
<1>1. ASSUME NEW r \in Reqs, AddRequestsAsync(r)
      PROVE  AbortsGrow
  <2>1. /\ idOf[r] = 0 /\ idOf' = [idOf EXCEPT ![r] = freeIds[1]]
        /\ UNCHANGED <<hung, abortIds, aborting, toAbort, up, fate>>
    BY <1>1, TakenIn DEF hand, claim, engine
  <2>2. \A q \in Reqs : idOf[q] # 0 => idOf'[q] = idOf[q]
    BY <2>1 DEF TablesTyped
  <2>3. \A q \in hung : q \in Reqs
    BY DEF TablesTyped
  <2> QED BY <2>1, <2>2, <2>3 DEF AbortsGrow, AbortsOK
<1>2. ASSUME NEW r \in Reqs, HangUp(r)
      PROVE  AbortsGrow
  BY <1>2 DEF HangUp, AbortsGrow, AbortsOK, hand, claim, engine
<1>3. ASSUME NEW r \in Reqs, AddRequests(r)
      PROVE  AbortsGrow
  BY <1>3 DEF AddRequests, AbortsGrow, AbortsOK, claim, engine
<1>4. CASE CheckAbortSeqs
  <2>1. PICK gone \in SUBSET {i \in DOMAIN running \cap DOMAIN streams :
                                Disconnected(i) /\ running[i] \notin noticed} :
          abortIds' = abortIds \cup gone
    BY <1>4 DEF CheckAbortSeqs
  <2>2. gone \subseteq HungIds
    BY DEF Disconnected, HungIds, TablesAgree
  <2>3. UNCHANGED <<hung, idOf, aborting, toAbort, up, fate>>
    BY <1>4 DEF CheckAbortSeqs, client, claim, engine
  <2>4. abortIds' \cup aborting' \subseteq HungIds
    BY <2>1, <2>2, <2>3 DEF AbortsOK
  <2>5. \A d \in Replicas : \A k \in DOMAIN up'[d] : up'[d][k].aborts \subseteq HungIds
    BY <2>3 DEF AbortsOK
  <2> QED BY <2>3, <2>4, <2>5, AbortsKept
<1>5. ASSUME NEW d \in Replicas, RecvOutput(d)
      PROVE  AbortsGrow
  BY <1>5 DEF RecvOutput, AbortsGrow, AbortsOK, hand, claim, engine
<1>6. CASE RecvDone
  <2>1. UNCHANGED <<hung, idOf, toAbort, up, fate>>
        /\ abortIds' \cup aborting' \subseteq abortIds \cup aborting
    BY <1>6 DEF RecvDone, client, hand, claim, engine
  <2>2. abortIds' \cup aborting' \subseteq HungIds
    BY <2>1 DEF AbortsOK
  <2>3. \A d \in Replicas : \A k \in DOMAIN up'[d] : up'[d][k].aborts \subseteq HungIds
    BY <2>1 DEF AbortsOK
  <2> QED BY <2>1, <2>2, <2>3, AbortsKept
<1>7. CASE SendIpcPackage
  <2>1. UNCHANGED <<hung, idOf, toAbort, up, fate>>
        /\ abortIds' \cup aborting' \subseteq abortIds \cup aborting
    BY <1>7 DEF SendIpcPackage, client, engine
  <2>2. abortIds' \cup aborting' \subseteq HungIds
    BY <2>1 DEF AbortsOK
  <2>3. \A d \in Replicas : \A k \in DOMAIN up'[d] : up'[d][k].aborts \subseteq HungIds
    BY <2>1 DEF AbortsOK
  <2> QED BY <2>1, <2>2, <2>3, AbortsKept
<1>8. CASE SendNew
  <2> DEFINE b == [new |-> {Head(sending)}, aborts |-> {}]
  <2>1. up' = [up EXCEPT ![rr] = Append(@, b)] /\ b.aborts = {}
        /\ UNCHANGED <<hung, idOf, abortIds, aborting, toAbort, fate>>
    BY <1>8 DEF SendNew, client, hand, engine
  <2> HIDE DEF b
  <2>2. ASSUME NEW d \in Replicas, NEW k \in DOMAIN up'[d]
        PROVE  up'[d][k].aborts \subseteq HungIds
    <3>1. up[d] \in Seq(Letter) /\ (up'[d] = up[d] \/ up'[d] = Append(up[d], b))
      BY <2>1 DEF TablesTyped
    <3>2. (k \in DOMAIN up[d] /\ up'[d][k] = up[d][k]) \/ up'[d][k] = b
      BY <3>1, <2>2, ShapeOfAppend
    <3> QED BY <3>2, <2>1 DEF AbortsOK
  <2>3. abortIds' \cup aborting' \subseteq HungIds
    BY <2>1 DEF AbortsOK
  <2> QED BY <2>1, <2>2, <2>3, AbortsKept
<1>9. CASE SendAborts
  <2> DEFINE b == [new |-> {}, aborts |-> aborting]
  <2>1. up' = [d \in Replicas |-> IF aborting = {} THEN up[d] ELSE Append(up[d], b)]
        /\ b.aborts = aborting /\ aborting' = {}
        /\ UNCHANGED <<hung, idOf, abortIds, toAbort, fate>>
    BY <1>9 DEF SendAborts, client, hand, engine
  <2> HIDE DEF b
  <2>2. ASSUME NEW d \in Replicas, NEW k \in DOMAIN up'[d]
        PROVE  up'[d][k].aborts \subseteq HungIds
    <3>1. up[d] \in Seq(Letter) /\ (up'[d] = up[d] \/ up'[d] = Append(up[d], b))
      BY <2>1 DEF TablesTyped
    <3>2. (k \in DOMAIN up[d] /\ up'[d][k] = up[d][k]) \/ up'[d][k] = b
      BY <3>1, <2>2, ShapeOfAppend
    <3> QED BY <3>2, <2>1 DEF AbortsOK
  <2>3. abortIds' \cup aborting' \subseteq HungIds
    BY <2>1 DEF AbortsOK
  <2> QED BY <2>1, <2>2, <2>3, AbortsKept
<1>10. ASSUME NEW d \in Replicas, ReplicaRecv(d)
       PROVE  AbortsGrow
  <2>1. /\ up[d] # <<>> /\ up' = [up EXCEPT ![d] = Tail(@)]
        /\ toAbort' = [toAbort EXCEPT ![d] = @ \cup Head(up[d]).aborts]
        /\ UNCHANGED <<hung, idOf, abortIds, aborting>>
    BY <1>10 DEF ReplicaRecv, client, hand, claim
  <2>2. up[d] \in Seq(Letter)
    BY DEF TablesTyped
  <2>3. /\ Head(up[d]) = up[d][1] /\ 1 \in DOMAIN up[d]
        /\ \A k \in DOMAIN Tail(up[d]) : k + 1 \in DOMAIN up[d] /\ Tail(up[d])[k] = up[d][k + 1]
    BY <2>1, <2>2, RangeOfTail
  <2>4. Head(up[d]).aborts \subseteq HungIds
    BY <2>3 DEF AbortsOK
  <2>5. \A e \in Replicas : toAbort'[e] \subseteq HungIds
    BY <2>1, <2>4 DEF AbortsOK, TablesTyped
  <2>6. ASSUME NEW e \in Replicas, NEW k \in DOMAIN up'[e]
        PROVE  up'[e][k].aborts \subseteq HungIds
    <3>1. up'[e] = IF e = d THEN Tail(up[d]) ELSE up[e]
      BY <2>1 DEF TablesTyped
    <3> QED BY <3>1, <2>3, <2>6 DEF AbortsOK
  <2>7. \A q \in Reqs : fate'[q] = "aborted" => fate[q] = "aborted"
    BY <1>10 DEF ReplicaRecv, Replica!Admit
  <2> QED BY <2>1, <2>5, <2>6, <2>7 DEF AbortsGrow, AbortsOK
<1>11. ASSUME NEW d \in Replicas, ReplicaAbort(d)
       PROVE  AbortsGrow
  <2>1. PICK S \in SUBSET {r \in Live(d) : idOf[r] \in toAbort[d]} :
          /\ Replica!Abort(S)
          /\ toAbort' = [toAbort EXCEPT ![d] = @ \ {idOf[r] : r \in S}]
    BY <1>11 DEF ReplicaAbort
  <2>2. UNCHANGED <<hung, idOf, abortIds, aborting, up>>
    BY <1>11 DEF ReplicaAbort, client, hand, claim
  <2>3. \A q \in Reqs : fate'[q] = "aborted" => fate[q] = "aborted" \/ idOf[q] \in toAbort[d]
    BY <2>1 DEF Replica!Abort
  <2>4. \A e \in Replicas : toAbort'[e] \subseteq toAbort[e]
    BY <2>1 DEF TablesTyped
  <2> QED BY <2>2, <2>3, <2>4 DEF AbortsGrow, AbortsOK
<1>12. ASSUME NEW d \in Replicas, ReplicaAnswer(d)
       PROVE  AbortsGrow
  <2>1. \A q \in Reqs : fate'[q] = "aborted" => fate[q] = "aborted"
    BY <1>12 DEF ReplicaAnswer, Replica!Answer
  <2>2. UNCHANGED <<hung, idOf, abortIds, aborting, up, toAbort>>
    BY <1>12 DEF ReplicaAnswer, client, hand, claim
  <2> QED BY <2>1, <2>2 DEF AbortsGrow, AbortsOK
<1>13. CASE UNCHANGED fvars
  <2>1. UNCHANGED <<hung, idOf, toAbort, up, fate>>
        /\ abortIds' \cup aborting' \subseteq abortIds \cup aborting
    BY <1>13 DEF fvars, client, hand, claim, engine
  <2>2. abortIds' \cup aborting' \subseteq HungIds
    BY <2>1 DEF AbortsOK
  <2>3. \A d \in Replicas : \A k \in DOMAIN up'[d] : up'[d][k].aborts \subseteq HungIds
    BY <2>1 DEF AbortsOK
  <2> QED BY <2>1, <2>2, <2>3, AbortsKept
<1> QED
  BY <1>1, <1>2, <1>3, <1>4, <1>5, <1>6, <1>7, <1>8, <1>9, <1>10, <1>11, <1>12, <1>13
  DEF FNext, Schedule

-----------------------------------------------------------------------------
(* The theorems. *)

LEMMA FrontendInit == FInit => FrontInv
<1> SUFFICES ASSUME FInit
             PROVE  FrontInv
  OBVIOUS
<1> USE FrontendConstants
<1>1. TablesTyped
  <2>1. freeIds \in Seq(Ids)
    BY DEF FInit, Ids
  <2> QED BY <2>1 DEF FInit, TablesTyped, Replica!Init, NoIds
<1>2. Carried = {} /\ Range(wait) = {} /\ Range(sending) = {}
  BY DEF FInit, Carried, InPackage, Range, Replica!Init
<1>3. InOnePlace
  BY <1>2 DEF FInit, InOnePlace, InPackage, Replica!Init
<1>4. IdsHeldOnce /\ ComesBackOnce
  <2>1. IdsHeldOnce
    BY <1>2 DEF FInit, IdsHeldOnce, Ids
  <2>2. ComesBackOnce
    BY DEF FInit, ComesBackOnce
  <2> QED BY <2>1, <2>2
<1>5. TablesAgree
  BY <1>2 DEF FInit, TablesAgree, NoIds
<1>6. TokensInOrder
  BY DEF FInit, TokensInOrder, Replica!Init
<1>7. ReadInOrder
  BY DEF FInit, ReadInOrder, Replica!Init
<1>8. AbortsOK
  BY DEF FInit, AbortsOK, AbortsFollowAHangUp, Replica!Init
<1> QED BY <1>1, <1>3, <1>4, <1>5, <1>6, <1>7, <1>8 DEF FrontInv

LEMMA FrontendStep ==
  ASSUME FrontInv, [FNext]_fvars
  PROVE  FrontInv'
<1> USE DEF FrontInv
<1>1. TablesTyped'
  BY FrontendTypes
<1>2. AbortsOK'
  BY <1>1, AbortsStayOK
<1>3. IdsInv
  BY DEF IdsInv
<1> DEFINE Rest == InOnePlace' /\ IdsInv' /\ TablesAgree' /\ TokensInOrder' /\ ReadInOrder'
<1>4. ASSUME NEW r \in Reqs, AddRequestsAsync(r)
      PROVE  Rest
  <2>1. UNCHANGED <<down, got, out, running, at, fate, ended>>
    BY <1>1, <1>4, TakenIn DEF route, engine, told
  <2>2. TablesAgree' /\ \A i \in DOMAIN streams : i \in DOMAIN streams' /\ streams'[i] = streams[i]
    BY <1>1, <1>3, <1>4, TablesTaken
  <2>3. TokensInOrder'
    BY <2>1, <2>2, TokensStay
  <2>4. ReadInOrder'
    BY <2>1, ReadStays
  <2> QED BY <1>1, <1>3, <1>4, <2>2, <2>3, <2>4, TakenIn, IdsTaken
<1>5. ASSUME \/ \E r \in Reqs : HangUp(r) \/ AddRequests(r)
             \/ CheckAbortSeqs \/ RecvDone \/ SendIpcPackage \/ SendNew \/ SendAborts
             \/ UNCHANGED fvars
      PROVE  Rest
  <2>1. InOnePlace' /\ Carried' \subseteq Carried
    BY <1>1, <1>5, HandedOn DEF Schedule
  <2>2. UNCHANGED <<idOf, freeIds, down, streams, got, out, fate, ended>>
    BY <1>5 DEF HangUp, AddRequests, CheckAbortSeqs, RecvDone, SendIpcPackage, SendNew, SendAborts,
                fvars, client, engine, told
  <2>3. IdsInv'
    BY <1>3, <2>1, <2>2, IdsStay
  <2>4. TablesAgree' /\ DOMAIN running \subseteq DOMAIN running'
    <3>1. CASE SendIpcPackage
      BY <2>1, <3>1, TablesClaimed DEF SendIpcPackage
    <3>2. ASSUME NEW r \in Reqs, AddRequests(r)
          PROVE  TablesAgree' /\ DOMAIN running \subseteq DOMAIN running'
      <4>1. adding' = adding \ {r} /\ wait' = Append(wait, r) /\ running' = running
        BY <3>2 DEF AddRequests
      <4>2. Range(wait') = Range(wait) \cup {r}
        BY <4>1, RangeOfAppend DEF TablesTyped
      <4> QED BY <2>1, <2>2, <4>1, <4>2, TablesStay
    <3>3. CASE UNCHANGED <<adding, wait, running>>
      BY <2>1, <2>2, <3>3, TablesStay
    <3> QED
      BY <1>5, <3>1, <3>2, <3>3
      DEF HangUp, CheckAbortSeqs, RecvDone, SendNew, SendAborts, fvars, client, hand
  <2>5. \A r \in Reqs : fate[r] # "new" => at'[r] = at[r]
    <3>1. CASE SendNew
      <4>1. at' = [at EXCEPT ![Head(sending)] = rr] /\ sending # <<>>
        BY <3>1 DEF SendNew
      <4>2. Head(sending) \in Range(sending)
        BY <4>1, RangeOfTail DEF TablesTyped
      <4>3. fate[Head(sending)] = "new"
        BY <4>2, CarriedIds DEF InOnePlace
      <4> QED BY <4>1, <4>3 DEF TablesTyped
    <3>2. CASE at' = at
      BY <3>2
    <3> QED
      BY <1>5, <3>1, <3>2
      DEF HangUp, AddRequests, CheckAbortSeqs, RecvDone, SendIpcPackage, SendAborts, fvars, route
  <2>6. TokensInOrder'
    BY <2>2, <2>4, <2>5, TokensStay
  <2>7. ReadInOrder'
    BY <2>2, ReadStays
  <2> QED BY <2>1, <2>3, <2>4, <2>6, <2>7
<1>6. ASSUME NEW d \in Replicas, RecvOutput(d)
      PROVE  Rest
  <2>1. InOnePlace' /\ Carried' \subseteq Carried
    BY <1>1, <1>6, HandedOn DEF Schedule
  <2> QED
    BY <1>1, <1>3, <1>6, <2>1, IdsGivenBack, TablesClosed, TokensRead, ReadOnRead
<1>7. ASSUME NEW d \in Replicas, ReplicaRecv(d)
      PROVE  Rest
  <2>1. InOnePlace' /\ Carried' \subseteq Carried
    BY <1>1, <1>7, OnePlaceReceived
  <2>2. UNCHANGED <<idOf, freeIds, down, streams, got, out, ended, adding, wait, running, at>>
    BY <1>7 DEF ReplicaRecv, Replica!Admit, client, hand, route, told
  <2>3. /\ \A r \in Reqs : fate[r] # "new" => fate'[r] # "new"
        /\ \A r \in Reqs : fate'[r] = "new" => fate[r] = "new"
        /\ \A r \in Reqs : fate'[r] = "live" => fate[r] \in {"new", "live"}
    BY <1>7 DEF ReplicaRecv, Replica!Admit
  <2> QED BY <1>3, <2>1, <2>2, <2>3, IdsStay, TablesStay, TokensStay, ReadStays
<1>8. ASSUME NEW d \in Replicas, ReplicaAbort(d) \/ ReplicaAnswer(d)
      PROVE  Rest
  <2>1. PICK T \in SUBSET Live(d), D \in SUBSET Live(d) : Returns(d, T, D)
    BY <1>8, ReturnShape
  <2>2. InOnePlace' /\ Carried' = Carried \ D
    BY <1>1, <1>8, <2>1, OnePlaceReturned
  <2>3. UNCHANGED <<idOf, freeIds, streams, got, ended, adding, wait, running, at>>
    BY <1>8 DEF ReplicaAbort, ReplicaAnswer, client, hand, route, told
  <2>4. IdsInv'
    BY <1>1, <1>3, <2>1, <2>2, <2>3, IdsReturned
  <2>5. TablesAgree'
    BY <2>2, <2>3, TablesStay
  <2> QED BY <1>1, <1>3, <2>1, <2>2, <2>3, <2>4, <2>5, TokensReturned
<1>9. Rest
  BY <1>4, <1>5, <1>6, <1>7, <1>8 DEF FNext, Schedule
<1> QED BY <1>1, <1>2, <1>9 DEF IdsInv

\* FrontInv holds of every step, for any requests, ids, replicas and order of packages.
THEOREM FrontendInvariance == FSpec => []FrontInv
BY FrontendInit, FrontendStep, PTL DEF FSpec

\* Every id has one holder at most, and every client reads its own tokens, all and in order.
THEOREM ClientsAreKeptApart == FSpec => []ClientsKeptApart
<1>1. FrontInv => ClientsKeptApart
  <2> SUFFICES ASSUME FrontInv
               PROVE  ClientsKeptApart
    OBVIOUS
  <2>1. StreamsOwn
    BY DEF FrontInv, ReadInOrder, StreamsOwn
  <2> QED BY <2>1 DEF FrontInv, ClientsKeptApart, IdsExact
<1> QED BY <1>1, FrontendInvariance, PTL

\* A replica aborts a request only under an id that a client hung up under.
THEOREM AbortsHaveACause == FSpec => []AbortsFollowAHangUp
<1>1. FrontInv => AbortsFollowAHangUp
  BY DEF FrontInv, AbortsOK
<1> QED BY <1>1, FrontendInvariance, PTL
=============================================================================
