----------------------------- MODULE GbShimProofs -----------------------------
(***************************************************************************)
(* What is proved about the allocation tables of the shim, for any number   *)
(* of threads, slots, locks and pages and any hash function.  First the     *)
(* free lists: what joining, cutting off and giving back do to the pages    *)
(* that are free.  Then who has each page of the pool, as sets of pages per *)
(* entry and per call, and what each action does to them.  Then, as long as *)
(* nothing was evicted, where each pointer is, who uses it, and that the    *)
(* probe chains have no holes.                                              *)
(***************************************************************************)
EXTENDS GbShim, FiniteSetTheorems, TLAPS

-----------------------------------------------------------------------------
(* The free lists of the pool. *)

Segs == [off : Nat, sz : Nat \ {0}]

Apart(s, r) == s.off + s.sz <= r.off \/ r.off + r.sz <= s.off

Inside(s) == s.off + s.sz <= PoolUnits

\* One list: segments of the pool that do not overlap.
ListOK(L) ==
  /\ L \in SUBSET Segs
  /\ \A s \in L : Inside(s)
  /\ \A s, r \in L : s = r \/ Apart(s, r)

\* All lists, which do not overlap one another either.
ListsOK(f) ==
  /\ DOMAIN f = Classes
  /\ f = [c \in Classes |-> f[c]]
  /\ \A c \in Classes : ListOK(f[c])
  /\ \A c, d \in Classes : c # d => \A s \in f[c], r \in f[d] : Apart(s, r)

\* The pages of a segment.
LEMMA UnitsOf ==
  ASSUME NEW s \in Segs
  PROVE  \A u : u \in Units(s) <=> u \in Nat /\ s.off <= u /\ u < s.off + s.sz
BY DEF Segs, Units

LEMMA ClassType == ASSUME NEW n \in Nat PROVE Class(n) \in Classes
BY DEF Class, Classes

LEMMA SegmentType ==
  ASSUME NEW off \in Nat, NEW sz \in Nat \ {0}
  PROVE  Segment(off, sz) \in Segs /\ Segment(off, sz).off = off /\ Segment(off, sz).sz = sz
BY DEF Segment, Segs

\* Segments that do not overlap have no page in common.
LEMMA ApartUnits ==
  ASSUME NEW s \in Segs, NEW r \in Segs
  PROVE  Apart(s, r) <=> Units(s) \cap Units(r) = {}
<1>1. ASSUME Apart(s, r) PROVE Units(s) \cap Units(r) = {}
  BY <1>1 DEF Apart, Units, Segs
<1>2. ASSUME ~Apart(s, r) PROVE Units(s) \cap Units(r) # {}
  <2> DEFINE u == IF s.off <= r.off THEN r.off ELSE s.off
  <2>1. u \in Units(s) /\ u \in Units(r)
    BY <1>2 DEF Apart, Units, Segs
  <2> QED BY <2>1
<1> QED BY <1>1, <1>2

\* A segment that goes into a list takes the place of those it is joined with.
LEMMA JoinedOK ==
  ASSUME NEW L, ListOK(L), NEW s \in Segs, Inside(s), \A r \in L : Apart(s, r)
  PROVE  LET j == Joined(L, s)
         IN  /\ j \in Segs /\ Inside(j)
             /\ \A u \in Nat : u \in Units(j) <=>
                  u \in Units(s) \/ \E r \in Left(L, s) \cup Right(L, s) : u \in Units(r)
             /\ \A r \in L \ (Left(L, s) \cup Right(L, s)) : Apart(j, r)
             /\ \A x \in Segs : Apart(s, x) /\ (\A r \in L : Apart(r, x)) => Apart(j, x)
<1> DEFINE l == CHOOSE u \in Left(L, s) : TRUE
           r == CHOOSE u \in Right(L, s) : TRUE
           start == IF Left(L, s) = {} THEN s.off ELSE l.off
           end == IF Right(L, s) = {} THEN s.off + s.sz ELSE r.off + r.sz
           j == Joined(L, s)
<1>1. j = [off |-> start, sz |-> end - start]
  BY DEF Joined, Segment
<1>2. s.off \in Nat /\ s.sz \in Nat \ {0} /\ PoolUnits \in Nat
  BY ShimAssumption DEF Segs
<1>3. ASSUME Left(L, s) # {}
      PROVE  l \in L /\ Left(L, s) = {l} /\ l.off \in Nat /\ l.sz \in Nat \ {0} /\ l.off + l.sz = s.off
  <2>1. l \in Left(L, s)
    BY <1>3
  <2>2. \A x \in Left(L, s) : x \in L /\ x.off \in Nat /\ x.sz \in Nat \ {0} /\ x.off + x.sz = s.off
    BY DEF Left, ListOK, Segs
  <2>3. \A x \in Left(L, s) : x = l
    BY <2>1, <2>2, <1>2 DEF ListOK, Apart
  <2> QED BY <2>1, <2>2, <2>3
<1>4. ASSUME Right(L, s) # {}
      PROVE  /\ r \in L /\ Right(L, s) = {r} /\ r.off \in Nat /\ r.sz \in Nat \ {0}
             /\ r.off = s.off + s.sz /\ r.off + r.sz <= PoolUnits
  <2>1. r \in Right(L, s)
    BY <1>4
  <2>2. \A x \in Right(L, s) : /\ x \in L /\ x.off \in Nat /\ x.sz \in Nat \ {0}
                               /\ s.off + s.sz = x.off /\ x.off + x.sz <= PoolUnits
    BY DEF Right, ListOK, Segs, Inside
  <2>3. \A x \in Right(L, s) : x = r
    BY <2>1, <2>2, <1>2 DEF ListOK, Apart
  <2> QED BY <2>1, <2>2, <2>3
<1> HIDE DEF l, r, j
<1>5. start \in Nat /\ end \in Nat /\ start <= s.off /\ s.off + s.sz <= end /\ end <= PoolUnits
  BY <1>2, <1>3, <1>4 DEF Inside
<1>6. j \in Segs /\ Inside(j) /\ j.off = start /\ j.off + j.sz = end
  BY <1>1, <1>2, <1>5 DEF Segs, Inside
<1>7. \A u \in Nat : u \in Units(j) <=>
        u \in Units(s) \/ \E x \in Left(L, s) \cup Right(L, s) : u \in Units(x)
  <2> SUFFICES ASSUME NEW u \in Nat
               PROVE  u \in Units(j) <=>
                 u \in Units(s) \/ \E x \in Left(L, s) \cup Right(L, s) : u \in Units(x)
    OBVIOUS
  <2>1. u \in Units(j) <=> start <= u /\ u < end
    BY <1>6, UnitsOf
  <2>2. u \in Units(s) <=> s.off <= u /\ u < s.off + s.sz
    BY UnitsOf
  <2>3. (\E x \in Left(L, s) : u \in Units(x)) <=> start <= u /\ u < s.off
    <3>1. CASE Left(L, s) = {}
      BY <3>1, <1>2, <1>5
    <3>2. CASE Left(L, s) # {}
      <4>1. l \in Segs
        BY <3>2, <1>3 DEF ListOK
      <4>2. u \in Units(l) <=> l.off <= u /\ u < l.off + l.sz
        BY <4>1, UnitsOf
      <4> QED BY <3>2, <1>3, <4>2
    <3> QED BY <3>1, <3>2
  <2>4. (\E x \in Right(L, s) : u \in Units(x)) <=> s.off + s.sz <= u /\ u < end
    <3>1. CASE Right(L, s) = {}
      BY <3>1, <1>2, <1>5
    <3>2. CASE Right(L, s) # {}
      <4>1. r \in Segs
        BY <3>2, <1>4 DEF ListOK
      <4>2. u \in Units(r) <=> r.off <= u /\ u < r.off + r.sz
        BY <4>1, UnitsOf
      <4> QED BY <3>2, <1>4, <4>2
    <3> QED BY <3>1, <3>2
  <2> HIDE DEF start, end
  <2> QED BY <2>1, <2>2, <2>3, <2>4, <1>2, <1>5
<1>8. \A x \in Segs : /\ Apart(s, x)
                      /\ Left(L, s) # {} => Apart(l, x)
                      /\ Right(L, s) # {} => Apart(r, x)
                      => Apart(j, x)
  BY <1>2, <1>3, <1>4, <1>5, <1>6 DEF Apart, Segs
<1>9. \A x \in L \ (Left(L, s) \cup Right(L, s)) : Apart(j, x)
  <2> SUFFICES ASSUME NEW x \in L, x \notin Left(L, s), x \notin Right(L, s) PROVE Apart(j, x)
    OBVIOUS
  <2>1. x \in Segs
    BY DEF ListOK
  <2>2. Left(L, s) # {} => Apart(l, x)
    BY <1>3 DEF ListOK
  <2>3. Right(L, s) # {} => Apart(r, x)
    BY <1>4 DEF ListOK
  <2> QED BY <1>8, <2>1, <2>2, <2>3
<1>10. \A x \in Segs : Apart(s, x) /\ (\A y \in L : Apart(y, x)) => Apart(j, x)
  BY <1>3, <1>4, <1>8
<1> QED BY <1>6, <1>7, <1>9, <1>10 DEF j

\* The list is a list again, with the pages of both.
LEMMA CoalescedOK ==
  ASSUME NEW L, ListOK(L), NEW s \in Segs, Inside(s), \A r \in L : Apart(s, r)
  PROVE  /\ ListOK(Coalesced(L, s))
         /\ \A u \in Nat : (\E r \in Coalesced(L, s) : u \in Units(r)) <=>
              u \in Units(s) \/ \E r \in L : u \in Units(r)
         /\ \A x \in Segs : Apart(s, x) /\ (\A r \in L : Apart(r, x))
              => \A r \in Coalesced(L, s) : Apart(r, x)
<1> DEFINE j == Joined(L, s)
           rest == L \ (Left(L, s) \cup Right(L, s))
<1>1. /\ j \in Segs /\ Inside(j)
      /\ \A u \in Nat : u \in Units(j) <=>
           u \in Units(s) \/ \E r \in Left(L, s) \cup Right(L, s) : u \in Units(r)
      /\ \A r \in rest : Apart(j, r)
      /\ \A x \in Segs : Apart(s, x) /\ (\A r \in L : Apart(r, x)) => Apart(j, x)
  BY JoinedOK
<1>2. Coalesced(L, s) = rest \cup {j}
  BY DEF Coalesced
<1>3. Left(L, s) \subseteq L /\ Right(L, s) \subseteq L
  BY DEF Left, Right
<1> HIDE DEF j
<1>4. ListOK(rest \cup {j})
  <2>1. \A r \in rest : Apart(r, j)
    BY <1>1 DEF Apart
  <2> QED BY <1>1, <2>1 DEF ListOK
<1>5. \A u \in Nat : (\E r \in rest \cup {j} : u \in Units(r)) <=>
        u \in Units(s) \/ \E r \in L : u \in Units(r)
  BY <1>1, <1>3
<1>6. \A x \in Segs : Apart(s, x) /\ (\A r \in L : Apart(r, x))
        => \A r \in rest \cup {j} : Apart(r, x)
  BY <1>1
<1> QED BY <1>2, <1>4, <1>5, <1>6

-----------------------------------------------------------------------------
(* The operations of the pool. *)

LEMMA FreeUnitsOf ==
  ASSUME NEW f
  PROVE  \A u : u \in FreeUnits(f) <=> \E c \in Classes : \E s \in f[c] : u \in Units(s)
BY DEF FreeUnits

LEMMA FreeInPool ==
  ASSUME NEW f, ListsOK(f)
  PROVE  FreeUnits(f) \subseteq Pool
<1> SUFFICES ASSUME NEW c \in Classes, NEW s \in f[c], NEW u \in Units(s) PROVE u \in Pool
  BY FreeUnitsOf
<1>1. s \in Segs /\ Inside(s)
  BY DEF ListsOK, ListOK
<1> QED BY <1>1, UnitsOf, ShimAssumption DEF Inside, Pool, Segs

\* A page that is free is in one segment.
LEMMA OneSegment ==
  ASSUME NEW f, ListsOK(f),
         NEW c \in Classes, NEW s \in f[c], NEW d \in Classes, NEW r \in f[d],
         NEW u, u \in Units(s), u \in Units(r)
  PROVE  c = d /\ s = r
<1>1. s \in Segs /\ r \in Segs
  BY DEF ListsOK, ListOK
<1>2. ~Apart(s, r)
  BY <1>1, ApartUnits
<1> QED BY <1>2 DEF ListsOK, ListOK

LEMMA LeastClass ==
  ASSUME NEW S \in SUBSET Classes, S # {}
  PROVE  \E x \in S : \A y \in S : x <= y
<1>1. CASE 0 \in S
  BY <1>1 DEF Classes
<1>2. CASE 0 \notin S /\ 1 \in S
  BY <1>2 DEF Classes
<1>3. CASE 0 \notin S /\ 1 \notin S /\ 2 \in S
  BY <1>3 DEF Classes
<1>4. CASE 0 \notin S /\ 1 \notin S /\ 2 \notin S
  <2>1. \A y \in S : y = 3
    BY <1>4 DEF Classes
  <2>2. 3 \in S
    BY <2>1
  <2> QED BY <2>1, <2>2
<1> QED BY <1>1, <1>2, <1>3, <1>4

\* A list of the pool's segments has fewer of them than the pool has pages, if a page is
\* not free; so the last list has room for the segment of that page.
LEMMA RoomForAll ==
  ASSUME NEW f, ListsOK(f), NEW c \in Classes, NEW s \in Segs, Inside(s),
         \A d \in Classes : \A r \in f[d] : Apart(s, r),
         PoolUnits <= ClassMax[3]
  PROVE  Room(f, c) # {}
<1> DEFINE L == f[3]
           T == Pool \ {s.off}
           start == [r \in L |-> r.off]
<1>1. PoolUnits \in Nat /\ ClassMax[3] \in Nat /\ 3 \in Classes
  BY ShimAssumption, PoolAssumption DEF Classes
<1>2. ListOK(L) /\ \A r \in L : Apart(s, r)
  BY <1>1 DEF ListsOK
<1>3. s.off \in Pool /\ s.off \in Nat
  BY <1>1 DEF Segs, Inside, Pool
<1>4. start \in Injection(L, T)
  <2>1. \A r \in L : /\ r.off \in Nat /\ r.sz \in Nat \ {0} /\ r.off + r.sz <= PoolUnits
                     /\ r.off # s.off
    BY <1>1, <1>2 DEF ListOK, Segs, Inside, Apart
  <2>2. start \in [L -> T]
    BY <2>1, <1>1 DEF Pool
  <2>3. \A a, b \in L : start[a] = start[b] => a = b
    BY <2>1, <1>2 DEF ListOK, Apart
  <2> QED BY <2>2, <2>3 DEF Injection, IsInjective
<1>5. IsFiniteSet(Pool) /\ Cardinality(Pool) = PoolUnits
  <2>1. 0 \in Int /\ PoolUnits - 1 \in Int
    BY <1>1
  <2>2. IsFiniteSet(Pool) /\ Cardinality(Pool) = IF 0 > PoolUnits - 1 THEN 0 ELSE PoolUnits - 1 - 0 + 1
    BY <2>1, FS_Interval, Zenon DEF Pool
  <2> QED BY <2>2, <1>1
<1>6. IsFiniteSet(T) /\ Cardinality(T) = PoolUnits - 1
  BY <1>3, <1>5, FS_RemoveElement
<1> HIDE DEF L, T, start
<1>7. IsFiniteSet(L) /\ Cardinality(L) <= Cardinality(T)
  BY <1>4, <1>6, FS_Injection
<1>8. Cardinality(L) \in Nat
  BY <1>7, FS_CardinalityType
<1>9. Cardinality(L) < ClassMax[3]
  BY <1>1, <1>6, <1>7, <1>8
<1>10. 3 \in c .. 3
  BY DEF Classes
<1> QED BY <1>9, <1>10 DEF Room, L

LEMMA ScInsertOK ==
  ASSUME NEW f, ListsOK(f), NEW c \in Classes, NEW s \in Segs, Inside(s),
         \A d \in Classes : \A r \in f[d] : Apart(s, r)
  PROVE  LET g == ScInsert(f, c, s)
         IN  /\ ListsOK(g)
             /\ Room(f, c) = {} => g = f
             /\ Room(f, c) # {} => FreeUnits(g) = FreeUnits(f) \cup Units(s)
<1>1. CASE Room(f, c) = {}
  BY <1>1 DEF ScInsert
<1>2. CASE Room(f, c) # {}
  <2> DEFINE d == CHOOSE x \in Room(f, c) : \A y \in Room(f, c) : x <= y
             g == [f EXCEPT ![d] = Coalesced(f[d], s)]
  <2>1. Room(f, c) \subseteq Classes
    BY DEF Room, Classes
  <2>2. d \in Classes
    BY <1>2, <2>1, LeastClass
  <2>3. ScInsert(f, c, s) = g
    BY <1>2 DEF ScInsert
  <2> HIDE DEF d
  <2>4. ListOK(f[d]) /\ \A r \in f[d] : Apart(s, r)
    BY <2>2 DEF ListsOK
  <2>5. /\ ListOK(Coalesced(f[d], s))
        /\ \A u \in Nat : (\E r \in Coalesced(f[d], s) : u \in Units(r)) <=>
             u \in Units(s) \/ \E r \in f[d] : u \in Units(r)
        /\ \A x \in Segs : Apart(s, x) /\ (\A r \in f[d] : Apart(r, x))
             => \A r \in Coalesced(f[d], s) : Apart(r, x)
    BY <2>4, CoalescedOK
  <2>6. /\ g[d] = Coalesced(f[d], s)
        /\ \A e \in Classes : e # d => g[e] = f[e]
        /\ DOMAIN g = Classes /\ g = [e \in Classes |-> g[e]]
    BY <2>2 DEF ListsOK
  <2> HIDE DEF g
  <2>7. ASSUME NEW e \in Classes, e # d, NEW x \in g[e], NEW y \in g[d]
        PROVE  Apart(x, y) /\ Apart(y, x)
    <3>1. x \in f[e] /\ x \in Segs
      BY <2>6, <2>7 DEF ListsOK, ListOK
    <3>2. Apart(s, x) /\ \A r \in f[d] : Apart(r, x)
      BY <2>2, <2>7, <3>1 DEF ListsOK
    <3>3. Apart(y, x)
      BY <2>5, <2>6, <3>1, <3>2
    <3> QED BY <3>3 DEF Apart
  <2>8. ListsOK(g)
    BY <2>2, <2>5, <2>6, <2>7 DEF ListsOK
  <2>9. FreeUnits(g) = FreeUnits(f) \cup Units(s)
    <3>1. Units(s) \subseteq Nat
      BY UnitsOf
    <3>2. FreeUnits(f) \subseteq Nat /\ FreeUnits(g) \subseteq Nat
      BY <2>8, FreeInPool DEF Pool
    <3>3. ASSUME NEW u \in Nat PROVE u \in FreeUnits(g) <=> u \in FreeUnits(f) \cup Units(s)
      BY <2>2, <2>5, <2>6, FreeUnitsOf
    <3> QED BY <3>1, <3>2, <3>3
  <2> QED BY <1>2, <2>3, <2>8, <2>9
<1> QED BY <1>1, <1>2

LEMMA LeastNat ==
  ASSUME NEW S \in SUBSET Nat, S # {}
  PROVE  \E x \in S : \A y \in S : x <= y
<1>1. PICK x \in S : \A y \in S : <<y, x>> \notin OpToRel(<, Nat)
  BY NatLessThanWellFounded, WFMin
<1>2. \A y \in S : ~(y < x)
  BY <1>1 DEF OpToRel
<1> QED BY <1>2

\* The best fit exists, in the class that was found to serve the request.
LEMMA ChosenOK ==
  ASSUME NEW f, ListsOK(f), NEW sz \in Nat \ {0}, Serving(f, sz) # {}
  PROVE  LET k == Chosen(f, sz)
         IN  k.class \in Classes /\ k.seg \in f[k.class] /\ k.seg.sz >= sz
<1> DEFINE c == CHOOSE x \in Serving(f, sz) : \A y \in Serving(f, sz) : x <= y
           fit == {s \in f[c] : s.sz >= sz}
           Best(s) == \A u \in fit : s.sz < u.sz \/ (s.sz = u.sz /\ s.off <= u.off)
           best == CHOOSE s \in fit : Best(s)
<1>1. Serving(f, sz) \subseteq Classes
  BY ClassType DEF Serving, Classes
<1>2. c \in Serving(f, sz)
  BY <1>1, LeastClass
<1>3. Chosen(f, sz) = [class |-> c, seg |-> best]
  BY DEF Chosen
<1> HIDE DEF c
<1>4. c \in Classes /\ fit # {} /\ fit \subseteq Segs
  BY <1>1, <1>2 DEF Serving, ListsOK, ListOK
<1> HIDE DEF fit
<1>5. PICK z \in {s.sz : s \in fit} : \A y \in {s.sz : s \in fit} : z <= y
  <2>1. {s.sz : s \in fit} \in SUBSET Nat /\ {s.sz : s \in fit} # {}
    BY <1>4 DEF Segs
  <2> QED BY <2>1, LeastNat
<1> DEFINE small == {s \in fit : s.sz = z}
<1>6. small # {} /\ small \subseteq Segs
  BY <1>4, <1>5
<1>7. PICK o \in {s.off : s \in small} : \A y \in {s.off : s \in small} : o <= y
  <2>1. {s.off : s \in small} \in SUBSET Nat /\ {s.off : s \in small} # {}
    BY <1>6 DEF Segs
  <2> HIDE DEF small
  <2> QED BY <2>1, LeastNat
<1>8. PICK s \in small : s.off = o
  BY <1>7
<1>9. s \in fit /\ Best(s)
  <2>1. ASSUME NEW u \in fit PROVE s.sz < u.sz \/ (s.sz = u.sz /\ s.off <= u.off)
    <3>1. s.sz = z /\ z \in Nat /\ u.sz \in Nat /\ z <= u.sz
      BY <1>4, <1>5, <1>8 DEF Segs
    <3>2. u.sz = z => s.off <= u.off
      BY <1>7, <1>8
    <3> QED BY <3>1, <3>2
  <2> QED BY <1>8, <2>1
<1> HIDE DEF Best
<1>10. best \in fit
  BY <1>9
<1> QED BY <1>3, <1>4, <1>10 DEF fit

\* What is allocated was free, and is not any more.
LEMMA PoolAllocOK ==
  ASSUME NEW f, ListsOK(f), NEW sz \in Nat \ {0}, Serving(f, sz) # {}
  PROVE  LET off == Chosen(f, sz).seg.off
             g == PoolAlloc(f, sz)
             given == Units(Segment(off, sz))
         IN  /\ off \in Pool
             /\ given \subseteq FreeUnits(f)
             /\ ListsOK(g)
             /\ FreeUnits(g) \subseteq FreeUnits(f) \ given
             /\ PoolUnits <= ClassMax[3] => FreeUnits(g) = FreeUnits(f) \ given
<1> DEFINE c == Chosen(f, sz).class
           s == Chosen(f, sz).seg
           given == Segment(s.off, sz)
           rest == Segment(s.off + sz, s.sz - sz)
           cut == [f EXCEPT ![c] = f[c] \ {s}]
           g == PoolAlloc(f, sz)
<1>1. c \in Classes /\ s \in f[c] /\ s.sz >= sz
  BY ChosenOK
<1>2. /\ g = IF rest.sz = 0 THEN cut
             ELSE IF Class(rest.sz) < c THEN ScInsert(cut, Class(rest.sz), rest)
             ELSE [cut EXCEPT ![c] = cut[c] \cup {rest}]
  BY DEF PoolAlloc
<1> HIDE DEF c, s, g
<1>3. s \in Segs /\ Inside(s) /\ s.off \in Nat /\ s.sz \in Nat \ {0} /\ s.off + s.sz <= PoolUnits
  BY <1>1 DEF ListsOK, ListOK, Segs, Inside
<1>4. s.off \in Pool /\ given \in Segs /\ given.off = s.off /\ given.sz = sz /\ Inside(given)
  BY <1>1, <1>3, SegmentType, ShimAssumption DEF Pool, Inside
<1>5. /\ rest.off = s.off + sz /\ rest.sz = s.sz - sz /\ rest.sz \in Nat
      /\ rest.sz # 0 => rest \in Segs /\ Inside(rest)
  BY <1>1, <1>3 DEF Segment, Segs, Inside
<1>6. \A u : u \in Units(s) <=> u \in Units(given) \/ (rest.sz # 0 /\ u \in Units(rest))
  <2> SUFFICES ASSUME NEW u
               PROVE u \in Units(s) <=> u \in Units(given) \/ (rest.sz # 0 /\ u \in Units(rest))
    OBVIOUS
  <2>1. u \in Units(s) <=> u \in Nat /\ s.off <= u /\ u < s.off + s.sz
    BY <1>3, UnitsOf
  <2>2. u \in Units(given) <=> u \in Nat /\ s.off <= u /\ u < s.off + sz
    BY <1>4, UnitsOf
  <2>3. rest.sz # 0 => (u \in Units(rest) <=> u \in Nat /\ s.off + sz <= u /\ u < s.off + s.sz)
    BY <1>1, <1>3, <1>5, UnitsOf
  <2> HIDE DEF given, rest
  <2> QED BY <1>1, <1>3, <1>5, <2>1, <2>2, <2>3
<1>7. rest.sz # 0 => Units(given) \cap Units(rest) = {}
  <2>1. Apart(given, rest)
    BY <1>1, <1>3, <1>4, <1>5 DEF Apart
  <2> HIDE DEF given, rest
  <2> QED BY <2>1, <1>4, <1>5, ApartUnits
<1>8. \A x \in Segs : Apart(s, x) => (rest.sz # 0 => Apart(rest, x))
  BY <1>1, <1>3, <1>5 DEF Apart, Segs
<1>9. /\ cut[c] = f[c] \ {s}
      /\ \A d \in Classes : d # c => cut[d] = f[d]
      /\ DOMAIN cut = Classes /\ cut = [d \in Classes |-> cut[d]]
  BY <1>1 DEF ListsOK
<1> HIDE DEF given, rest, cut
<1>10. ListsOK(cut)
  <2>1. \A d \in Classes : cut[d] \subseteq f[d]
    BY <1>9
  <2> QED BY <1>9, <2>1 DEF ListsOK, ListOK
<1>11. \A d \in Classes : \A x \in cut[d] : Apart(s, x) /\ x \in Segs
  BY <1>1, <1>9 DEF ListsOK, ListOK
<1>12. FreeUnits(cut) = FreeUnits(f) \ Units(s) /\ Units(s) \subseteq FreeUnits(f)
  <2>1. \A u : u \in FreeUnits(cut) => u \in FreeUnits(f)
    BY <1>1, <1>9, FreeUnitsOf
  <2>2. \A u : u \in FreeUnits(cut) => u \notin Units(s)
    <3>1. ASSUME NEW d \in Classes, NEW x \in cut[d] PROVE Units(s) \cap Units(x) = {}
      BY <1>3, <1>11, ApartUnits
    <3> QED BY <3>1, FreeUnitsOf
  <2>3. \A u : u \in FreeUnits(f) => u \in FreeUnits(cut) \/ u \in Units(s)
    BY <1>1, <1>9, FreeUnitsOf
  <2>4. Units(s) \subseteq FreeUnits(f)
    BY <1>1, FreeUnitsOf
  <2> QED BY <2>1, <2>2, <2>3, <2>4
<1>13. Units(given) \subseteq FreeUnits(f)
  BY <1>6, <1>12
<1>14. CASE rest.sz = 0
  BY <1>2, <1>4, <1>6, <1>10, <1>12, <1>13, <1>14 DEF g, given, s
<1>15. CASE rest.sz # 0
  <2>1. rest \in Segs /\ Inside(rest) /\ Class(rest.sz) \in Classes
    BY <1>5, <1>15, ClassType
  <2>2. \A d \in Classes : \A x \in cut[d] : Apart(rest, x)
    BY <1>8, <1>11, <1>15
  <2>3. FreeUnits(cut) \cup Units(rest) = FreeUnits(f) \ Units(given)
    BY <1>6, <1>7, <1>12, <1>15
  <2>4. FreeUnits(cut) \subseteq FreeUnits(f) \ Units(given)
    BY <1>6, <1>12
  <2>5. CASE Class(rest.sz) < c
    <3>1. g = ScInsert(cut, Class(rest.sz), rest)
      BY <1>2, <1>15, <2>5
    <3>2. /\ ListsOK(g)
          /\ Room(cut, Class(rest.sz)) = {} => g = cut
          /\ Room(cut, Class(rest.sz)) # {} => FreeUnits(g) = FreeUnits(cut) \cup Units(rest)
      BY <1>10, <2>1, <2>2, <3>1, ScInsertOK
    <3>3. PoolUnits <= ClassMax[3] => Room(cut, Class(rest.sz)) # {}
      BY <1>10, <2>1, <2>2, RoomForAll
    <3> QED BY <1>4, <1>13, <2>3, <2>4, <3>2, <3>3 DEF g, given, s
  <2>6. CASE ~(Class(rest.sz) < c)
    <3>1. g = [cut EXCEPT ![c] = cut[c] \cup {rest}]
      BY <1>2, <1>15, <2>6
    <3>2. /\ g[c] = cut[c] \cup {rest}
          /\ \A d \in Classes : d # c => g[d] = cut[d]
          /\ DOMAIN g = Classes /\ g = [d \in Classes |-> g[d]]
      BY <1>1, <1>9, <3>1
    <3>3. \A d \in Classes : \A x \in cut[d] : Apart(x, rest)
      BY <2>2 DEF Apart
    <3>4. ListOK(g[c])
      BY <1>1, <1>10, <2>1, <2>2, <3>2, <3>3 DEF ListsOK, ListOK
    <3>5. ListsOK(g)
      <4>1. ASSUME NEW d \in Classes, d # c, NEW x \in g[d], NEW y \in g[c]
            PROVE  Apart(x, y) /\ Apart(y, x)
        <5>1. x \in cut[d] /\ (y \in cut[c] \/ y = rest)
          BY <3>2, <4>1
        <5>2. CASE y = rest
          BY <2>2, <3>3, <5>1, <5>2
        <5>3. CASE y \in cut[c]
          BY <1>1, <1>10, <4>1, <5>1, <5>3 DEF ListsOK
        <5> QED BY <5>1, <5>2, <5>3
      <4>2. ASSUME NEW d \in Classes, NEW e \in Classes, d # e, NEW x \in g[d], NEW y \in g[e]
            PROVE  Apart(x, y)
        <5>1. CASE d = c
          BY <4>1, <4>2, <5>1
        <5>2. CASE e = c
          BY <4>1, <4>2, <5>2
        <5>3. CASE d # c /\ e # c
          <6>1. x \in cut[d] /\ y \in cut[e]
            BY <3>2, <4>2, <5>3
          <6> QED BY <1>10, <4>2, <6>1 DEF ListsOK
        <5> QED BY <5>1, <5>2, <5>3
      <4>3. ASSUME NEW d \in Classes PROVE ListOK(g[d])
        BY <1>10, <3>2, <3>4 DEF ListsOK
      <4> QED BY <3>2, <4>2, <4>3 DEF ListsOK
    <3>6. FreeUnits(g) = FreeUnits(cut) \cup Units(rest)
      <4>1. \A u : u \in FreeUnits(g) <=> u \in FreeUnits(cut) \/ u \in Units(rest)
        BY <1>1, <3>2, FreeUnitsOf
      <4> QED BY <4>1
    <3> QED BY <1>4, <1>13, <2>3, <3>5, <3>6 DEF g, given, s
  <2> QED BY <2>5, <2>6
<1> QED BY <1>14, <1>15

\* What is given back is free again, unless the lists have no room for it.
LEMMA PoolFreeOK ==
  ASSUME NEW f, ListsOK(f), NEW off \in Nat, NEW sz \in Nat \ {0},
         Units(Segment(off, sz)) \subseteq Pool,
         Units(Segment(off, sz)) \cap FreeUnits(f) = {}
  PROVE  LET g == PoolFree(f, off, sz)
             back == Units(Segment(off, sz))
         IN  /\ ListsOK(g)
             /\ FreeUnits(g) \subseteq FreeUnits(f) \cup back
             /\ PoolUnits <= ClassMax[3] => FreeUnits(g) = FreeUnits(f) \cup back
<1> DEFINE s == Segment(off, sz)
           g == PoolFree(f, off, sz)
<1>1. s \in Segs /\ s.off = off /\ s.sz = sz /\ Class(sz) \in Classes
  BY SegmentType, ClassType
<1>2. g = ScInsert(f, Class(sz), s)
  BY DEF PoolFree
<1> HIDE DEF s, g
<1>3. Inside(s)
  <2>1. off + sz - 1 \in Units(s)
    BY <1>1, UnitsOf
  <2> QED BY <1>1, <2>1, ShimAssumption DEF s, Pool, Inside
<1>4. \A d \in Classes : \A r \in f[d] : Apart(s, r)
  <2> SUFFICES ASSUME NEW d \in Classes, NEW r \in f[d] PROVE Apart(s, r)
    OBVIOUS
  <2>1. r \in Segs /\ Units(r) \subseteq FreeUnits(f)
    BY FreeUnitsOf DEF ListsOK, ListOK
  <2>2. Units(s) \cap Units(r) = {}
    BY <2>1 DEF s
  <2> QED BY <1>1, <2>1, <2>2, ApartUnits
<1>5. /\ ListsOK(g)
      /\ Room(f, Class(sz)) = {} => g = f
      /\ Room(f, Class(sz)) # {} => FreeUnits(g) = FreeUnits(f) \cup Units(s)
  BY <1>1, <1>2, <1>3, <1>4, ScInsertOK
<1>6. PoolUnits <= ClassMax[3] => Room(f, Class(sz)) # {}
  BY <1>1, <1>3, <1>4, RoomForAll
<1> QED BY <1>5, <1>6 DEF g, s

\* A new pool is one free segment.
LEMMA PoolInitOK ==
  ListsOK(PoolInit(PoolUnits)) /\ FreeUnits(PoolInit(PoolUnits)) = Pool
<1> DEFINE f == PoolInit(PoolUnits)
           s == Segment(0, PoolUnits)
<1>1. PoolUnits \in Nat /\ 3 \in Classes
  BY ShimAssumption DEF Classes
<1>2. f = [c \in Classes |-> IF c = 3 /\ PoolUnits > 0 THEN {s} ELSE {}]
  BY DEF PoolInit
<1> HIDE DEF f
<1>3. CASE PoolUnits = 0
  <2>1. f = [c \in Classes |-> {}]
    BY <1>2, <1>3
  <2>2. ListsOK(f)
    BY <2>1 DEF ListsOK, ListOK
  <2>3. \A u : u \notin FreeUnits(f)
    BY <2>1, FreeUnitsOf
  <2>4. \A u : u \notin Pool
    BY <1>3 DEF Pool
  <2> QED BY <2>2, <2>3, <2>4 DEF f
<1>4. CASE PoolUnits # 0
  <2>1. s \in Segs /\ s.off = 0 /\ s.sz = PoolUnits /\ Inside(s)
    BY <1>1, <1>4, SegmentType DEF Inside
  <2> HIDE DEF s
  <2>2. \A c \in Classes : f[c] = IF c = 3 THEN {s} ELSE {}
    BY <1>1, <1>2, <1>4
  <2>3. ListsOK(f)
    BY <1>2, <2>1, <2>2 DEF ListsOK, ListOK
  <2>4. \A u : u \in FreeUnits(f) <=> u \in Units(s)
    BY <1>1, <2>2, FreeUnitsOf
  <2>5. Units(s) = Pool
    <3>1. ASSUME NEW u PROVE u \in Units(s) <=> u \in Nat /\ 0 <= u /\ u < 0 + PoolUnits
      BY <2>1, UnitsOf
    <3>2. ASSUME NEW u PROVE u \in Pool <=> u \in Nat /\ u < PoolUnits
      BY <1>1 DEF Pool
    <3>3. ASSUME NEW u PROVE u \in Units(s) <=> u \in Pool
      BY <1>1, <3>1, <3>2
    <3> QED BY <3>3
  <2> QED BY <2>3, <2>4, <2>5 DEF f
<1> QED BY <1>3, <1>4

-----------------------------------------------------------------------------
(* Who has the pages: E gives those of each entry, C those of each call. *)

FreeOf(F, E, C) ==
  /\ E \in [Slots -> SUBSET Pool] /\ C \in [Threads -> SUBSET Pool]
  /\ \A s \in Slots : E[s] \cap FreeUnits(F) = {}
  /\ \A t \in Threads : C[t] \cap FreeUnits(F) = {}

OneOwner(E, C) ==
  /\ \A s, r \in Slots : s # r => E[s] \cap E[r] = {}
  /\ \A t, v \in Threads : t # v => C[t] \cap C[v] = {}
  /\ \A s \in Slots, t \in Threads : E[s] \cap C[t] = {}

Covered(F, E, C) ==
  PoolUnits <= ClassMax[3] =>
    \A u \in Pool : \/ u \in FreeUnits(F)
                    \/ \E s \in Slots : u \in E[s]
                    \/ \E t \in Threads : u \in C[t]

Shared(F, E, C) == ListsOK(F) /\ FreeOf(F, E, C) /\ OneOwner(E, C) /\ Covered(F, E, C)

\* A call is given pages that were free.
LEMMA Takes ==
  ASSUME NEW F, NEW E, NEW C, Shared(F, E, C), NEW t \in Threads, C[t] = {},
         NEW sz \in Nat \ {0}, Serving(F, sz) # {}
  PROVE  /\ Chosen(F, sz).seg.off \in Pool
         /\ Shared(PoolAlloc(F, sz), E,
                   [C EXCEPT ![t] = Units(Segment(Chosen(F, sz).seg.off, sz))])
<1> DEFINE off == Chosen(F, sz).seg.off
           given == Units(Segment(off, sz))
           g == PoolAlloc(F, sz)
           D == [C EXCEPT ![t] = given]
<1>1. /\ off \in Pool /\ given \subseteq FreeUnits(F) /\ ListsOK(g)
      /\ FreeUnits(g) \subseteq FreeUnits(F) \ given
      /\ PoolUnits <= ClassMax[3] => FreeUnits(g) = FreeUnits(F) \ given
  BY PoolAllocOK DEF Shared
<1> HIDE DEF off, given, g
<1>2. FreeUnits(F) \subseteq Pool
  BY FreeInPool DEF Shared
<1>3. D[t] = given /\ (\A v \in Threads : v # t => D[v] = C[v]) /\ D \in [Threads -> SUBSET Pool]
  BY <1>1, <1>2 DEF Shared, FreeOf
<1> HIDE DEF D
<1>4. FreeOf(g, E, D)
  BY <1>1, <1>3 DEF Shared, FreeOf
<1>5. OneOwner(E, D)
  BY <1>1, <1>3 DEF Shared, FreeOf, OneOwner
<1>6. Covered(g, E, D)
  BY <1>1, <1>3 DEF Shared, Covered
<1> QED BY <1>1, <1>4, <1>5, <1>6 DEF Shared, off, given, g, D

\* A call gives its pages back.
LEMMA CallGives ==
  ASSUME NEW F, NEW E, NEW C, Shared(F, E, C), NEW t \in Threads,
         NEW off \in Nat, NEW sz \in Nat \ {0}, C[t] = Units(Segment(off, sz))
  PROVE  Shared(PoolFree(F, off, sz), E, [C EXCEPT ![t] = {}])
<1> DEFINE back == Units(Segment(off, sz))
           g == PoolFree(F, off, sz)
           D == [C EXCEPT ![t] = {}]
<1>1. /\ ListsOK(g)
      /\ FreeUnits(g) \subseteq FreeUnits(F) \cup back
      /\ PoolUnits <= ClassMax[3] => FreeUnits(g) = FreeUnits(F) \cup back
  BY PoolFreeOK DEF Shared, FreeOf
<1>2. D[t] = {} /\ (\A v \in Threads : v # t => D[v] = C[v]) /\ D \in [Threads -> SUBSET Pool]
  BY DEF Shared, FreeOf
<1>3. C[t] = back
  OBVIOUS
<1> HIDE DEF back, g, D
<1>4. FreeOf(g, E, D)
  <2>1. \A s \in Slots : E[s] \cap back = {}
    BY <1>3 DEF Shared, OneOwner
  <2>2. \A v \in Threads : D[v] \cap back = {} /\ D[v] \cap FreeUnits(F) = {}
    BY <1>2, <1>3 DEF Shared, OneOwner, FreeOf
  <2> QED BY <1>1, <1>2, <2>1, <2>2 DEF Shared, FreeOf
<1>5. OneOwner(E, D)
  BY <1>2 DEF Shared, OneOwner
<1>6. Covered(g, E, D)
  BY <1>1, <1>2, <1>3 DEF Shared, Covered
<1> QED BY <1>1, <1>4, <1>5, <1>6 DEF Shared, g, D

\* The pages of an entry are given back.
LEMMA EntryGives ==
  ASSUME NEW F, NEW E, NEW C, Shared(F, E, C), NEW s \in Slots,
         NEW off \in Nat, NEW sz \in Nat \ {0}, E[s] = Units(Segment(off, sz))
  PROVE  Shared(PoolFree(F, off, sz), [E EXCEPT ![s] = {}], C)
<1> DEFINE back == Units(Segment(off, sz))
           g == PoolFree(F, off, sz)
           D == [E EXCEPT ![s] = {}]
<1>1. /\ ListsOK(g)
      /\ FreeUnits(g) \subseteq FreeUnits(F) \cup back
      /\ PoolUnits <= ClassMax[3] => FreeUnits(g) = FreeUnits(F) \cup back
  BY PoolFreeOK DEF Shared, FreeOf
<1>2. D[s] = {} /\ (\A r \in Slots : r # s => D[r] = E[r]) /\ D \in [Slots -> SUBSET Pool]
  BY DEF Shared, FreeOf
<1>3. E[s] = back
  OBVIOUS
<1> HIDE DEF back, g, D
<1>4. FreeOf(g, D, C)
  <2>1. \A t \in Threads : C[t] \cap back = {}
    BY <1>3 DEF Shared, OneOwner
  <2>2. \A r \in Slots : D[r] \cap back = {} /\ D[r] \cap FreeUnits(F) = {}
    BY <1>2, <1>3 DEF Shared, OneOwner, FreeOf
  <2> QED BY <1>1, <1>2, <2>1, <2>2 DEF Shared, FreeOf
<1>5. OneOwner(D, C)
  BY <1>2 DEF Shared, OneOwner
<1>6. Covered(g, D, C)
  BY <1>1, <1>2, <1>3 DEF Shared, Covered
<1> QED BY <1>1, <1>4, <1>5, <1>6 DEF Shared, g, D

\* A call's pages become an entry's.
LEMMA CallEnters ==
  ASSUME NEW F, NEW E, NEW C, Shared(F, E, C), NEW t \in Threads, NEW s \in Slots, E[s] = {}
  PROVE  Shared(F, [E EXCEPT ![s] = C[t]], [C EXCEPT ![t] = {}])
<1> DEFINE G == [E EXCEPT ![s] = C[t]]
           D == [C EXCEPT ![t] = {}]
<1>1. G[s] = C[t] /\ (\A r \in Slots : r # s => G[r] = E[r]) /\ G \in [Slots -> SUBSET Pool]
  BY DEF Shared, FreeOf
<1>2. D[t] = {} /\ (\A v \in Threads : v # t => D[v] = C[v]) /\ D \in [Threads -> SUBSET Pool]
  BY DEF Shared, FreeOf
<1> HIDE DEF G, D
<1>3. FreeOf(F, G, D)
  BY <1>1, <1>2 DEF Shared, FreeOf
<1>4. OneOwner(G, D)
  BY <1>1, <1>2 DEF Shared, OneOwner
<1>5. Covered(F, G, D)
  BY <1>1, <1>2 DEF Shared, Covered
<1> QED BY <1>3, <1>4, <1>5 DEF Shared, G, D

\* An entry's pages become a call's.
LEMMA EntryLeaves ==
  ASSUME NEW F, NEW E, NEW C, Shared(F, E, C), NEW t \in Threads, NEW s \in Slots, C[t] = {}
  PROVE  Shared(F, [E EXCEPT ![s] = {}], [C EXCEPT ![t] = E[s]])
<1> DEFINE G == [E EXCEPT ![s] = {}]
           D == [C EXCEPT ![t] = E[s]]
<1>1. G[s] = {} /\ (\A r \in Slots : r # s => G[r] = E[r]) /\ G \in [Slots -> SUBSET Pool]
  BY DEF Shared, FreeOf
<1>2. D[t] = E[s] /\ (\A v \in Threads : v # t => D[v] = C[v]) /\ D \in [Threads -> SUBSET Pool]
  BY DEF Shared, FreeOf
<1> HIDE DEF G, D
<1>3. FreeOf(F, G, D)
  BY <1>1, <1>2 DEF Shared, FreeOf
<1>4. OneOwner(G, D)
  BY <1>1, <1>2 DEF Shared, OneOwner
<1>5. Covered(F, G, D)
  BY <1>1, <1>2 DEF Shared, Covered
<1> QED BY <1>3, <1>4, <1>5 DEF Shared, G, D

-----------------------------------------------------------------------------
(* The types of the variables, with what a stage of a call has. *)

WithPtr == {"insert", "full", "flags", "count", "remove", "release", "unmap", "realfree"}

WithSize == Pcs \ {"idle", "remove", "realfree"}

Thread == [pc : Pcs, ptr : Ptrs \cup {Empty}, size : Sizes \cup {0}, i : Slots, try : 0 .. 3,
           todo : SUBSET Slots, freed : Nat, due : Nat, batch : SUBSET [off : Pool, sz : Sizes]]

Calls == {r \in Thread : (r.pc \in WithPtr => r.ptr \in Ptrs) /\ (r.pc \in WithSize => r.size \in Sizes)}

TypeInv ==
  /\ blackwell \in BOOLEAN /\ oom \in BOOLEAN
  /\ table \in [Slots -> Slot]
  /\ \A s \in Slots : Live(s) => table[s].size \in Sizes
  /\ lock \in [Locks -> Threads \cup {NoThread}]
  /\ bvmm \in [Host -> Sizes \cup {0}]
  /\ real \subseteq Dev \cup Host
  /\ t1 \in 0 .. Word - 1 /\ t2 \in 0 .. Word - 1
  /\ held \in [Ptrs -> Nat]
  /\ reclaims \in 0 .. MaxReclaims
  /\ th \in [Threads -> Calls]

\* The part of it that a step changes only where it says so.
LEMMA ShimConstants ==
  /\ HtSize \in Nat \ {0} /\ HtLocks \in Nat \ {0} /\ Word \in Nat \ {0} /\ PoolUnits \in Nat
  /\ Sizes \subseteq Nat \ {0} /\ Hash \in [Ptrs -> Slots] /\ 0 \in Slots
  /\ NoThread \notin Threads /\ Empty \notin Ptrs /\ Tombstone \notin Ptrs /\ Empty # Tombstone
  /\ Cap \in Nat /\ MaxReclaims \in Nat /\ Registered \subseteq Host
  /\ Pool \subseteq Ptrs /\ Dev \subseteq Ptrs /\ Host \subseteq Ptrs
  /\ Pool \cap Dev = {} /\ Pool \cap Host = {} /\ Dev \cap Host = {}
BY ShimAssumption DEF Slots, Ptrs, Pool

LEMMA HereType ==
  ASSUME TypeInv, NEW t \in Threads, th[t].ptr \in Ptrs
  PROVE  Here(t) \in Slots
<1>1. Hash[th[t].ptr] \in Slots /\ th[t].i \in Slots /\ HtSize \in Nat \ {0}
  BY ShimConstants DEF TypeInv, Calls, Thread
<1>2. Hash[th[t].ptr] + th[t].i \in Nat
  BY <1>1 DEF Slots
<1> QED BY <1>1, <1>2 DEF Here, Slots

LEMMA LockType == ASSUME NEW s \in Slots PROVE LockOf(s) \in Locks
BY ShimConstants DEF LockOf, Slots, Locks

LEMMA WordType ==
  ASSUME NEW x \in 0 .. Word - 1, NEW n \in Nat
  PROVE  Add(x, n) \in 0 .. Word - 1 /\ Sub(x, n) \in 0 .. Word - 1
<1>1. Word \in Nat \ {0} /\ n % Word \in 0 .. Word - 1
  BY ShimConstants
<1>2. x + n \in Nat /\ x + Word - (n % Word) \in Nat
  BY <1>1
<1> QED BY <1>1, <1>2 DEF Add, Sub

LEMMA IdleType == Idle \in Calls
BY ShimConstants DEF Idle, Calls, Thread, Pcs, WithPtr, WithSize

\* What a stage of a call has.
LEMMA CallType ==
  ASSUME TypeInv, NEW t \in Threads
  PROVE  /\ th[t] \in Calls /\ th[t].pc \in Pcs
         /\ th[t].ptr \in Ptrs \cup {Empty} /\ th[t].size \in Sizes \cup {0} /\ th[t].size \in Nat
         /\ th[t].i \in Slots /\ th[t].i \in Nat /\ th[t].try \in 0 .. 3
         /\ th[t].todo \subseteq Slots /\ th[t].freed \in Nat /\ th[t].due \in Nat
         /\ th[t].batch \subseteq [off : Pool, sz : Sizes]
         /\ th[t].pc \in WithPtr => th[t].ptr \in Ptrs
         /\ th[t].pc \in WithSize => th[t].size \in Sizes
<1>1. th[t] \in Calls
  BY DEF TypeInv
<1>2. th[t] \in Thread
  BY <1>1 DEF Calls
<1>3. /\ th[t].pc \in WithPtr => th[t].ptr \in Ptrs
      /\ th[t].pc \in WithSize => th[t].size \in Sizes
  BY <1>1 DEF Calls
<1>4. /\ th[t].pc \in Pcs /\ th[t].ptr \in Ptrs \cup {Empty} /\ th[t].size \in Sizes \cup {0}
      /\ th[t].i \in Slots /\ th[t].try \in 0 .. 3
      /\ th[t].todo \subseteq Slots /\ th[t].freed \in Nat /\ th[t].due \in Nat
      /\ th[t].batch \subseteq [off : Pool, sz : Sizes]
  BY <1>2 DEF Thread
<1>5. th[t].size \in Nat /\ th[t].i \in Nat
  <2>1. Sizes \cup {0} \subseteq Nat /\ Slots \subseteq Nat
    BY ShimConstants DEF Slots
  <2> QED BY <1>4, <2>1
<1> QED BY <1>1, <1>3, <1>4, <1>5

LEMMA CallsType ==
  ASSUME NEW pc \in Pcs, NEW ptr \in Ptrs \cup {Empty}, NEW size \in Sizes \cup {0}, NEW i \in Slots,
         NEW try \in 0 .. 3, NEW todo \in SUBSET Slots, NEW freed \in Nat, NEW due \in Nat,
         NEW batch \in SUBSET [off : Pool, sz : Sizes],
         pc \in WithPtr => ptr \in Ptrs, pc \in WithSize => size \in Sizes
  PROVE  [pc |-> pc, ptr |-> ptr, size |-> size, i |-> i, try |-> try, todo |-> todo,
          freed |-> freed, due |-> due, batch |-> batch] \in Calls
BY DEF Calls, Thread

\* A record of a call is its fields.
LEMMA CallFields ==
  ASSUME NEW r \in Calls
  PROVE  r = [pc |-> r.pc, ptr |-> r.ptr, size |-> r.size, i |-> r.i, try |-> r.try,
              todo |-> r.todo, freed |-> r.freed, due |-> r.due, batch |-> r.batch]
BY DEF Calls, Thread

LEMMA PcType ==
  ASSUME TypeInv, NEW t \in Threads, NEW pc \in Pcs,
         pc \in WithPtr => th[t].ptr \in Ptrs, pc \in WithSize => th[t].size \in Sizes
  PROVE  [th[t] EXCEPT !.pc = pc] \in Calls
<1>1. th[t] \in Calls
  BY CallType
<1> QED BY <1>1 DEF Calls, Thread

LEMMA IndexType ==
  ASSUME TypeInv, NEW t \in Threads, NEW i \in Slots
  PROVE  [th[t] EXCEPT !.i = i] \in Calls
<1>1. th[t] \in Calls
  BY CallType
<1> QED BY <1>1 DEF Calls, Thread

LEMMA Moves ==
  ASSUME TypeInv, NEW t \in Threads, NEW r \in Calls, th' = [th EXCEPT ![t] = r]
  PROVE  th' \in [Threads -> Calls]
BY DEF TypeInv

LEMMA ToType ==
  ASSUME TypeInv, NEW t \in Threads, NEW pc \in Pcs, To(t, pc),
         pc \in WithPtr => th[t].ptr \in Ptrs, pc \in WithSize => th[t].size \in Sizes
  PROVE  th' \in [Threads -> Calls]
<1>1. th' = [th EXCEPT ![t] = [th[t] EXCEPT !.pc = pc]]
  BY DEF To
<1> QED BY <1>1, PcType, Moves

LEMMA RestType ==
  ASSUME TypeInv, NEW t \in Threads, Rest(t)
  PROVE  th' \in [Threads -> Calls]
BY IdleType, Moves DEF Rest

LEMMA ReturnType ==
  ASSUME TypeInv, NEW t \in Threads, NEW p \in Ptrs, Return(t, p)
  PROVE  held' \in [Ptrs -> Nat] /\ oom' \in BOOLEAN /\ th' \in [Threads -> Calls]
<1>1. held' \in [Ptrs -> Nat]
  BY DEF TypeInv, Return
<1>2. oom' \in BOOLEAN
  BY DEF TypeInv, Return
<1>3. th' \in [Threads -> Calls]
  BY RestType DEF Return
<1> QED BY <1>1, <1>2, <1>3

LEMMA OnOrType ==
  ASSUME TypeInv, NEW t \in Threads, NEW pc \in Pcs, OnOr(t, pc),
         pc \in WithPtr => th[t].ptr \in Ptrs, pc \in WithSize => th[t].size \in Sizes
  PROVE  th' \in [Threads -> Calls]
<1>1. th[t] \in Thread /\ th[t].i \in Slots /\ 0 \in Slots
  BY CallType, ShimConstants DEF Calls
<1>2. CASE th[t].i + 1 = HtSize
  <2> DEFINE r == [th[t] EXCEPT !.pc = pc, !.i = 0]
  <2>1. r \in Thread /\ r.ptr = th[t].ptr /\ r.size = th[t].size /\ r.pc = pc
    BY <1>1 DEF Thread
  <2>2. r \in Calls
    BY <2>1 DEF Calls
  <2>3. th' = [th EXCEPT ![t] = r]
    BY <1>2 DEF OnOr
  <2> QED BY <2>2, <2>3, Moves
<1>3. CASE th[t].i + 1 # HtSize
  <2>1. th[t].i + 1 \in Slots
    BY <1>1, <1>3, ShimConstants DEF Slots
  <2>2. th' = [th EXCEPT ![t] = [th[t] EXCEPT !.i = th[t].i + 1]]
    BY <1>3 DEF OnOr
  <2> QED BY <2>1, <2>2, IndexType, Moves
<1> QED BY <1>2, <1>3

LEMMA OverflowType == ASSUME TypeInv, NEW t \in Threads, Overflow(t) PROVE TypeInv'
<1>1. th' \in [Threads -> Calls]
  BY ToType, CallType DEF Overflow, At, Pcs, WithPtr, WithSize
<1> QED BY <1>1 DEF TypeInv, Overflow, Live

LEMMA RegisterType ==
  ASSUME TypeInv, NEW t \in Threads, Register(t), th[t].size \in Sizes
  PROVE  th' \in [Threads -> Calls]
<1>1. PICK h \in Registered : th' = [th EXCEPT ![t].pc = "insert", ![t].ptr = h]
  BY DEF Register
<1> DEFINE r == [th[t] EXCEPT !.pc = "insert", !.ptr = h]
<1>2. th[t] \in Thread /\ h \in Ptrs /\ "insert" \in Pcs
  BY CallType, ShimConstants DEF Calls, Pcs
<1>3. r \in Thread /\ r.ptr = h /\ r.size = th[t].size
  BY <1>2 DEF Thread
<1>4. r \in Calls
  BY <1>2, <1>3 DEF Calls
<1> QED BY <1>1, <1>4, Moves

LEMMA AllocPinnedType == ASSUME TypeInv, NEW t \in Threads, AllocPinned(t) PROVE TypeInv'
<1>1. th' \in [Threads -> Calls]
  <2>1. CASE Register(t)
    BY <2>1, RegisterType, CallType DEF AllocPinned, At, Pcs, WithSize
  <2>2. CASE To(t, "pathb") \/ To(t, "failed")
    BY <2>2, ToType, CallType DEF AllocPinned, At, Pcs, WithPtr, WithSize
  <2> QED BY <2>1, <2>2 DEF AllocPinned
<1>2. real' \subseteq Dev \cup Host
  BY ShimConstants DEF AllocPinned, Register, TypeInv
<1> QED BY <1>1, <1>2 DEF TypeInv, AllocPinned, Live

LEMMA MallocOnCardType == ASSUME TypeInv, NEW t \in Threads, MallocOnCard(t) PROVE TypeInv'
<1>1. PICK sz \in Sizes, d \in Dev \ real :
        /\ real' = real \cup {d}
        /\ t1' = Add(t1, sz)
        /\ th' = [th EXCEPT ![t] = [Idle EXCEPT !.pc = "insert", !.ptr = d, !.size = sz]]
  BY DEF MallocOnCard
<1>2. th' \in [Threads -> Calls]
  <2> DEFINE r == [Idle EXCEPT !.pc = "insert", !.ptr = d, !.size = sz]
  <2>1. Idle \in Thread /\ d \in Ptrs /\ "insert" \in Pcs
    BY IdleType, ShimConstants DEF Calls, Pcs
  <2>2. r \in Thread /\ r.ptr = d /\ r.size = sz
    BY <2>1 DEF Thread
  <2>3. r \in Calls
    BY <2>1, <2>2 DEF Calls
  <2> QED BY <1>1, <2>3, Moves
<1>3. t1' \in 0 .. Word - 1
  BY <1>1, WordType, ShimConstants DEF TypeInv
<1> QED BY <1>1, <1>2, <1>3 DEF TypeInv, MallocOnCard, Live

LEMMA MallocOverflowType == ASSUME TypeInv, NEW t \in Threads, MallocOverflow(t) PROVE TypeInv'
<1>1. PICK sz \in Sizes, try \in {1, 2} :
        th' = [th EXCEPT ![t] = [Idle EXCEPT !.pc = "overflow", !.size = sz, !.try = try]]
  BY DEF MallocOverflow
<1>2. th' \in [Threads -> Calls]
  <2> DEFINE r == [Idle EXCEPT !.pc = "overflow", !.size = sz, !.try = try]
  <2>1. Idle \in Thread /\ "overflow" \in Pcs /\ try \in 0 .. 3
    BY IdleType DEF Calls, Pcs
  <2>2. r \in Thread /\ r.pc = "overflow" /\ r.size = sz
    BY <2>1 DEF Thread
  <2>3. r \in Calls
    BY <2>1, <2>2 DEF Calls, WithPtr
  <2> QED BY <1>1, <2>3, Moves
<1> QED BY <1>2 DEF TypeInv, MallocOverflow, Live

LEMMA PathBType == ASSUME TypeInv, NEW t \in Threads, PathB(t) PROVE TypeInv'
<1>1. th' \in [Threads -> Calls]
  BY ToType, CallType DEF PathB, At, Pcs, WithPtr, WithSize
<1> QED BY <1>1 DEF TypeInv, PathB, Live

LEMMA ReserveBlackwellType == ASSUME TypeInv, NEW t \in Threads, ReserveBlackwell(t) PROVE TypeInv'
<1>1. th' \in [Threads -> Calls]
  BY ToType, CallType DEF ReserveBlackwell, TryReserve, At, Pcs, WithPtr, WithSize
<1>2. t2' \in 0 .. Word - 1
  BY WordType, CallType DEF ReserveBlackwell, TryReserve, TypeInv
<1> QED BY <1>1, <1>2 DEF TypeInv, ReserveBlackwell, Live

LEMMA AllocZeroCopyType == ASSUME TypeInv, NEW t \in Threads, AllocZeroCopy(t) PROVE TypeInv'
<1>1. th' \in [Threads -> Calls]
  BY ToType, RestType, CallType DEF AllocZeroCopy, Return, At, Pcs, WithPtr, WithSize
<1>2. /\ real' \subseteq Dev \cup Host /\ bvmm' \in [Host -> Sizes \cup {0}]
      /\ held' \in [Ptrs -> Nat] /\ oom' \in BOOLEAN
  <2>1. CASE To(t, "revert") /\ UNCHANGED <<real, bvmm, oom, held>>
    BY <2>1 DEF TypeInv
  <2>2. ASSUME NEW h \in Host \ real, real' = real \cup {h},
               bvmm' = [bvmm EXCEPT ![h] = th[t].size], Return(t, h)
        PROVE  /\ real' \subseteq Dev \cup Host /\ bvmm' \in [Host -> Sizes \cup {0}]
               /\ held' \in [Ptrs -> Nat] /\ oom' \in BOOLEAN
    <3>1. th[t].size \in Sizes \cup {0}
      BY CallType
    <3>2. real' \subseteq Dev \cup Host
      BY <2>2 DEF TypeInv
    <3>3. bvmm' \in [Host -> Sizes \cup {0}]
      BY <2>2, <3>1 DEF TypeInv
    <3>4. held' \in [Ptrs -> Nat] /\ oom' \in BOOLEAN
      BY <2>2, ReturnType, ShimConstants
    <3> QED BY <3>2, <3>3, <3>4
  <2> QED BY <2>1, <2>2 DEF AllocZeroCopy
<1> QED BY <1>1, <1>2 DEF TypeInv, AllocZeroCopy, Live

LEMMA ReleaseReservedType == ASSUME TypeInv, NEW t \in Threads, ReleaseReserved(t) PROVE TypeInv'
<1>1. th' \in [Threads -> Calls]
  BY ToType, CallType DEF ReleaseReserved, At, Pcs, WithPtr, WithSize
<1>2. t2' \in 0 .. Word - 1
  BY WordType, CallType DEF ReleaseReserved, TypeInv
<1> QED BY <1>1, <1>2 DEF TypeInv, ReleaseReserved, Live

LEMMA AllocHostRegType == ASSUME TypeInv, NEW t \in Threads, AllocHostReg(t) PROVE TypeInv'
<1>1. th' \in [Threads -> Calls]
  <2>1. CASE Register(t)
    BY <2>1, RegisterType, CallType DEF AllocHostReg, At, Pcs, WithSize
  <2>2. CASE To(t, "failed")
    BY <2>2, ToType, CallType DEF AllocHostReg, At, Pcs, WithPtr, WithSize
  <2> QED BY <2>1, <2>2 DEF AllocHostReg
<1>2. real' \subseteq Dev \cup Host
  BY ShimConstants DEF AllocHostReg, Register, TypeInv
<1> QED BY <1>1, <1>2 DEF TypeInv, AllocHostReg, Live

LEMMA AllocPoolType ==
  ASSUME TypeInv, ListsOK(free), NEW t \in Threads, AllocPool(t) PROVE TypeInv'
<1>1. th' \in [Threads -> Calls]
  <2>1. CASE Serving(free, th[t].size) # {}
    <3> DEFINE p == Chosen(free, th[t].size).seg.off
               r == [th[t] EXCEPT !.pc = "insert", !.ptr = p]
    <3>1. th[t] \in Thread /\ th[t].size \in Sizes /\ th[t].size \in Nat \ {0} /\ "insert" \in Pcs
      BY CallType, ShimConstants DEF AllocPool, At, Calls, WithSize, Pcs
    <3>2. p \in Ptrs
      BY <2>1, <3>1, PoolAllocOK, ShimConstants
    <3>3. th' = [th EXCEPT ![t] = r]
      BY <2>1 DEF AllocPool
    <3> HIDE DEF p
    <3>4. r \in Thread /\ r.ptr = p /\ r.size = th[t].size
      BY <3>1, <3>2 DEF Thread
    <3>5. r \in Calls
      BY <3>1, <3>2, <3>4 DEF Calls
    <3> QED BY <3>3, <3>5, Moves
  <2>2. CASE Serving(free, th[t].size) = {}
    BY <2>2, ToType, CallType DEF AllocPool, At, Pcs, WithPtr, WithSize
  <2> QED BY <2>1, <2>2
<1> QED BY <1>1 DEF TypeInv, AllocPool, Live

LEMMA HtInsertType == ASSUME TypeInv, NEW t \in Threads, HtInsert(t) PROVE TypeInv'
<1>1. /\ th[t] \in Thread /\ th[t].pc = "insert" /\ th[t].ptr \in Ptrs /\ th[t].size \in Sizes
      /\ th[t].size \in Nat
  BY CallType DEF HtInsert, At, WithPtr, WithSize, Pcs, Calls
<1>2. Here(t) \in Slots
  BY <1>1, HereType
<1>3. CASE Live(Here(t))
  <2>1. th' \in [Threads -> Calls]
    BY <1>1, <1>3, OnOrType DEF HtInsert, Pcs, WithPtr, WithSize
  <2> QED BY <1>3, <2>1 DEF TypeInv, HtInsert, Live
<1>4. CASE ~Live(Here(t))
  <2>1. table' = [table EXCEPT ![Here(t)].ptr = th[t].ptr, ![Here(t)].size = th[t].size]
    BY <1>4 DEF HtInsert
  <2>2. /\ table' \in [Slots -> Slot]
        /\ \A s \in Slots : table'[s] = table[s] \/ table'[s].size = th[t].size
    BY <1>1, <1>2, <2>1 DEF TypeInv, Slot
  <2>3. \A s \in Slots : Live(s)' => table'[s].size \in Sizes
    BY <1>1, <2>2 DEF TypeInv, Live
  <2>4. held' \in [Ptrs -> Nat] /\ oom' \in BOOLEAN /\ th' \in [Threads -> Calls]
    <3>1. CASE Return(t, th[t].ptr)
      BY <1>1, <3>1, ReturnType
    <3>2. CASE th' = [th EXCEPT ![t].pc = "flags", ![t].i = 0] /\ UNCHANGED <<oom, held>>
      <4> DEFINE r == [th[t] EXCEPT !.pc = "flags", !.i = 0]
      <4>1. r \in Thread /\ r.ptr = th[t].ptr /\ r.size = th[t].size
        BY <1>1, ShimConstants DEF Thread, Pcs
      <4>2. r \in Calls
        BY <1>1, <4>1 DEF Calls
      <4>3. th' = [th EXCEPT ![t] = r]
        BY <3>2
      <4> QED BY <3>2, <4>2, <4>3, Moves DEF TypeInv
    <3> QED BY <1>4, <3>1, <3>2 DEF HtInsert
  <2> QED BY <2>2, <2>3, <2>4 DEF TypeInv, HtInsert
<1> QED BY <1>3, <1>4

LEMMA TableFullType == ASSUME TypeInv, NEW t \in Threads, TableFull(t) PROVE TypeInv'
<1>1. th[t] \in Thread /\ th[t].size \in Sizes /\ th[t].size \in Nat
  BY CallType DEF TableFull, At, WithSize, Pcs, Calls
<1>2. CASE th[t].ptr \in Dev
  <2>1. th' \in [Threads -> Calls] /\ t1' \in 0 .. Word - 1
    BY <1>1, <1>2, RestType, WordType DEF TableFull, TypeInv
  <2> QED BY <2>1 DEF TypeInv, TableFull, Live
<1>3. CASE th[t].ptr \notin Dev
  <2> DEFINE r == [th[t] EXCEPT !.pc = "failed", !.ptr = Empty]
  <2>1. r \in Thread /\ r.pc = "failed" /\ r.size = th[t].size
    BY <1>1 DEF Thread, Pcs
  <2>2. r \in Calls
    BY <1>1, <2>1 DEF Calls, WithPtr
  <2>3. th' = [th EXCEPT ![t] = r]
    BY <1>3 DEF TableFull
  <2>4. th' \in [Threads -> Calls]
    BY <2>2, <2>3, Moves
  <2> QED BY <1>3, <2>4 DEF TypeInv, TableFull, Live
<1> QED BY <1>2, <1>3

LEMMA SetFlagsType == ASSUME TypeInv, NEW t \in Threads, SetFlags(t) PROVE TypeInv'
<1>1. /\ th[t] \in Thread /\ th[t].ptr \in Ptrs /\ th[t].size \in Sizes /\ th[t].i \in Slots
  BY CallType DEF SetFlags, At, WithPtr, WithSize, Pcs, Calls
<1> DEFINE s == Here(t)
           found == table[s].ptr = th[t].ptr
           last == found \/ table[s].ptr = Empty \/ th[t].i + 1 = HtSize
<1>2. s \in Slots
  BY <1>1, HereType
<1>3. PICK kv \in BOOLEAN : table' = IF found THEN [table EXCEPT ![s].kv = kv] ELSE table
  BY DEF SetFlags
<1>4. /\ table' \in [Slots -> Slot]
      /\ \A x \in Slots : table'[x].ptr = table[x].ptr /\ table'[x].size = table[x].size
  BY <1>2, <1>3 DEF TypeInv, Slot
<1>5. \A x \in Slots : Live(x)' => table'[x].size \in Sizes
  BY <1>4 DEF TypeInv, Live
<1>6. held' \in [Ptrs -> Nat] /\ oom' \in BOOLEAN /\ th' \in [Threads -> Calls]
  <2>1. CASE last /\ th[t].ptr \in Dev
    BY <1>1, <2>1, ReturnType DEF SetFlags
  <2>2. CASE last /\ th[t].ptr \notin Dev
    <3> DEFINE r == [th[t] EXCEPT !.pc = "count", !.i = 0]
    <3>1. r \in Thread /\ r.ptr = th[t].ptr /\ r.size = th[t].size
      BY <1>1, ShimConstants DEF Thread, Pcs
    <3>2. r \in Calls
      BY <1>1, <3>1 DEF Calls
    <3>3. th' = [th EXCEPT ![t] = r] /\ UNCHANGED <<oom, held>>
      BY <2>2 DEF SetFlags
    <3> QED BY <3>2, <3>3, Moves DEF TypeInv
  <2>3. CASE ~last
    <3>1. th[t].i + 1 \in Slots
      BY <1>1, <2>3, ShimConstants DEF Slots
    <3>2. th' = [th EXCEPT ![t] = [th[t] EXCEPT !.i = th[t].i + 1]] /\ UNCHANGED <<oom, held>>
      BY <2>3 DEF SetFlags
    <3> QED BY <3>1, <3>2, IndexType, Moves DEF TypeInv
  <2> QED BY <2>1, <2>2, <2>3
<1> QED BY <1>4, <1>5, <1>6 DEF TypeInv, SetFlags

LEMMA CountT2Type == ASSUME TypeInv, NEW t \in Threads, CountT2(t) PROVE TypeInv'
<1>1. th[t].ptr \in Ptrs /\ th[t].size \in Nat
  BY CallType DEF CountT2, At, WithPtr
<1>2. held' \in [Ptrs -> Nat] /\ oom' \in BOOLEAN /\ th' \in [Threads -> Calls]
  BY <1>1, ReturnType DEF CountT2
<1>3. t2' \in 0 .. Word - 1
  BY <1>1, WordType DEF CountT2, TypeInv
<1> QED BY <1>2, <1>3 DEF TypeInv, CountT2, Live

LEMMA FailedType == ASSUME TypeInv, NEW t \in Threads, Failed(t) PROVE TypeInv'
<1>1. th[t] \in Thread /\ th[t].size \in Sizes
  BY CallType DEF Failed, At, WithSize, Pcs, Calls
<1>2. th' \in [Threads -> Calls] /\ oom' \in BOOLEAN
  <2>1. CASE th' = [th EXCEPT ![t].pc = "overflow", ![t].try = 2] /\ UNCHANGED oom
    <3> DEFINE r == [th[t] EXCEPT !.pc = "overflow", !.try = 2]
    <3> "overflow" \in Pcs /\ 2 \in 0 .. 3
      BY DEF Pcs
    <3>1. r \in Thread /\ r.pc = "overflow" /\ r.size = th[t].size
      BY <1>1 DEF Thread
    <3>2. r \in Calls
      BY <1>1, <3>1 DEF Calls, WithPtr
    <3>3. th' = [th EXCEPT ![t] = r]
      BY <2>1
    <3> QED BY <2>1, <3>2, <3>3, Moves DEF TypeInv
  <2>2. CASE To(t, "oom") /\ UNCHANGED oom
    BY <1>1, <2>2, ToType DEF Pcs, WithPtr, TypeInv
  <2>3. CASE Rest(t) /\ oom' = FALSE
    BY <2>3, RestType
  <2> QED BY <2>1, <2>2, <2>3 DEF Failed
<1> QED BY <1>2 DEF TypeInv, Failed, Live

LEMMA OomType == ASSUME TypeInv, NEW t \in Threads, Oom(t) PROVE TypeInv'
<1>1. th[t].size \in Sizes
  BY CallType DEF Oom, At, WithSize, Pcs
<1>2. CASE oom \/ reclaims = MaxReclaims
  <2>1. th' \in [Threads -> Calls]
    BY <1>2, RestType DEF Oom
  <2> QED BY <1>2, <2>1 DEF TypeInv, Oom, Live
<1>3. CASE ~(oom \/ reclaims = MaxReclaims)
  <2>1. th' \in [Threads -> Calls]
    BY <1>1, <1>3, ToType DEF Oom, Pcs, WithPtr
  <2>2. reclaims' \in 0 .. MaxReclaims
    BY <1>3, ShimConstants DEF Oom, TypeInv
  <2> QED BY <1>3, <2>1, <2>2 DEF TypeInv, Oom, Live
<1> QED BY <1>2, <1>3

LEMMA ScanType == ASSUME TypeInv, NEW t \in Threads, Scan(t) PROVE TypeInv'
<1>1. th[t] \in Thread /\ th[t].size \in Sizes /\ th[t].i \in Slots
  BY CallType DEF Scan, At, WithSize, Pcs, Calls
<1> DEFINE s == th[t].i
           todo == IF Live(s) /\ table[s].kv THEN th[t].todo \cup {s} ELSE th[t].todo
           pc == IF s + 1 = HtSize THEN "evict" ELSE th[t].pc
           i == IF s + 1 = HtSize THEN 0 ELSE th[t].i + 1
           r == [th[t] EXCEPT !.todo = todo, !.pc = pc, !.i = i]
<1>2. th' = [th EXCEPT ![t] = r]
  BY DEF Scan
<1>3. todo \in SUBSET Slots
  BY <1>1, CallType
<1>4. pc \in {"scan", "evict"} /\ pc \in Pcs
  BY DEF Scan, At, Pcs
<1>5. i \in Slots
  BY <1>1, ShimConstants DEF Slots
<1> HIDE DEF todo, pc, i
<1>6. r \in Thread /\ r.pc = pc /\ r.size = th[t].size
  BY <1>1, <1>3, <1>4, <1>5 DEF Thread
<1>7. r \in Calls
  BY <1>1, <1>4, <1>6 DEF Calls, WithPtr
<1>8. th' \in [Threads -> Calls]
  BY <1>2, <1>7, Moves
<1> QED BY <1>8 DEF TypeInv, Scan, Live

LEMMA GiveBackType ==
  ASSUME TypeInv, NEW t \in Threads, NEW s \in Slots, GiveBack(t, s)
  PROVE  lock' \in [Locks -> Threads \cup {NoThread}] /\ real' \subseteq Dev \cup Host
<1>1. LockOf(s) \in Locks
  BY LockType
<1> QED BY <1>1 DEF TypeInv, GiveBack

LEMMA BuryType ==
  ASSUME TypeInv, NEW s \in Slots, Bury(s)
  PROVE  /\ lock' \in [Locks -> Threads \cup {NoThread}] /\ table' \in [Slots -> Slot]
         /\ \A r \in Slots : Live(r)' => table'[r].size \in Sizes
<1>1. LockOf(s) \in Locks
  BY LockType
<1>2. table' = [table EXCEPT ![s].ptr = Tombstone, ![s].size = 0]
  BY DEF Bury
<1>3. /\ table' \in [Slots -> Slot] /\ table'[s].ptr = Tombstone
      /\ \A r \in Slots : r # s => table'[r] = table[r]
  BY <1>2 DEF TypeInv, Slot
<1>4. \A r \in Slots : Live(r)' => table'[r].size \in Sizes
  BY <1>3 DEF TypeInv, Live
<1> QED BY <1>1, <1>3, <1>4 DEF TypeInv, Bury

LEMMA EvictType == ASSUME TypeInv, NEW t \in Threads, Evict(t) PROVE TypeInv'
<1>1. th[t] \in Thread /\ th[t].size \in Sizes /\ th[t].todo \subseteq Slots
  BY CallType DEF Evict, Evicting, At, WithSize, Pcs, Calls
<1>2. PICK s \in th[t].todo :
        IF Victim(s)
        THEN /\ GiveBack(t, s)
             /\ th' = [th EXCEPT ![t].pc = "evicted", ![t].i = s, ![t].todo = @ \ {s},
                  ![t].batch = IF table[s].ptr \in Pool
                               THEN @ \cup {Segment(table[s].ptr, table[s].size)} ELSE @]
        ELSE th' = [th EXCEPT ![t].todo = @ \ {s}] /\ UNCHANGED <<lock, free, real>>
  BY DEF Evict
<1>3. s \in Slots
  BY <1>1
<1>4. CASE Victim(s)
  <2> DEFINE todo == th[t].todo \ {s}
             batch == IF table[s].ptr \in Pool
                      THEN th[t].batch \cup {Segment(table[s].ptr, table[s].size)} ELSE th[t].batch
             r == [th[t] EXCEPT !.pc = "evicted", !.i = s, !.todo = todo, !.batch = batch]
  <2>1. table[s].size \in Sizes
    BY <1>3, <1>4 DEF Victim, TypeInv
  <2>2. batch \in SUBSET [off : Pool, sz : Sizes] /\ todo \in SUBSET Slots /\ "evicted" \in Pcs
    BY <1>1, <2>1, CallType DEF Segment, Pcs
  <2>3. th' = [th EXCEPT ![t] = r]
    BY <1>2, <1>4
  <2> HIDE DEF todo, batch
  <2>4. r \in Thread /\ r.pc = "evicted" /\ r.size = th[t].size
    BY <1>1, <1>3, <2>2 DEF Thread
  <2>5. r \in Calls
    BY <1>1, <2>4 DEF Calls, WithPtr
  <2>6. th' \in [Threads -> Calls]
    BY <2>3, <2>5, Moves
  <2>7. lock' \in [Locks -> Threads \cup {NoThread}] /\ real' \subseteq Dev \cup Host
    BY <1>2, <1>3, <1>4, GiveBackType
  <2> QED BY <2>6, <2>7 DEF TypeInv, Evict, Live
<1>5. CASE ~Victim(s)
  <2> DEFINE r == [th[t] EXCEPT !.todo = th[t].todo \ {s}]
  <2>1. th[t].todo \ {s} \in SUBSET Slots /\ th[t] \in Calls
    BY <1>1, CallType
  <2>2. r \in Thread /\ r.pc = th[t].pc /\ r.size = th[t].size /\ r.ptr = th[t].ptr
    BY <1>1, <2>1 DEF Thread
  <2>3. r \in Calls
    BY <2>1, <2>2 DEF Calls
  <2>4. th' = [th EXCEPT ![t] = r]
    BY <1>2, <1>5
  <2>5. th' \in [Threads -> Calls]
    BY <2>3, <2>4, Moves
  <2> QED BY <1>2, <1>5, <2>5 DEF TypeInv, Evict, Live
<1> QED BY <1>4, <1>5

LEMMA EvictedType == ASSUME TypeInv, NEW t \in Threads, Evicted(t) PROVE TypeInv'
<1>1. th[t] \in Thread /\ th[t].size \in Sizes /\ th[t].i \in Slots
  BY CallType DEF Evicted, At, WithSize, Pcs, Calls
<1> DEFINE n == table[th[t].i].size
           r == [th[t] EXCEPT !.pc = "charge", !.i = 0, !.freed = th[t].freed + n, !.due = n]
<1>2. n \in Nat /\ th[t].freed + n \in Nat /\ "charge" \in Pcs /\ 0 \in Slots
  BY <1>1, CallType, ShimConstants DEF TypeInv, Slot, Pcs
<1>3. th' = [th EXCEPT ![t] = r]
  BY DEF Evicted
<1> HIDE DEF n
<1>4. r \in Thread /\ r.pc = "charge" /\ r.size = th[t].size
  BY <1>1, <1>2 DEF Thread
<1>5. r \in Calls
  BY <1>1, <1>4 DEF Calls, WithPtr
<1>6. th' \in [Threads -> Calls]
  BY <1>3, <1>5, Moves
<1>7. /\ lock' \in [Locks -> Threads \cup {NoThread}] /\ table' \in [Slots -> Slot]
      /\ \A x \in Slots : Live(x)' => table'[x].size \in Sizes
  BY <1>1, BuryType DEF Evicted
<1> QED BY <1>6, <1>7 DEF TypeInv, Evicted

LEMMA ChargeType == ASSUME TypeInv, NEW t \in Threads, Charge(t) PROVE TypeInv'
<1>1. th[t] \in Thread /\ th[t].size \in Sizes /\ th[t].due \in Nat
  BY CallType DEF Charge, At, WithSize, Pcs, Calls
<1> DEFINE r == [th[t] EXCEPT !.pc = "evict", !.due = 0]
<1>2. r \in Thread /\ r.pc = "evict" /\ r.size = th[t].size
  BY <1>1 DEF Thread, Pcs
<1>3. r \in Calls
  BY <1>1, <1>2 DEF Calls, WithPtr
<1>4. th' = [th EXCEPT ![t] = r]
  BY DEF Charge
<1>5. th' \in [Threads -> Calls]
  BY <1>3, <1>4, Moves
<1>6. t2' \in 0 .. Word - 1
  <2>1. (IF th[t].due < 2 THEN 0 ELSE th[t].due - 1) \in Nat
    BY <1>1
  <2> QED BY <2>1, WordType DEF Charge, TypeInv
<1> QED BY <1>5, <1>6 DEF TypeInv, Charge, Live

LEMMA RetryType ==
  ASSUME TypeInv, NEW t \in Threads, Retry(t), th[t].size \in Sizes
  PROVE  th' \in [Threads -> Calls]
<1> DEFINE r == [Idle EXCEPT !.pc = "overflow", !.size = th[t].size, !.try = 3]
<1>1. Idle \in Thread /\ "overflow" \in Pcs /\ 3 \in 0 .. 3
  BY IdleType DEF Calls, Pcs
<1>2. r \in Thread /\ r.pc = "overflow" /\ r.size = th[t].size
  BY <1>1 DEF Thread
<1>3. r \in Calls
  BY <1>2 DEF Calls, WithPtr
<1> QED BY <1>3, Moves DEF Retry

LEMMA EvictDoneType == ASSUME TypeInv, NEW t \in Threads, EvictDone(t) PROVE TypeInv'
<1>1. th[t] \in Thread /\ th[t].size \in Sizes
  BY CallType DEF EvictDone, At, WithSize, Pcs, Calls
<1>2. CASE th[t].freed < Target(t)
  <2> DEFINE r == [th[t] EXCEPT !.pc = "flush", !.todo = {}, !.freed = 0, !.batch = {}]
  <2>1. r \in Thread /\ r.pc = "flush" /\ r.size = th[t].size
    BY <1>1 DEF Thread, Pcs
  <2>2. r \in Calls
    BY <1>1, <2>1 DEF Calls, WithPtr
  <2>3. th' = [th EXCEPT ![t] = r]
    BY <1>2 DEF EvictDone
  <2>4. th' \in [Threads -> Calls]
    BY <2>2, <2>3, Moves
  <2> QED BY <2>4 DEF TypeInv, EvictDone, Live
<1>3. CASE ~(th[t].freed < Target(t))
  <2>1. th' \in [Threads -> Calls]
    BY <1>1, <1>3, RetryType DEF EvictDone
  <2> QED BY <2>1 DEF TypeInv, EvictDone, Live
<1> QED BY <1>2, <1>3

LEMMA FlushOnType ==
  ASSUME TypeInv, NEW t \in Threads, FlushOn(t), th[t].size \in Sizes
  PROVE  th' \in [Threads -> Calls]
<1>1. CASE th[t].i + 1 = HtSize
  BY <1>1, RetryType DEF FlushOn
<1>2. CASE th[t].i + 1 # HtSize
  <2> DEFINE r == [th[t] EXCEPT !.pc = "flush", !.i = th[t].i + 1]
  <2>1. th[t] \in Thread /\ th[t].i + 1 \in Slots
    BY <1>2, CallType, ShimConstants DEF Slots, Calls
  <2>2. r \in Thread /\ r.pc = "flush" /\ r.size = th[t].size
    BY <2>1 DEF Thread, Pcs
  <2>3. r \in Calls
    BY <2>2 DEF Calls, WithPtr
  <2>4. th' = [th EXCEPT ![t] = r]
    BY <1>2 DEF FlushOn
  <2> QED BY <2>3, <2>4, Moves
<1> QED BY <1>1, <1>2

LEMMA FlushType == ASSUME TypeInv, NEW t \in Threads, Flush(t) PROVE TypeInv'
<1>1. th[t].size \in Sizes /\ th[t].i \in Slots
  BY CallType DEF Flush, At, WithSize, Pcs
<1>2. CASE Live(th[t].i) /\ ~table[th[t].i].kv
  <2>1. th' \in [Threads -> Calls]
    BY <1>1, <1>2, ToType DEF Flush, Pcs, WithPtr
  <2>2. lock' \in [Locks -> Threads \cup {NoThread}] /\ real' \subseteq Dev \cup Host
    BY <1>1, <1>2, GiveBackType DEF Flush
  <2> QED BY <2>1, <2>2 DEF TypeInv, Flush, Live
<1>3. CASE ~(Live(th[t].i) /\ ~table[th[t].i].kv)
  <2>1. th' \in [Threads -> Calls] /\ UNCHANGED <<lock, free, real>>
    BY <1>1, <1>3, FlushOnType DEF Flush
  <2> QED BY <2>1 DEF TypeInv, Flush, Live
<1> QED BY <1>2, <1>3

LEMMA FlushedType == ASSUME TypeInv, NEW t \in Threads, Flushed(t) PROVE TypeInv'
<1>1. th[t].size \in Sizes /\ th[t].i \in Slots
  BY CallType DEF Flushed, At, WithSize, Pcs
<1>2. th' \in [Threads -> Calls]
  BY <1>1, FlushOnType DEF Flushed
<1>3. /\ lock' \in [Locks -> Threads \cup {NoThread}] /\ table' \in [Slots -> Slot]
      /\ \A x \in Slots : Live(x)' => table'[x].size \in Sizes
  BY <1>1, BuryType DEF Flushed
<1> QED BY <1>2, <1>3 DEF TypeInv, Flushed

LEMMA FreeType ==
  ASSUME TypeInv, NEW t \in Threads, NEW p \in Ptrs, Free(t, p) PROVE TypeInv'
<1>1. held' \in [Ptrs -> Nat]
  BY DEF Free, TypeInv
<1>2. CASE InBvmm(p)
  <2> DEFINE r == [Idle EXCEPT !.pc = "unmap", !.ptr = p, !.size = bvmm[p]]
  <2>1. Idle \in Thread /\ "unmap" \in Pcs /\ bvmm[p] \in Sizes /\ p \in Host
    BY <1>2, IdleType DEF Calls, Pcs, InBvmm, TypeInv
  <2>2. r \in Thread /\ r.ptr = p /\ r.size = bvmm[p]
    BY <2>1 DEF Thread
  <2>3. r \in Calls
    BY <2>1, <2>2 DEF Calls
  <2>4. th' = [th EXCEPT ![t] = r] /\ bvmm' = [bvmm EXCEPT ![p] = 0]
    BY <1>2 DEF Free
  <2>5. th' \in [Threads -> Calls]
    BY <2>3, <2>4, Moves
  <2>6. bvmm' \in [Host -> Sizes \cup {0}]
    BY <2>4 DEF TypeInv
  <2> QED BY <1>1, <2>5, <2>6 DEF TypeInv, Free, Live
<1>3. CASE ~InBvmm(p)
  <2> DEFINE r == [Idle EXCEPT !.pc = "remove", !.ptr = p]
  <2>1. Idle \in Thread /\ "remove" \in Pcs
    BY IdleType DEF Calls, Pcs
  <2>2. r \in Thread /\ r.ptr = p /\ r.pc = "remove"
    BY <2>1 DEF Thread
  <2>3. r \in Calls
    BY <2>1, <2>2 DEF Calls, WithSize
  <2>4. th' = [th EXCEPT ![t] = r] /\ bvmm' = bvmm
    BY <1>3 DEF Free
  <2>5. th' \in [Threads -> Calls]
    BY <2>3, <2>4, Moves
  <2> QED BY <1>1, <2>4, <2>5 DEF TypeInv, Free, Live
<1> QED BY <1>2, <1>3

LEMMA UnmapType == ASSUME TypeInv, NEW t \in Threads, Unmap(t) PROVE TypeInv'
<1>1. th' \in [Threads -> Calls]
  BY ToType, CallType DEF Unmap, At, Pcs, WithPtr, WithSize
<1> QED BY <1>1 DEF TypeInv, Unmap, Live

LEMMA HtRemoveType == ASSUME TypeInv, NEW t \in Threads, HtRemove(t) PROVE TypeInv'
<1>1. th[t] \in Thread /\ th[t].pc = "remove" /\ th[t].ptr \in Ptrs
  BY CallType DEF HtRemove, At, WithPtr, Calls
<1> DEFINE s == Here(t)
<1>2. s \in Slots
  BY <1>1, HereType
<1> HIDE DEF s
<1>3. CASE table[s].ptr = th[t].ptr
  <2> DEFINE r == [th[t] EXCEPT !.pc = "release", !.i = 0, !.size = table[s].size]
  <2>1. table[s].size \in Sizes
    BY <1>1, <1>2, <1>3, ShimConstants DEF TypeInv, Live
  <2>2. "release" \in Pcs /\ 0 \in Slots
    BY ShimConstants DEF Pcs
  <2>3. r \in Thread /\ r.ptr = th[t].ptr /\ r.size = table[s].size
    BY <1>1, <2>1, <2>2 DEF Thread
  <2>4. r \in Calls
    BY <1>1, <2>1, <2>3 DEF Calls
  <2>5. th' = [th EXCEPT ![t] = r] /\ table' = [table EXCEPT ![s].ptr = Tombstone, ![s].size = 0]
    BY <1>3 DEF HtRemove, Removed, s
  <2>6. th' \in [Threads -> Calls]
    BY <2>4, <2>5, Moves
  <2>7. /\ table' \in [Slots -> Slot] /\ table'[s].ptr = Tombstone
        /\ \A x \in Slots : x # s => table'[x] = table[x]
    BY <1>2, <2>5 DEF TypeInv, Slot
  <2>8. \A x \in Slots : Live(x)' => table'[x].size \in Sizes
    BY <2>7 DEF TypeInv, Live
  <2> QED BY <2>6, <2>7, <2>8 DEF TypeInv, HtRemove
<1>4. CASE table[s].ptr # th[t].ptr
  <2>1. th' \in [Threads -> Calls]
    <3>1. CASE table[s].ptr = Empty
      <4> DEFINE r == [th[t] EXCEPT !.pc = "realfree", !.i = 0]
      <4>1. r \in Thread /\ r.ptr = th[t].ptr /\ r.pc = "realfree"
        BY <1>1, ShimConstants DEF Thread, Pcs
      <4>2. r \in Calls
        BY <1>1, <4>1 DEF Calls, WithSize
      <4>3. th' = [th EXCEPT ![t] = r]
        BY <1>4, <3>1 DEF HtRemove, s
      <4> QED BY <4>2, <4>3, Moves
    <3>2. CASE table[s].ptr # Empty
      BY <1>1, <1>4, <3>2, OnOrType DEF HtRemove, s, Pcs, WithSize
    <3> QED BY <3>1, <3>2
  <2>2. table' = table
    BY <1>4 DEF HtRemove, s
  <2> QED BY <2>1, <2>2 DEF TypeInv, HtRemove, Live
<1> QED BY <1>3, <1>4

LEMMA ReleaseType == ASSUME TypeInv, NEW t \in Threads, Release(t) PROVE TypeInv'
<1>1. th[t].size \in Sizes /\ th[t].size \in Nat
  BY CallType DEF Release, At, WithSize, Pcs
<1>2. th' \in [Threads -> Calls]
  BY <1>1, RestType, ToType DEF Release, Pcs, WithPtr
<1>3. t1' \in 0 .. Word - 1
  BY <1>1, WordType DEF Release, TypeInv
<1> QED BY <1>2, <1>3 DEF TypeInv, Release, Live

LEMMA UncountType == ASSUME TypeInv, NEW t \in Threads, Uncount(t) PROVE TypeInv'
<1>1. th' \in [Threads -> Calls]
  BY RestType DEF Uncount
<1>2. t2' \in 0 .. Word - 1
  BY CallType, WordType DEF Uncount, TypeInv
<1> QED BY <1>1, <1>2 DEF TypeInv, Uncount, Live

LEMMA RealFreeType == ASSUME TypeInv, NEW t \in Threads, RealFree(t) PROVE TypeInv'
<1>1. th' \in [Threads -> Calls]
  BY RestType DEF RealFree
<1> QED BY <1>1 DEF TypeInv, RealFree, Live

LEMMA TypeStep ==
  ASSUME TypeInv, ListsOK(free), NEW t \in Threads, MallocStep(t) \/ ReclaimStep(t) \/ FreeStep(t)
  PROVE  TypeInv'
<1>1. CASE MallocStep(t)
  BY <1>1, MallocOnCardType, MallocOverflowType, OverflowType, AllocPoolType, AllocPinnedType,
     PathBType, AllocHostRegType, ReserveBlackwellType, AllocZeroCopyType, ReleaseReservedType,
     HtInsertType, TableFullType, SetFlagsType, CountT2Type, FailedType DEF MallocStep
<1>2. CASE ReclaimStep(t)
  BY <1>2, OomType, ScanType, EvictType, EvictedType, ChargeType, EvictDoneType, FlushType,
     FlushedType DEF ReclaimStep
<1>3. CASE FreeStep(t)
  BY <1>3, FreeType, UnmapType, HtRemoveType, ReleaseType, UncountType, RealFreeType DEF FreeStep
<1> QED BY <1>1, <1>2, <1>3

LEMMA TypeInit == ASSUME Init PROVE TypeInv
<1>1. table \in [Slots -> Slot] /\ \A s \in Slots : ~Live(s)
  BY DEF Init, Slot, Live
<1>2. th \in [Threads -> Calls]
  BY IdleType DEF Init
<1>3. t1 \in 0 .. Word - 1 /\ t2 \in 0 .. Word - 1 /\ reclaims \in 0 .. MaxReclaims
  BY ShimConstants DEF Init
<1> QED BY <1>1, <1>2, <1>3 DEF Init, TypeInv

-----------------------------------------------------------------------------
(* The pages of the pool in a state. *)

Region(ptr, size) == IF ptr \in Pool THEN Units(Segment(ptr, size)) ELSE {}

EntryHas == [s \in Slots |-> IF s \in Entries THEN Region(table[s].ptr, table[s].size) ELSE {}]
CallHas == [t \in Threads |-> IF InHand(t) THEN Region(th[t].ptr, th[t].size) ELSE {}]

Busy(t) == th[t].pc \in {"evicted", "flushed"}

\* A slot whose entry is being evicted is locked by the thread that evicts it.
LocksOwned == \A t \in Threads : Busy(t) => lock[LockOf(th[t].i)] = t

RegionInv == Shared(free, EntryHas, CallHas) /\ LocksOwned

LEMMA HasAt ==
  /\ \A s \in Slots :
       EntryHas[s] = IF s \in Entries THEN Region(table[s].ptr, table[s].size) ELSE {}
  /\ \A t \in Threads : CallHas[t] = IF InHand(t) THEN Region(th[t].ptr, th[t].size) ELSE {}
BY DEF EntryHas, CallHas

\* What the entries have in the next state, slot by slot.
LEMMA EntriesAre ==
  ASSUME NEW E, E \in [Slots -> SUBSET Pool],
         \A s \in Slots :
           E[s] = (IF s \in Entries' THEN Region(table'[s].ptr, table'[s].size) ELSE {})
  PROVE  EntryHas' = E
BY DEF EntryHas, Region, Pool

LEMMA CallsAre ==
  ASSUME NEW C, C \in [Threads -> SUBSET Pool],
         \A t \in Threads :
           C[t] = (IF InHand(t)' THEN Region(th'[t].ptr, th'[t].size) ELSE {})
  PROVE  CallHas' = C
BY DEF CallHas, Region, Pool

\* Whether an entry is being evicted depends on the threads that evict.
LEMMA EntriesKept ==
  ASSUME NEW s \in Slots,
         Live(s)' <=> Live(s), table'[s].ptr = table[s].ptr, table'[s].size = table[s].size,
         \A t \in Threads : (Busy(t) /\ th[t].i = s) <=> (Busy(t)' /\ th'[t].i = s)
  PROVE  /\ s \in Entries <=> s \in Entries'
         /\ EntryHas[s] = IF s \in Entries' THEN Region(table'[s].ptr, table'[s].size) ELSE {}
BY HasAt DEF Entries, Doomed, Busy

\* An unlocked slot is not being evicted.
LEMMA UnlockedKept ==
  ASSUME TypeInv, RegionInv, NEW s \in Slots, Unlocked(s)
  PROVE  ~Doomed(s) /\ (s \in Entries <=> Live(s))
BY ShimConstants DEF RegionInv, LocksOwned, Busy, Doomed, Unlocked, Entries

\* A step of a thread that evicts nothing before or after it, and moves no entry.
LEMMA EntriesFrame ==
  ASSUME TypeInv, RegionInv, NEW t \in Threads, ~Busy(t), ~Busy(t)',
         \A s \in Slots : table'[s].ptr = table[s].ptr /\ table'[s].size = table[s].size,
         \A v \in Threads : v # t => th'[v] = th[v]
  PROVE  EntryHas' = EntryHas
<1>1. ASSUME NEW s \in Slots
      PROVE EntryHas[s] = IF s \in Entries' THEN Region(table'[s].ptr, table'[s].size) ELSE {}
  <2>1. Live(s)' <=> Live(s)
    BY DEF Live
  <2>2. \A v \in Threads : (Busy(v) /\ th[v].i = s) <=> (Busy(v)' /\ th'[v].i = s)
    BY DEF Busy
  <2> QED BY <2>1, <2>2, EntriesKept
<1> QED BY <1>1, EntriesAre DEF RegionInv, Shared, FreeOf

LEMMA LocksFrame ==
  ASSUME RegionInv, NEW t \in Threads, ~Busy(t)', UNCHANGED lock,
         \A v \in Threads : v # t => th'[v] = th[v]
  PROVE  LocksOwned'
BY DEF RegionInv, LocksOwned, Busy

\* The step changes what one call has.
LEMMA CallChange ==
  ASSUME TypeInv, RegionInv, NEW t \in Threads, \A v \in Threads : v # t => th'[v] = th[v],
         NEW X \in SUBSET Pool, X = IF InHand(t)' THEN Region(th'[t].ptr, th'[t].size) ELSE {}
  PROVE  CallHas' = [CallHas EXCEPT ![t] = X]
<1> DEFINE C == [CallHas EXCEPT ![t] = X]
<1>1. C \in [Threads -> SUBSET Pool] /\ C[t] = X /\ \A v \in Threads : v # t => C[v] = CallHas[v]
  BY DEF RegionInv, Shared, FreeOf
<1> HIDE DEF C
<1>2. ASSUME NEW v \in Threads
      PROVE C[v] = IF InHand(v)' THEN Region(th'[v].ptr, th'[v].size) ELSE {}
  <2>1. CASE v = t
    BY <1>1, <2>1
  <2>2. CASE v # t
    BY <1>1, <2>2, HasAt DEF InHand
  <2> QED BY <2>1, <2>2
<1>3. CallHas' = C
  BY <1>1, <1>2, CallsAre
<1> QED BY <1>3 DEF C

\* The step changes what one entry has.
LEMMA EntryChange ==
  ASSUME TypeInv, RegionInv, NEW s \in Slots,
         \A r \in Slots : r # s => table'[r] = table[r],
         \A r \in Slots : r # s => (Doomed(r)' <=> Doomed(r)),
         NEW X \in SUBSET Pool, X = IF s \in Entries' THEN Region(table'[s].ptr, table'[s].size) ELSE {}
  PROVE  EntryHas' = [EntryHas EXCEPT ![s] = X]
<1> DEFINE E == [EntryHas EXCEPT ![s] = X]
<1>1. E \in [Slots -> SUBSET Pool] /\ E[s] = X /\ \A r \in Slots : r # s => E[r] = EntryHas[r]
  BY DEF RegionInv, Shared, FreeOf
<1> HIDE DEF E
<1>2. ASSUME NEW r \in Slots
      PROVE E[r] = IF r \in Entries' THEN Region(table'[r].ptr, table'[r].size) ELSE {}
  <2>1. CASE r = s
    BY <1>1, <2>1
  <2>2. CASE r # s
    <3>1. r \in Entries <=> r \in Entries'
      BY <2>2 DEF Entries, Live
    <3> QED BY <1>1, <2>2, <3>1, HasAt
  <2> QED BY <2>1, <2>2
<1>3. EntryHas' = E
  BY <1>1, <1>2, EntriesAre
<1> QED BY <1>3 DEF E

\* A step of a call that moves no pages.
LEMMA RegionFrame ==
  ASSUME TypeInv, RegionInv, NEW t \in Threads,
         \A s \in Slots : table'[s].ptr = table[s].ptr /\ table'[s].size = table[s].size,
         UNCHANGED <<free, lock>>,
         \A v \in Threads : v # t => th'[v] = th[v],
         ~Busy(t), ~Busy(t)',
         InHand(t) /\ th[t].ptr \in Pool <=> InHand(t)' /\ th'[t].ptr \in Pool,
         InHand(t) /\ th[t].ptr \in Pool => th'[t].ptr = th[t].ptr /\ th'[t].size = th[t].size
  PROVE  RegionInv'
<1>1. EntryHas' = EntryHas
  BY EntriesFrame
<1>2. CallHas' = CallHas
  <2>1. CallHas[t] \in SUBSET Pool /\ [CallHas EXCEPT ![t] = CallHas[t]] = CallHas
    BY DEF RegionInv, Shared, FreeOf
  <2>2. CallHas[t] = IF InHand(t)' THEN Region(th'[t].ptr, th'[t].size) ELSE {}
    BY HasAt DEF Region
  <2> QED BY <2>1, <2>2, CallChange
<1>3. LocksOwned'
  BY LocksFrame
<1>4. free' = free
  OBVIOUS
<1> QED BY <1>1, <1>2, <1>3, <1>4 DEF RegionInv

\* The step moves no pages: what the thread is at does not have any.
LEMMA StepFrame ==
  ASSUME TypeInv, RegionInv, NEW t \in Threads, NEW r, th' = [th EXCEPT ![t] = r],
         \A s \in Slots : table'[s].ptr = table[s].ptr /\ table'[s].size = table[s].size,
         UNCHANGED <<free, lock>>,
         ~Busy(t), r.pc \notin {"evicted", "flushed"},
         InHand(t) /\ th[t].ptr \in Pool <=> r.pc \in {"insert", "full", "release"} /\ r.ptr \in Pool,
         InHand(t) /\ th[t].ptr \in Pool => r.ptr = th[t].ptr /\ r.size = th[t].size
  PROVE  RegionInv'
<1>1. th'[t] = r /\ \A v \in Threads : v # t => th'[v] = th[v]
  BY DEF TypeInv
<1>2. ~Busy(t)' /\ (InHand(t)' <=> r.pc \in {"insert", "full", "release"})
  BY <1>1 DEF Busy, InHand
<1> QED BY <1>1, <1>2, RegionFrame

\* The stages of a call that have no pages and lock no slot.
Bare == Pcs \ {"insert", "full", "release", "evicted", "flushed"}

LEMMA BareFrame ==
  ASSUME TypeInv, RegionInv, NEW t \in Threads, NEW r, th' = [th EXCEPT ![t] = r],
         \A s \in Slots : table'[s].ptr = table[s].ptr /\ table'[s].size = table[s].size,
         UNCHANGED <<free, lock>>, th[t].pc \in Bare, r.pc \in Bare
  PROVE  RegionInv'
<1>1. ~Busy(t) /\ ~InHand(t) /\ r.pc \notin {"evicted", "flushed", "insert", "full", "release"}
  BY DEF Busy, InHand, Bare
<1> QED BY <1>1, StepFrame

LEMMA IdleBare == Idle.pc = "idle" /\ Idle.pc \in Bare
BY DEF Idle, Bare, Pcs

LEMMA ToBare ==
  ASSUME TypeInv, RegionInv, NEW t \in Threads, NEW pc \in Bare, To(t, pc), th[t].pc \in Bare,
         UNCHANGED <<table, free, lock>>
  PROVE  RegionInv'
<1> DEFINE r == [th[t] EXCEPT !.pc = pc]
<1>1. th[t] \in Thread
  BY CallType DEF Calls
<1>2. r.pc = pc
  BY <1>1 DEF Thread
<1> QED BY <1>2, BareFrame DEF To

LEMMA RestBare ==
  ASSUME TypeInv, RegionInv, NEW t \in Threads, Rest(t), th[t].pc \in Bare,
         \A s \in Slots : table'[s].ptr = table[s].ptr /\ table'[s].size = table[s].size,
         UNCHANGED <<free, lock>>
  PROVE  RegionInv'
BY IdleBare, BareFrame DEF Rest

LEMMA MallocOnCardRegion ==
  ASSUME TypeInv, RegionInv, NEW t \in Threads, MallocOnCard(t) PROVE RegionInv'
<1>1. PICK sz \in Sizes, d \in Dev \ real :
        th' = [th EXCEPT ![t] = [Idle EXCEPT !.pc = "insert", !.ptr = d, !.size = sz]]
  BY DEF MallocOnCard
<1> DEFINE r == [Idle EXCEPT !.pc = "insert", !.ptr = d, !.size = sz]
<1>2. r.pc = "insert" /\ r.ptr = d /\ d \notin Pool
  BY ShimConstants DEF Idle
<1>3. ~Busy(t) /\ ~InHand(t)
  BY DEF MallocOnCard, At, Busy, InHand
<1> QED BY <1>1, <1>2, <1>3, StepFrame DEF MallocOnCard

LEMMA MallocOverflowRegion ==
  ASSUME TypeInv, RegionInv, NEW t \in Threads, MallocOverflow(t) PROVE RegionInv'
<1>1. PICK sz \in Sizes, try \in {1, 2} :
        th' = [th EXCEPT ![t] = [Idle EXCEPT !.pc = "overflow", !.size = sz, !.try = try]]
  BY DEF MallocOverflow
<1> DEFINE r == [Idle EXCEPT !.pc = "overflow", !.size = sz, !.try = try]
<1>2. r.pc = "overflow" /\ r.pc \in Bare
  BY DEF Idle, Bare, Pcs
<1>3. th[t].pc \in Bare
  BY DEF MallocOverflow, At, Bare, Pcs
<1> QED BY <1>1, <1>2, <1>3, BareFrame DEF MallocOverflow

LEMMA OverflowRegion ==
  ASSUME TypeInv, RegionInv, NEW t \in Threads, Overflow(t) PROVE RegionInv'
BY ToBare DEF Overflow, At, Bare, Pcs

LEMMA PathBRegion ==
  ASSUME TypeInv, RegionInv, NEW t \in Threads, PathB(t) PROVE RegionInv'
BY ToBare DEF PathB, At, Bare, Pcs

LEMMA RegisterRegion ==
  ASSUME TypeInv, RegionInv, NEW t \in Threads, Register(t), th[t].pc \in Bare,
         UNCHANGED <<table, free, lock>>
  PROVE  RegionInv'
<1>1. PICK h \in Registered : th' = [th EXCEPT ![t].pc = "insert", ![t].ptr = h]
  BY DEF Register
<1> DEFINE r == [th[t] EXCEPT !.pc = "insert", !.ptr = h]
<1>2. th[t] \in Thread
  BY CallType DEF Calls
<1>3. r.pc = "insert" /\ r.ptr = h /\ h \notin Pool
  BY <1>2, ShimConstants DEF Thread
<1>4. ~Busy(t) /\ ~InHand(t)
  BY DEF Bare, Busy, InHand
<1> QED BY <1>1, <1>3, <1>4, StepFrame

LEMMA AllocPinnedRegion ==
  ASSUME TypeInv, RegionInv, NEW t \in Threads, AllocPinned(t) PROVE RegionInv'
BY RegisterRegion, ToBare DEF AllocPinned, At, Bare, Pcs

LEMMA AllocHostRegRegion ==
  ASSUME TypeInv, RegionInv, NEW t \in Threads, AllocHostReg(t) PROVE RegionInv'
BY RegisterRegion, ToBare DEF AllocHostReg, At, Bare, Pcs

LEMMA ReserveBlackwellRegion ==
  ASSUME TypeInv, RegionInv, NEW t \in Threads, ReserveBlackwell(t) PROVE RegionInv'
BY ToBare DEF ReserveBlackwell, TryReserve, At, Bare, Pcs

LEMMA AllocZeroCopyRegion ==
  ASSUME TypeInv, RegionInv, NEW t \in Threads, AllocZeroCopy(t) PROVE RegionInv'
BY ToBare, RestBare DEF AllocZeroCopy, Return, At, Bare, Pcs

LEMMA ReleaseReservedRegion ==
  ASSUME TypeInv, RegionInv, NEW t \in Threads, ReleaseReserved(t) PROVE RegionInv'
BY ToBare DEF ReleaseReserved, At, Bare, Pcs

LEMMA CountT2Region ==
  ASSUME TypeInv, RegionInv, NEW t \in Threads, CountT2(t) PROVE RegionInv'
BY RestBare DEF CountT2, Return, At, Bare, Pcs

LEMMA OomRegion ==
  ASSUME TypeInv, RegionInv, NEW t \in Threads, Oom(t) PROVE RegionInv'
BY ToBare, RestBare DEF Oom, At, Bare, Pcs

LEMMA UnmapRegion ==
  ASSUME TypeInv, RegionInv, NEW t \in Threads, Unmap(t) PROVE RegionInv'
BY ToBare DEF Unmap, At, Bare, Pcs

LEMMA UncountRegion ==
  ASSUME TypeInv, RegionInv, NEW t \in Threads, Uncount(t) PROVE RegionInv'
BY RestBare DEF Uncount, At, Bare, Pcs

LEMMA RealFreeRegion ==
  ASSUME TypeInv, RegionInv, NEW t \in Threads, RealFree(t) PROVE RegionInv'
BY RestBare DEF RealFree, At, Bare, Pcs

LEMMA FailedRegion ==
  ASSUME TypeInv, RegionInv, NEW t \in Threads, Failed(t) PROVE RegionInv'
<1>1. th[t] \in Thread /\ th[t].pc \in Bare
  BY CallType DEF Calls, Failed, At, Bare, Pcs
<1>2. CASE th' = [th EXCEPT ![t].pc = "overflow", ![t].try = 2]
  <2> DEFINE r == [th[t] EXCEPT !.pc = "overflow", !.try = 2]
  <2>1. r.pc = "overflow" /\ r.pc \in Bare
    BY <1>1 DEF Thread, Bare, Pcs
  <2> QED BY <1>1, <1>2, <2>1, BareFrame DEF Failed
<1>3. CASE To(t, "oom")
  BY <1>1, <1>3, ToBare DEF Failed, Bare, Pcs
<1>4. CASE Rest(t)
  BY <1>1, <1>4, RestBare DEF Failed
<1> QED BY <1>2, <1>3, <1>4 DEF Failed

LEMMA ScanRegion ==
  ASSUME TypeInv, RegionInv, NEW t \in Threads, Scan(t) PROVE RegionInv'
<1> DEFINE s == th[t].i
           todo == IF Live(s) /\ table[s].kv THEN th[t].todo \cup {s} ELSE th[t].todo
           pc == IF s + 1 = HtSize THEN "evict" ELSE th[t].pc
           i == IF s + 1 = HtSize THEN 0 ELSE th[t].i + 1
           r == [th[t] EXCEPT !.todo = todo, !.pc = pc, !.i = i]
<1>1. th[t] \in Thread /\ th[t].pc \in Bare /\ pc \in Bare
  BY CallType DEF Calls, Scan, At, Bare, Pcs
<1>2. th' = [th EXCEPT ![t] = r]
  BY DEF Scan
<1> HIDE DEF todo, pc, i
<1>3. r.pc = pc
  BY <1>1 DEF Thread
<1> QED BY <1>1, <1>2, <1>3, BareFrame, ZenonT(40) DEF Scan

LEMMA ChargeRegion ==
  ASSUME TypeInv, RegionInv, NEW t \in Threads, Charge(t) PROVE RegionInv'
<1> DEFINE r == [th[t] EXCEPT !.pc = "evict", !.due = 0]
<1>1. th[t] \in Thread /\ th[t].pc \in Bare
  BY CallType DEF Calls, Charge, At, Bare, Pcs
<1>2. r.pc = "evict" /\ r.pc \in Bare
  BY <1>1 DEF Thread, Bare, Pcs
<1> QED BY <1>1, <1>2, BareFrame DEF Charge

LEMMA RetryBare ==
  ASSUME TypeInv, RegionInv, NEW t \in Threads, Retry(t), th[t].pc \in Bare,
         UNCHANGED <<table, free, lock>>
  PROVE  RegionInv'
<1> DEFINE r == [Idle EXCEPT !.pc = "overflow", !.size = th[t].size, !.try = 3]
<1>1. r.pc = "overflow" /\ r.pc \in Bare
  BY DEF Idle, Bare, Pcs
<1> QED BY <1>1, BareFrame DEF Retry

LEMMA EvictDoneRegion ==
  ASSUME TypeInv, RegionInv, NEW t \in Threads, EvictDone(t) PROVE RegionInv'
<1>1. th[t] \in Thread /\ th[t].pc \in Bare
  BY CallType DEF Calls, EvictDone, At, Bare, Pcs
<1>2. CASE th[t].freed < Target(t)
  <2> DEFINE r == [th[t] EXCEPT !.pc = "flush", !.todo = {}, !.freed = 0, !.batch = {}]
  <2>1. r.pc = "flush" /\ r.pc \in Bare
    BY <1>1 DEF Thread, Bare, Pcs
  <2>2. th' = [th EXCEPT ![t] = r]
    BY <1>2 DEF EvictDone
  <2> QED BY <1>1, <2>1, <2>2, BareFrame DEF EvictDone
<1>3. CASE ~(th[t].freed < Target(t))
  BY <1>1, <1>3, RetryBare DEF EvictDone
<1> QED BY <1>2, <1>3

LEMMA FreeRegion ==
  ASSUME TypeInv, RegionInv, NEW t \in Threads, NEW p \in Ptrs, Free(t, p) PROVE RegionInv'
<1>1. th[t].pc \in Bare
  BY DEF Free, At, Bare, Pcs
<1>2. CASE InBvmm(p)
  <2> DEFINE r == [Idle EXCEPT !.pc = "unmap", !.ptr = p, !.size = bvmm[p]]
  <2>1. r.pc = "unmap" /\ r.pc \in Bare
    BY DEF Idle, Bare, Pcs
  <2>2. th' = [th EXCEPT ![t] = r]
    BY <1>2 DEF Free
  <2> QED BY <1>1, <2>1, <2>2, BareFrame DEF Free
<1>3. CASE ~InBvmm(p)
  <2> DEFINE r == [Idle EXCEPT !.pc = "remove", !.ptr = p]
  <2>1. r.pc = "remove" /\ r.pc \in Bare
    BY DEF Idle, Bare, Pcs
  <2>2. th' = [th EXCEPT ![t] = r]
    BY <1>3 DEF Free
  <2> QED BY <1>1, <2>1, <2>2, BareFrame DEF Free
<1> QED BY <1>2, <1>3

LEMMA SetFlagsRegion ==
  ASSUME TypeInv, RegionInv, NEW t \in Threads, SetFlags(t) PROVE RegionInv'
<1>1. th[t] \in Thread /\ th[t].ptr \in Ptrs /\ th[t].pc \in Bare
  BY CallType DEF Calls, SetFlags, At, Bare, Pcs, WithPtr
<1> DEFINE s == Here(t)
           found == table[s].ptr = th[t].ptr
           last == found \/ table[s].ptr = Empty \/ th[t].i + 1 = HtSize
<1>2. s \in Slots
  BY <1>1, HereType
<1>3. PICK kv \in BOOLEAN : table' = IF found THEN [table EXCEPT ![s].kv = kv] ELSE table
  BY DEF SetFlags
<1>4. \A x \in Slots : table'[x].ptr = table[x].ptr /\ table'[x].size = table[x].size
  BY <1>2, <1>3 DEF TypeInv, Slot
<1>5. CASE last /\ th[t].ptr \in Dev
  BY <1>1, <1>4, <1>5, RestBare DEF SetFlags, Return
<1>6. CASE last /\ th[t].ptr \notin Dev
  <2> DEFINE r == [th[t] EXCEPT !.pc = "count", !.i = 0]
  <2>1. r.pc = "count" /\ r.pc \in Bare
    BY <1>1 DEF Thread, Bare, Pcs
  <2>2. th' = [th EXCEPT ![t] = r]
    BY <1>6 DEF SetFlags
  <2> QED BY <1>1, <1>4, <2>1, <2>2, BareFrame DEF SetFlags
<1>7. CASE ~last
  <2> DEFINE r == [th[t] EXCEPT !.i = th[t].i + 1]
  <2>1. r.pc = th[t].pc
    BY <1>1 DEF Thread
  <2>2. th' = [th EXCEPT ![t] = r]
    BY <1>7 DEF SetFlags
  <2> QED BY <1>1, <1>4, <2>1, <2>2, BareFrame DEF SetFlags
<1> QED BY <1>5, <1>6, <1>7

\* A call gets pages of the pool.
LEMMA AllocPoolRegion ==
  ASSUME TypeInv, RegionInv, NEW t \in Threads, AllocPool(t) PROVE RegionInv'
<1>1. th[t] \in Thread /\ th[t].pc \in Bare /\ th[t].size \in Nat \ {0}
  BY CallType, ShimConstants DEF Calls, AllocPool, At, Bare, Pcs, WithSize
<1>2. CASE Serving(free, th[t].size) = {}
  BY <1>1, <1>2, ToBare DEF AllocPool, Bare, Pcs
<1>3. CASE Serving(free, th[t].size) # {}
  <2> DEFINE p == Chosen(free, th[t].size).seg.off
             r == [th[t] EXCEPT !.pc = "insert", !.ptr = p]
             C == [CallHas EXCEPT ![t] = Units(Segment(p, th[t].size))]
  <2>1. th' = [th EXCEPT ![t] = r] /\ free' = PoolAlloc(free, th[t].size)
    BY <1>3 DEF AllocPool
  <2>2. CallHas[t] = {}
    BY <1>1, HasAt DEF InHand, Bare
  <2>3. p \in Pool /\ Shared(free', EntryHas, C)
    BY <1>1, <1>3, <2>1, <2>2, Takes DEF RegionInv
  <2> HIDE DEF p
  <2>4. th'[t] = r /\ \A v \in Threads : v # t => th'[v] = th[v]
    BY <2>1 DEF TypeInv
  <2>5. r.pc = "insert" /\ r.ptr = p /\ r.size = th[t].size
    BY <1>1 DEF Thread
  <2>6. EntryHas' = EntryHas
    BY <1>1, <2>4, <2>5, EntriesFrame DEF Busy, Bare, AllocPool
  <2>7. CallHas' = C
    <3>1. Units(Segment(p, th[t].size)) \in SUBSET Pool
      BY <2>3 DEF Shared, FreeOf, RegionInv
    <3>2. Units(Segment(p, th[t].size)) = IF InHand(t)' THEN Region(th'[t].ptr, th'[t].size) ELSE {}
      BY <2>3, <2>4, <2>5 DEF InHand, Region
    <3> QED BY <2>4, <3>1, <3>2, CallChange
  <2>8. LocksOwned'
    BY <2>4, <2>5, LocksFrame DEF Busy, AllocPool
  <2> QED BY <2>3, <2>6, <2>7, <2>8 DEF RegionInv
<1> QED BY <1>2, <1>3

\* A call gives its pages back: TableFull and Release, to whatever stage the call goes.
LEMMA GivenBack ==
  ASSUME TypeInv, RegionInv, NEW t \in Threads, InHand(t), NEW r, th' = [th EXCEPT ![t] = r],
         r.pc \in Bare, UNCHANGED <<table, lock>>,
         free' = IF th[t].ptr \in Pool THEN PoolFree(free, th[t].ptr, th[t].size) ELSE free
  PROVE  RegionInv'
<1>1. th'[t] = r /\ \A v \in Threads : v # t => th'[v] = th[v]
  BY DEF TypeInv
<1>2. ~Busy(t) /\ ~Busy(t)' /\ ~InHand(t)'
  BY <1>1 DEF Busy, InHand, Bare
<1>3. th[t].size \in Nat \ {0}
  BY CallType, ShimConstants DEF InHand, WithSize, Pcs
<1>4. EntryHas' = EntryHas
  BY <1>1, <1>2, EntriesFrame
<1>5. CallHas' = [CallHas EXCEPT ![t] = {}]
  BY <1>1, <1>2, CallChange
<1>6. LocksOwned'
  BY <1>1, <1>2, LocksFrame
<1>7. Shared(free', EntryHas, [CallHas EXCEPT ![t] = {}])
  <2>1. CASE th[t].ptr \in Pool
    <3>1. CallHas[t] = Units(Segment(th[t].ptr, th[t].size)) /\ th[t].ptr \in Nat
      BY <2>1, HasAt DEF Region, Pool
    <3> QED BY <1>3, <2>1, <3>1, CallGives DEF RegionInv
  <2>2. CASE th[t].ptr \notin Pool
    <3>1. CallHas[t] = {}
      BY <2>2, HasAt DEF Region
    <3>2. [CallHas EXCEPT ![t] = {}] = CallHas
      BY <3>1 DEF RegionInv, Shared, FreeOf
    <3> QED BY <2>2, <3>2 DEF RegionInv
  <2> QED BY <2>1, <2>2
<1> QED BY <1>4, <1>5, <1>6, <1>7 DEF RegionInv

LEMMA TableFullRegion ==
  ASSUME TypeInv, RegionInv, NEW t \in Threads, TableFull(t) PROVE RegionInv'
<1>1. th[t] \in Thread /\ InHand(t)
  BY CallType DEF Calls, TableFull, At, InHand
<1>2. CASE th[t].ptr \in Dev
  BY <1>1, <1>2, IdleBare, GivenBack DEF TableFull, Rest
<1>3. CASE th[t].ptr \notin Dev
  <2> DEFINE r == [th[t] EXCEPT !.pc = "failed", !.ptr = Empty]
  <2>1. r.pc = "failed" /\ r.pc \in Bare
    BY <1>1 DEF Thread, Bare, Pcs
  <2>2. th' = [th EXCEPT ![t] = r]
    BY <1>3 DEF TableFull
  <2> QED BY <1>1, <2>1, <2>2, GivenBack DEF TableFull
<1> QED BY <1>2, <1>3

LEMMA ReleaseRegion ==
  ASSUME TypeInv, RegionInv, NEW t \in Threads, Release(t) PROVE RegionInv'
<1>1. th[t] \in Thread /\ InHand(t)
  BY CallType DEF Calls, Release, At, InHand
<1>2. CASE th[t].ptr \in Dev
  BY <1>1, <1>2, IdleBare, GivenBack DEF Release, Rest
<1>3. CASE th[t].ptr \notin Dev
  <2> DEFINE r == [th[t] EXCEPT !.pc = "uncount"]
  <2>1. r.pc = "uncount" /\ r.pc \in Bare
    BY <1>1 DEF Thread, Bare, Pcs
  <2>2. th' = [th EXCEPT ![t] = r]
    BY <1>3 DEF Release, To
  <2> QED BY <1>1, <2>1, <2>2, GivenBack DEF Release
<1> QED BY <1>2, <1>3

\* The pages of a call become those of the entry it makes.
LEMMA HtInsertRegion ==
  ASSUME TypeInv, RegionInv, NEW t \in Threads, HtInsert(t) PROVE RegionInv'
<1>1. /\ th[t] \in Thread /\ th[t].pc = "insert" /\ th[t].ptr \in Ptrs /\ th[t].size \in Sizes
      /\ InHand(t) /\ ~Busy(t)
  BY CallType DEF HtInsert, At, WithPtr, WithSize, Pcs, Calls, InHand, Busy
<1> DEFINE s == Here(t)
<1>2. s \in Slots
  BY <1>1, HereType
<1>3. ~Doomed(s) /\ (s \in Entries <=> Live(s))
  BY <1>2, UnlockedKept DEF HtInsert
<1>4. CASE Live(s)
  <2>1. table' = table /\ OnOr(t, "full")
    BY <1>4 DEF HtInsert
  <2>2. CASE th[t].i + 1 = HtSize
    <3> DEFINE r == [th[t] EXCEPT !.pc = "full", !.i = 0]
    <3>1. r.pc = "full" /\ r.ptr = th[t].ptr /\ r.size = th[t].size
      BY <1>1 DEF Thread
    <3>2. th' = [th EXCEPT ![t] = r]
      BY <2>1, <2>2 DEF OnOr
    <3> QED BY <1>1, <2>1, <3>1, <3>2, StepFrame DEF HtInsert, InHand
  <2>3. CASE th[t].i + 1 # HtSize
    <3> DEFINE r == [th[t] EXCEPT !.i = th[t].i + 1]
    <3>1. r.pc = "insert" /\ r.ptr = th[t].ptr /\ r.size = th[t].size
      BY <1>1 DEF Thread
    <3>2. th' = [th EXCEPT ![t] = r]
      BY <2>1, <2>3 DEF OnOr
    <3> QED BY <1>1, <2>1, <3>1, <3>2, StepFrame DEF HtInsert, InHand
  <2> QED BY <2>2, <2>3
<1>5. CASE ~Live(s)
  <2>1. /\ table' = [table EXCEPT ![s].ptr = th[t].ptr, ![s].size = th[t].size]
        /\ free' = free /\ lock' = lock
    BY <1>5 DEF HtInsert
  <2> HIDE DEF s
  <2>2. /\ table'[s].ptr = th[t].ptr /\ table'[s].size = th[t].size
        /\ \A r \in Slots : r # s => table'[r] = table[r]
    BY <1>2, <2>1 DEF TypeInv, Slot
  <2>3. PICK r : th' = [th EXCEPT ![t] = r] /\ r.pc \in Bare
    <3>1. CASE th' = [th EXCEPT ![t].pc = "flags", ![t].i = 0]
      <4> DEFINE r == [th[t] EXCEPT !.pc = "flags", !.i = 0]
      <4>1. r.pc = "flags" /\ r.pc \in Bare
        BY <1>1 DEF Thread, Bare, Pcs
      <4> QED BY <3>1, <4>1
    <3>2. CASE Rest(t)
      BY <3>2, IdleBare DEF Rest
    <3> QED BY <1>5, <3>1, <3>2 DEF HtInsert, Return, s
  <2>4. th'[t] = r /\ \A v \in Threads : v # t => th'[v] = th[v]
    BY <2>3 DEF TypeInv
  <2>5. ~Busy(t)' /\ ~InHand(t)'
    BY <2>3, <2>4 DEF Bare, Busy, InHand
  <2>6. \A x \in Slots : Doomed(x)' <=> Doomed(x)
    BY <1>1, <2>4, <2>5 DEF Doomed, Busy
  <2>7. s \in Entries'
    BY <1>1, <1>2, <1>3, <2>2, <2>6, ShimConstants DEF Entries, Live
  <2>8. EntryHas' = [EntryHas EXCEPT ![s] = CallHas[t]]
    <3>1. CallHas[t] = Region(th[t].ptr, th[t].size) /\ CallHas[t] \in SUBSET Pool
      BY <1>1, HasAt DEF RegionInv, Shared, FreeOf
    <3> QED BY <1>2, <2>2, <2>6, <2>7, <3>1, EntryChange
  <2>9. CallHas' = [CallHas EXCEPT ![t] = {}]
    BY <2>4, <2>5, CallChange
  <2>10. EntryHas[s] = {}
    BY <1>2, <1>3, <1>5, HasAt DEF s
  <2>11. Shared(free', [EntryHas EXCEPT ![s] = CallHas[t]], [CallHas EXCEPT ![t] = {}])
    BY <1>2, <2>1, <2>10, CallEnters DEF RegionInv
  <2>12. LocksOwned'
    BY <2>1, <2>4, <2>5, LocksFrame
  <2> QED BY <2>8, <2>9, <2>11, <2>12 DEF RegionInv
<1> QED BY <1>4, <1>5

\* The pages of an entry become those of the call that takes it out of the table.
LEMMA HtRemoveRegion ==
  ASSUME TypeInv, RegionInv, NEW t \in Threads, HtRemove(t) PROVE RegionInv'
<1>1. /\ th[t] \in Thread /\ th[t].pc = "remove" /\ th[t].ptr \in Ptrs
      /\ ~InHand(t) /\ ~Busy(t) /\ th[t].pc \in Bare
  BY CallType DEF HtRemove, At, WithPtr, Pcs, Calls, InHand, Busy, Bare
<1> DEFINE s == Here(t)
<1>2. s \in Slots
  BY <1>1, HereType
<1>3. ~Doomed(s) /\ (s \in Entries <=> Live(s))
  BY <1>2, UnlockedKept DEF HtRemove
<1>4. CASE table[s].ptr # th[t].ptr
  <2>1. table' = table
    BY <1>4 DEF HtRemove
  <2>2. PICK r : th' = [th EXCEPT ![t] = r] /\ r.pc \in Bare
    <3>1. CASE th' = [th EXCEPT ![t].pc = "realfree", ![t].i = 0]
      <4> DEFINE r == [th[t] EXCEPT !.pc = "realfree", !.i = 0]
      <4>1. r.pc = "realfree" /\ r.pc \in Bare
        BY <1>1 DEF Thread, Bare, Pcs
      <4> QED BY <3>1, <4>1
    <3>2. CASE th' = [th EXCEPT ![t].i = th[t].i + 1]
      <4> DEFINE r == [th[t] EXCEPT !.i = th[t].i + 1]
      <4>1. r.pc = "remove" /\ r.pc \in Bare
        BY <1>1 DEF Thread
      <4> QED BY <3>2, <4>1
    <3> QED BY <1>4, <3>1, <3>2 DEF HtRemove, OnOr
  <2> QED BY <1>1, <2>1, <2>2, BareFrame DEF HtRemove
<1>5. CASE table[s].ptr = th[t].ptr
  <2> DEFINE r == [th[t] EXCEPT !.pc = "release", !.i = 0, !.size = table[s].size]
  <2>1. /\ table' = [table EXCEPT ![s].ptr = Tombstone, ![s].size = 0]
        /\ free' = free /\ lock' = lock /\ th' = [th EXCEPT ![t] = r]
    BY <1>5 DEF HtRemove, Removed
  <2>2. Live(s) /\ s \in Entries
    BY <1>1, <1>3, <1>5, ShimConstants DEF Live
  <2>3. r.pc = "release" /\ r.ptr = th[t].ptr /\ r.size = table[s].size
    BY <1>1 DEF Thread
  <2>4. /\ table'[s].ptr = Tombstone
        /\ \A x \in Slots : x # s => table'[x] = table[x]
    BY <1>2, <2>1 DEF TypeInv, Slot
  <2> HIDE DEF s, r
  <2>5. th'[t] = r /\ \A v \in Threads : v # t => th'[v] = th[v]
    BY <2>1 DEF TypeInv
  <2>6. ~Busy(t)' /\ InHand(t)'
    BY <2>3, <2>5 DEF Busy, InHand
  <2>7. \A x \in Slots : Doomed(x)' <=> Doomed(x)
    BY <1>1, <2>5, <2>6 DEF Doomed, Busy
  <2>8. EntryHas' = [EntryHas EXCEPT ![s] = {}]
    <3>1. s \notin Entries'
      BY <2>4 DEF Entries, Live
    <3> QED BY <1>2, <2>4, <2>7, <3>1, EntryChange
  <2>9. CallHas' = [CallHas EXCEPT ![t] = EntryHas[s]]
    <3>1. EntryHas[s] = Region(table[s].ptr, table[s].size) /\ EntryHas[s] \in SUBSET Pool
      BY <1>2, <2>2, HasAt DEF RegionInv, Shared, FreeOf
    <3>2. EntryHas[s] = Region(th'[t].ptr, th'[t].size)
      BY <1>5, <2>3, <2>5, <3>1 DEF s
    <3> QED BY <2>5, <2>6, <3>1, <3>2, CallChange
  <2>10. CallHas[t] = {}
    BY <1>1, HasAt
  <2>11. Shared(free', [EntryHas EXCEPT ![s] = {}], [CallHas EXCEPT ![t] = EntryHas[s]])
    BY <1>2, <2>1, <2>10, EntryLeaves DEF RegionInv
  <2>12. LocksOwned'
    BY <2>1, <2>5, <2>6, LocksFrame
  <2> QED BY <2>8, <2>9, <2>11, <2>12 DEF RegionInv
<1> QED BY <1>4, <1>5

\* A thread that evicts an entry gives its pages back, under the lock of its slot.
LEMMA GiveBackRegion ==
  ASSUME TypeInv, RegionInv, NEW t \in Threads, th[t].pc \in Bare, NEW s \in Slots,
         Unlocked(s), Live(s), GiveBack(t, s), table' = table,
         NEW r, th' = [th EXCEPT ![t] = r], r.pc \in {"evicted", "flushed"}, r.i = s
  PROVE  RegionInv'
<1>1. th'[t] = r /\ \A v \in Threads : v # t => th'[v] = th[v]
  BY DEF TypeInv
<1>2. ~Busy(t) /\ Busy(t)' /\ ~InHand(t) /\ ~InHand(t)'
  BY <1>1 DEF Busy, InHand, Bare
<1>3. ~Doomed(s) /\ s \in Entries
  BY UnlockedKept
<1>4. EntryHas[s] = Region(table[s].ptr, table[s].size) /\ table[s].size \in Nat \ {0}
  BY <1>3, HasAt, ShimConstants DEF TypeInv
<1>5. EntryHas' = [EntryHas EXCEPT ![s] = {}]
  <2>1. Doomed(s)'
    BY <1>1, <1>2 DEF Doomed, Busy
  <2>2. \A x \in Slots : x # s => (Doomed(x)' <=> Doomed(x))
    BY <1>1, <1>2 DEF Doomed, Busy
  <2>3. s \notin Entries'
    BY <2>1 DEF Entries
  <2> QED BY <2>2, <2>3, EntryChange
<1>6. CallHas' = CallHas
  <2>1. CallHas[t] = {} /\ [CallHas EXCEPT ![t] = {}] = CallHas
    BY <1>2, HasAt DEF RegionInv, Shared, FreeOf
  <2> QED BY <1>1, <1>2, <2>1, CallChange
<1>7. Shared(free', [EntryHas EXCEPT ![s] = {}], CallHas)
  <2>1. CASE table[s].ptr \in Pool
    <3>1. EntryHas[s] = Units(Segment(table[s].ptr, table[s].size)) /\ table[s].ptr \in Nat
      BY <1>4, <2>1 DEF Region, Pool
    <3>2. free' = PoolFree(free, table[s].ptr, table[s].size)
      BY <2>1 DEF GiveBack
    <3> QED BY <1>4, <3>1, <3>2, EntryGives DEF RegionInv
  <2>2. CASE table[s].ptr \notin Pool
    <3>1. EntryHas[s] = {} /\ [EntryHas EXCEPT ![s] = {}] = EntryHas
      BY <1>4, <2>2 DEF Region, RegionInv, Shared, FreeOf
    <3>2. free' = free
      BY <2>2 DEF GiveBack
    <3> QED BY <3>1, <3>2 DEF RegionInv
  <2> QED BY <2>1, <2>2
<1>8. LocksOwned'
  <2>1. lock' = [lock EXCEPT ![LockOf(s)] = t] /\ LockOf(s) \in Locks /\ lock[LockOf(s)] = NoThread
    BY LockType DEF GiveBack, Unlocked
  <2>2. lock'[LockOf(s)] = t /\ \A l \in Locks : l # LockOf(s) => lock'[l] = lock[l]
    BY <2>1 DEF TypeInv
  <2>3. ASSUME NEW v \in Threads, Busy(v)' PROVE lock'[LockOf(th'[v].i)] = v
    <3>1. CASE v = t
      BY <1>1, <2>2, <3>1
    <3>2. CASE v # t
      <4>1. Busy(v) /\ th'[v] = th[v] /\ lock[LockOf(th[v].i)] = v
        BY <1>1, <2>3, <3>2 DEF Busy, RegionInv, LocksOwned
      <4>2. LockOf(th[v].i) # LockOf(s) /\ LockOf(th[v].i) \in Locks
        BY <2>1, <4>1, CallType, LockType, ShimConstants
      <4> QED BY <2>2, <4>1, <4>2
    <3> QED BY <3>1, <3>2
  <2> QED BY <2>3 DEF LocksOwned
<1> QED BY <1>5, <1>6, <1>7, <1>8 DEF RegionInv

\* Then the entry is buried, and the lock is given back.
LEMMA BuryRegion ==
  ASSUME TypeInv, RegionInv, NEW t \in Threads, Busy(t), Bury(th[t].i), free' = free,
         NEW r, th' = [th EXCEPT ![t] = r], r.pc \in Bare
  PROVE  RegionInv'
<1> DEFINE s == th[t].i
<1>1. th'[t] = r /\ \A v \in Threads : v # t => th'[v] = th[v]
  BY DEF TypeInv
<1>2. ~Busy(t)' /\ ~InHand(t) /\ ~InHand(t)'
  BY <1>1 DEF Busy, InHand, Bare
<1>3. s \in Slots /\ LockOf(s) \in Locks
  BY CallType, LockType
<1>4. /\ table'[s].ptr = Tombstone /\ \A x \in Slots : x # s => table'[x] = table[x]
  BY <1>3 DEF Bury, TypeInv, Slot
<1>5. EntryHas' = EntryHas
  <2>1. \A x \in Slots : x # s => (Doomed(x)' <=> Doomed(x))
    BY <1>1, <1>2 DEF Doomed, Busy
  <2>2. s \notin Entries' /\ s \notin Entries
    BY <1>4 DEF Entries, Live, Doomed, Busy
  <2>3. EntryHas[s] = {} /\ [EntryHas EXCEPT ![s] = {}] = EntryHas
    BY <1>3, <2>2, HasAt DEF RegionInv, Shared, FreeOf
  <2> HIDE DEF s
  <2> QED BY <1>3, <1>4, <2>1, <2>2, <2>3, EntryChange
<1>6. CallHas' = CallHas
  <2>1. CallHas[t] = {} /\ [CallHas EXCEPT ![t] = {}] = CallHas
    BY <1>2, HasAt DEF RegionInv, Shared, FreeOf
  <2> QED BY <1>1, <1>2, <2>1, CallChange
<1>7. LocksOwned'
  <2>1. lock[LockOf(s)] = t /\ lock' = [lock EXCEPT ![LockOf(s)] = NoThread]
    BY DEF RegionInv, LocksOwned, Bury
  <2>2. \A l \in Locks : l # LockOf(s) => lock'[l] = lock[l]
    BY <1>3, <2>1 DEF TypeInv
  <2>3. ASSUME NEW v \in Threads, Busy(v)' PROVE lock'[LockOf(th'[v].i)] = v
    <3>1. v # t /\ Busy(v) /\ th'[v] = th[v] /\ lock[LockOf(th[v].i)] = v
      BY <1>1, <1>2, <2>3 DEF Busy, RegionInv, LocksOwned
    <3>2. LockOf(th[v].i) # LockOf(s) /\ LockOf(th[v].i) \in Locks
      BY <2>1, <3>1, CallType, LockType
    <3> QED BY <2>2, <3>1, <3>2
  <2> QED BY <2>3 DEF LocksOwned
<1> QED BY <1>5, <1>6, <1>7 DEF RegionInv

LEMMA EvictRegion ==
  ASSUME TypeInv, RegionInv, NEW t \in Threads, Evict(t) PROVE RegionInv'
<1>1. th[t] \in Thread /\ th[t].pc = "evict" /\ th[t].pc \in Bare /\ th[t].todo \subseteq Slots
  BY CallType DEF Evict, Evicting, At, Pcs, Calls, Bare
<1>2. PICK s \in th[t].todo :
        /\ Unlocked(s)
        /\ IF Victim(s)
           THEN /\ GiveBack(t, s)
                /\ th' = [th EXCEPT ![t].pc = "evicted", ![t].i = s, ![t].todo = @ \ {s},
                     ![t].batch = IF table[s].ptr \in Pool
                                  THEN @ \cup {Segment(table[s].ptr, table[s].size)} ELSE @]
           ELSE th' = [th EXCEPT ![t].todo = @ \ {s}] /\ UNCHANGED <<lock, free, real>>
  BY DEF Evict
<1>3. s \in Slots
  BY <1>1
<1>4. CASE Victim(s)
  <2> DEFINE batch == IF table[s].ptr \in Pool
                      THEN th[t].batch \cup {Segment(table[s].ptr, table[s].size)} ELSE th[t].batch
             r == [th[t] EXCEPT !.pc = "evicted", !.i = s, !.todo = th[t].todo \ {s}, !.batch = batch]
  <2>1. th' = [th EXCEPT ![t] = r]
    BY <1>2, <1>4
  <2> HIDE DEF batch
  <2>2. r.pc = "evicted" /\ r.i = s
    BY <1>1 DEF Thread
  <2>3. Live(s) /\ table' = table
    BY <1>4 DEF Victim, Evict
  <2> QED BY <1>1, <1>2, <1>3, <1>4, <2>1, <2>2, <2>3, GiveBackRegion
<1>5. CASE ~Victim(s)
  <2> DEFINE r == [th[t] EXCEPT !.todo = th[t].todo \ {s}]
  <2>1. r.pc = "evict" /\ r.pc \in Bare
    BY <1>1 DEF Thread
  <2>2. th' = [th EXCEPT ![t] = r] /\ UNCHANGED <<table, lock, free>>
    BY <1>2, <1>5 DEF Evict
  <2> QED BY <1>1, <2>1, <2>2, BareFrame
<1> QED BY <1>4, <1>5

LEMMA EvictedRegion ==
  ASSUME TypeInv, RegionInv, NEW t \in Threads, Evicted(t) PROVE RegionInv'
<1> DEFINE n == table[th[t].i].size
           r == [th[t] EXCEPT !.pc = "charge", !.i = 0, !.freed = th[t].freed + n, !.due = n]
<1>1. th[t] \in Thread /\ Busy(t)
  BY CallType DEF Evicted, At, Calls, Busy
<1>2. th' = [th EXCEPT ![t] = r]
  BY DEF Evicted
<1> HIDE DEF n
<1>3. r.pc = "charge" /\ r.pc \in Bare
  BY <1>1 DEF Thread, Bare, Pcs
<1> QED BY <1>1, <1>2, <1>3, BuryRegion DEF Evicted

\* The walk of a flush goes on.
LEMMA FlushOnBare ==
  ASSUME TypeInv, NEW t \in Threads, FlushOn(t)
  PROVE  \E r : th' = [th EXCEPT ![t] = r] /\ r.pc \in Bare
<1>1. CASE th[t].i + 1 = HtSize
  <2> DEFINE r == [Idle EXCEPT !.pc = "overflow", !.size = th[t].size, !.try = 3]
  <2>1. r.pc = "overflow" /\ r.pc \in Bare
    BY DEF Idle, Bare, Pcs
  <2>2. th' = [th EXCEPT ![t] = r]
    BY <1>1 DEF FlushOn, Retry
  <2> QED BY <2>1, <2>2
<1>2. CASE th[t].i + 1 # HtSize
  <2> DEFINE r == [th[t] EXCEPT !.pc = "flush", !.i = th[t].i + 1]
  <2>1. th[t] \in Thread
    BY CallType DEF Calls
  <2>2. r.pc = "flush" /\ r.pc \in Bare
    BY <2>1 DEF Thread, Bare, Pcs
  <2>3. th' = [th EXCEPT ![t] = r]
    BY <1>2 DEF FlushOn
  <2> QED BY <2>2, <2>3
<1> QED BY <1>1, <1>2

LEMMA FlushRegion ==
  ASSUME TypeInv, RegionInv, NEW t \in Threads, Flush(t) PROVE RegionInv'
<1> DEFINE s == th[t].i
<1>1. th[t] \in Thread /\ th[t].pc \in Bare /\ s \in Slots
  BY CallType DEF Flush, At, Calls, Bare, Pcs
<1>2. CASE Live(s) /\ ~table[s].kv
  <2> DEFINE r == [th[t] EXCEPT !.pc = "flushed"]
  <2>1. r.pc = "flushed" /\ r.i = s
    BY <1>1 DEF Thread
  <2>2. th' = [th EXCEPT ![t] = r] /\ GiveBack(t, s) /\ table' = table /\ Unlocked(s)
    BY <1>2 DEF Flush, To
  <2> HIDE DEF s
  <2> QED BY <1>1, <1>2, <2>1, <2>2, GiveBackRegion
<1>3. CASE ~(Live(s) /\ ~table[s].kv)
  <2>1. FlushOn(t) /\ UNCHANGED <<table, lock, free>>
    BY <1>3 DEF Flush
  <2>2. PICK r : th' = [th EXCEPT ![t] = r] /\ r.pc \in Bare
    BY <2>1, FlushOnBare
  <2> QED BY <1>1, <2>1, <2>2, BareFrame
<1> QED BY <1>2, <1>3

LEMMA FlushedRegion ==
  ASSUME TypeInv, RegionInv, NEW t \in Threads, Flushed(t) PROVE RegionInv'
<1>1. PICK r : th' = [th EXCEPT ![t] = r] /\ r.pc \in Bare
  BY FlushOnBare DEF Flushed
<1>2. Busy(t)
  BY DEF Flushed, At, Busy
<1> QED BY <1>1, <1>2, BuryRegion DEF Flushed

LEMMA RegionStep ==
  ASSUME TypeInv, RegionInv, NEW t \in Threads, MallocStep(t) \/ ReclaimStep(t) \/ FreeStep(t)
  PROVE  RegionInv'
<1>1. CASE MallocStep(t)
  BY <1>1, MallocOnCardRegion, MallocOverflowRegion, OverflowRegion, AllocPoolRegion,
     AllocPinnedRegion, PathBRegion, AllocHostRegRegion, ReserveBlackwellRegion,
     AllocZeroCopyRegion, ReleaseReservedRegion, HtInsertRegion, TableFullRegion,
     SetFlagsRegion, CountT2Region, FailedRegion DEF MallocStep
<1>2. CASE ReclaimStep(t)
  BY <1>2, OomRegion, ScanRegion, EvictRegion, EvictedRegion, ChargeRegion, EvictDoneRegion,
     FlushRegion, FlushedRegion DEF ReclaimStep
<1>3. CASE FreeStep(t)
  BY <1>3, FreeRegion, UnmapRegion, HtRemoveRegion, ReleaseRegion, UncountRegion,
     RealFreeRegion DEF FreeStep
<1> QED BY <1>1, <1>2, <1>3

LEMMA RegionInit == ASSUME Init PROVE RegionInv
<1>1. \A t \in Threads : th[t].pc = "idle"
  BY DEF Init, Idle
<1>2. \A s \in Slots : s \notin Entries
  BY DEF Init, Entries, Live
<1>3. EntryHas = [s \in Slots |-> {}]
  BY <1>2 DEF EntryHas
<1>4. CallHas = [t \in Threads |-> {}]
  BY <1>1 DEF CallHas, InHand
<1>5. ListsOK(free) /\ FreeUnits(free) = Pool
  BY PoolInitOK DEF Init
<1>6. FreeOf(free, EntryHas, CallHas)
  BY <1>3, <1>4 DEF FreeOf
<1>7. OneOwner(EntryHas, CallHas)
  BY <1>3, <1>4 DEF OneOwner
<1>8. Covered(free, EntryHas, CallHas)
  BY <1>5 DEF Covered
<1>9. LocksOwned
  BY <1>1 DEF LocksOwned, Busy
<1> QED BY <1>5, <1>6, <1>7, <1>8, <1>9 DEF RegionInv, Shared

-----------------------------------------------------------------------------
(* The theorems about the pool. *)

LEMMA AtMostOne ==
  ASSUME NEW S, \A x, y \in S : x = y
  PROVE  Cardinality(S) = IF S = {} THEN 0 ELSE 1
<1>1. CASE S = {}
  BY <1>1, FS_EmptySet
<1>2. CASE S # {}
  <2>1. PICK x \in S : TRUE
    BY <1>2
  <2>2. S = {x}
    BY <2>1
  <2> QED BY <1>2, <2>2, FS_Singleton
<1> QED BY <1>1, <1>2

\* The owners that RegionsExact counts are the free lists, the entries and the calls.
LEMMA RegionsCounted == ASSUME RegionInv PROVE RegionsExact
<1> SUFFICES ASSUME NEW u \in Pool
             PROVE  Owners(u) <= 1 /\ (PoolUnits <= ClassMax[3] => Owners(u) = 1)
  BY DEF RegionsExact
<1> DEFINE F == {s \in UNION {free[c] : c \in Classes} : u \in Units(s)}
           E == {s \in Entries : table[s].ptr \in Pool
                                   /\ u \in Units(Segment(table[s].ptr, table[s].size))}
           C == {t \in Threads : InHand(t) /\ th[t].ptr \in Pool
                                   /\ u \in Units(Segment(th[t].ptr, th[t].size))}
<1>1. Owners(u) = Cardinality(F) + Cardinality(E) + Cardinality(C)
  BY DEF Owners
<1>2. F # {} <=> u \in FreeUnits(free)
  BY FreeUnitsOf
<1>3. E = {s \in Slots : u \in EntryHas[s]}
  BY HasAt DEF Region, Entries
<1>4. C = {t \in Threads : u \in CallHas[t]}
  BY HasAt DEF Region
<1>5. \A x, y \in F : x = y
  BY OneSegment DEF RegionInv, Shared
<1> HIDE DEF F, E, C
<1>6. \A x, y \in E : x = y
  BY <1>3 DEF RegionInv, Shared, OneOwner
<1>7. \A x, y \in C : x = y
  BY <1>4 DEF RegionInv, Shared, OneOwner
<1>8. (F = {} \/ E = {}) /\ (F = {} \/ C = {}) /\ (E = {} \/ C = {})
  BY <1>2, <1>3, <1>4 DEF RegionInv, Shared, FreeOf, OneOwner
<1>9. PoolUnits <= ClassMax[3] => F # {} \/ E # {} \/ C # {}
  BY <1>2, <1>3, <1>4 DEF RegionInv, Shared, Covered
<1>10. /\ Cardinality(F) = IF F = {} THEN 0 ELSE 1
       /\ Cardinality(E) = IF E = {} THEN 0 ELSE 1
       /\ Cardinality(C) = IF C = {} THEN 0 ELSE 1
  BY <1>5, <1>6, <1>7, AtMostOne
<1> QED BY <1>1, <1>8, <1>9, <1>10

ShimInv == TypeInv /\ RegionInv

\* Every step of every thread keeps the types and the ownership of the pool's pages.
THEOREM ShimInvariance == Spec => []ShimInv
<1>1. Init => ShimInv
  BY TypeInit, RegionInit DEF ShimInv
<1>2. ShimInv /\ [Next]_vars => ShimInv'
  <2> SUFFICES ASSUME ShimInv, [Next]_vars PROVE ShimInv'
    OBVIOUS
  <2>1. ListsOK(free)
    BY DEF ShimInv, RegionInv, Shared
  <2>2. ASSUME NEW t \in Threads, MallocStep(t) \/ ReclaimStep(t) \/ FreeStep(t) PROVE ShimInv'
    BY <2>1, <2>2, TypeStep, RegionStep DEF ShimInv
  <2>3. CASE UNCHANGED vars
    <3>1. TypeInv'
      BY <2>3 DEF ShimInv, TypeInv, vars, Live
    <3>2. RegionInv'
      BY <2>3 DEF ShimInv, RegionInv, vars, EntryHas, CallHas, LocksOwned, Entries, Doomed,
         InHand, Busy, Live
    <3> QED BY <3>1, <3>2 DEF ShimInv
  <2> QED BY <2>2, <2>3 DEF Next
<1> QED BY <1>1, <1>2, PTL DEF Spec

\* The variables of the shim's tables have their types: no free list ever holds a segment
\* outside of the pool, or an empty one.
THEOREM ShimTypes == Spec => []TypeOK
<1>1. ShimInv => TypeOK
  <2> SUFFICES ASSUME ShimInv PROVE TypeOK
    OBVIOUS
  <2>1. free \in [Classes -> SUBSET [off : Pool, sz : 1 .. PoolUnits]]
    <3>1. ASSUME NEW c \in Classes, NEW s \in free[c] PROVE s \in [off : Pool, sz : 1 .. PoolUnits]
      <4>1. s \in [off : Nat, sz : Nat \ {0}] /\ s.off + s.sz <= PoolUnits
        BY DEF ShimInv, RegionInv, Shared, ListsOK, ListOK, Segs, Inside
      <4>2. s.off \in Pool /\ s.sz \in 1 .. PoolUnits
        BY <4>1, ShimConstants DEF Pool
      <4> QED BY <4>1, <4>2
    <3> QED BY <3>1 DEF ShimInv, RegionInv, Shared, ListsOK
  <2>2. ASSUME NEW t \in Threads
        PROVE  /\ th[t].pc \in Pcs /\ th[t].ptr \in Ptrs \cup {Empty}
               /\ th[t].size \in Sizes \cup {0} /\ th[t].i \in Slots /\ th[t].try \in 0 .. 3
               /\ th[t].todo \subseteq Slots /\ th[t].freed \in Nat /\ th[t].due \in Nat
               /\ th[t].batch \subseteq [off : Pool, sz : Sizes]
    BY CallType DEF ShimInv
  <2> QED BY <2>1, <2>2 DEF ShimInv, TypeInv, TypeOK
<1> QED BY <1>1, ShimInvariance, PTL

\* No page of the pool is ever in two free segments, entries or calls, and none is lost
\* if the last list has room for all: for any number of threads, any table, any pool and
\* any mix of calls with evictions and flushes of the entries under them.
THEOREM RegionsAreExact == Spec => []RegionsExact
<1>1. ShimInv => RegionsExact
  BY RegionsCounted DEF ShimInv
<1> QED BY <1>1, ShimInvariance, PTL

-----------------------------------------------------------------------------
(* Where a pointer is, as long as nothing was evicted. *)

Hand(t) == th[t].pc \in {"insert", "full", "release", "unmap"}

Enters(t) == th[t].pc \in {"flags", "count", "remove"}

HasSlot(p) == \E s \in Slots : table[s].ptr = p

Chain(p, n) == (Hash[p] + n) % HtSize

\* The stages that only a reclaim leads to, and the one of a free that found no entry.
Quiet == \A t \in Threads :
  th[t].pc \notin {"scan", "evict", "evicted", "charge", "flush", "flushed", "realfree"}

\* The stages before a probe, and after one that found no slot.
Early == {"overflow", "pool", "pinned", "pathb", "hostreg", "revert", "zerocopy", "full", "failed",
          "oom"}

Fresh == \A t \in Threads : th[t].pc \in Early => th[t].i = 0

\* A pointer is in one slot, in gb_bvmm_ht, or in the hands of one call.
OnePlace ==
  /\ \A s, r \in Slots : Live(s) /\ table[s].ptr = table[r].ptr => s = r
  /\ \A t \in Threads : Hand(t) => ~HasSlot(th[t].ptr) /\ ~InBvmm(th[t].ptr)
  /\ \A t, v \in Threads : Hand(t) /\ Hand(v) /\ th[t].ptr = th[v].ptr => t = v
  /\ \A h \in Host : InBvmm(h) => ~HasSlot(h)

\* Wherever it is, the driver has not taken it back.
FromDriver ==
  /\ \A s \in Slots : table[s].ptr \in Dev \cup Host => table[s].ptr \in real
  /\ \A t \in Threads : Hand(t) /\ th[t].ptr \in Dev \cup Host => th[t].ptr \in real
  /\ \A h \in Host : InBvmm(h) => h \in real
  /\ \A t \in Threads : th[t].pc = "unmap" => th[t].ptr \in Host

\* An entry is the program's, or of the one call that has made it or looks for it.
OneUser ==
  /\ \A p \in Ptrs : held[p] <= 1
  /\ \A p \in Ptrs : held[p] = 1 => HasSlot(p) \/ InBvmm(p)
  /\ \A h \in Host : InBvmm(h) => held[h] = 1
  /\ \A t \in Threads : Enters(t) => held[th[t].ptr] = 0 /\ HasSlot(th[t].ptr)
  /\ \A t, v \in Threads : Enters(t) /\ Enters(v) /\ th[t].ptr = th[v].ptr => t = v
  /\ \A s \in Slots : Live(s) =>
       held[table[s].ptr] = 1 \/ \E t \in Threads : Enters(t) /\ th[t].ptr = table[s].ptr

\* No slot before an entry in its chain is empty: those that its insertion passed were
\* not, and no slot becomes empty again.  A free passes no slot that has its pointer.
Probes ==
  /\ \A s \in Slots : Live(s) => Found(table[s].ptr)
  /\ \A t \in Threads : th[t].pc = "insert" =>
       \A m \in 0 .. th[t].i - 1 : table[Chain(th[t].ptr, m)].ptr # Empty
  /\ \A t \in Threads : th[t].pc = "remove" =>
       \A m \in 0 .. th[t].i - 1 : table[Chain(th[t].ptr, m)].ptr # th[t].ptr

Tidy == Quiet /\ Fresh /\ OnePlace /\ FromDriver /\ OneUser /\ Probes

TableInv == reclaims = 0 => Tidy

\* The stages of a call that has no pointer, and probes no chain.
Plain == {"idle", "overflow", "pool", "pinned", "pathb", "hostreg", "revert", "zerocopy", "failed",
          "oom", "uncount"}

LEMMA ChainType == ASSUME NEW p \in Ptrs, NEW n \in Nat PROVE Chain(p, n) \in Slots
<1>1. Hash[p] \in Nat /\ HtSize \in Nat \ {0}
  BY ShimConstants DEF Slots
<1> QED BY <1>1 DEF Chain, Slots

\* Where the pointers are is said by the pointers of the table.
LEMMA SameTable ==
  ASSUME \A s \in Slots : table'[s].ptr = table[s].ptr
  PROVE  /\ \A s \in Slots : Live(s)' <=> Live(s)
         /\ \A p : HasSlot(p)' <=> HasSlot(p)
         /\ \A p \in Ptrs : Found(p)' <=> Found(p)
         /\ \A p \in Ptrs, n \in Nat : table'[Chain(p, n)].ptr = table[Chain(p, n)].ptr
<1>1. \A p \in Ptrs, n \in Nat : table'[Chain(p, n)].ptr = table[Chain(p, n)].ptr
  BY ChainType
<1>2. \A n \in Slots : n \in Nat /\ \A m \in 0 .. n - 1 : m \in Nat
  BY DEF Slots
<1>3. \A p \in Ptrs : Found(p)' <=> Found(p)
  BY <1>1, <1>2 DEF Found, Chain
<1> QED BY <1>1, <1>3 DEF Live, HasSlot

\* A step between stages without a pointer.
LEMMA TidyFrame ==
  ASSUME TypeInv, Tidy, NEW t \in Threads, NEW r, th' = [th EXCEPT ![t] = r],
         UNCHANGED <<table, bvmm, real, held>>, th[t].pc \in Plain, r.pc \in Plain,
         r.pc \in Early => r.i = 0
  PROVE  Tidy'
<1>1. th'[t] = r /\ \A v \in Threads : v # t => th'[v] = th[v]
  BY DEF TypeInv
<1>2. ~Hand(t) /\ ~Hand(t)' /\ ~Enters(t) /\ ~Enters(t)'
  BY <1>1 DEF Hand, Enters, Plain
<1>3. Quiet'
  BY <1>1 DEF Tidy, Quiet, Plain
<1>4. Fresh'
  BY <1>1 DEF Tidy, Fresh
<1>5. OnePlace'
  BY <1>1, <1>2 DEF Tidy, OnePlace, Hand, HasSlot, InBvmm, Live
<1>6. FromDriver'
  BY <1>1, <1>2 DEF Tidy, FromDriver, Hand, InBvmm, Plain
<1>7. OneUser'
  BY <1>1, <1>2 DEF Tidy, OneUser, Enters, HasSlot, InBvmm, Live
<1>8. Probes'
  BY <1>1 DEF Tidy, Probes, Plain, Found, Live, Chain
<1> QED BY <1>3, <1>4, <1>5, <1>6, <1>7, <1>8 DEF Tidy

\* A step that changes no pointer of the table, of a thread that does not probe after it.
LEMMA ProbesFrame ==
  ASSUME TypeInv, Tidy, NEW t \in Threads, \A v \in Threads : v # t => th'[v] = th[v],
         th'[t].pc \notin {"insert", "remove"}, \A s \in Slots : table'[s].ptr = table[s].ptr
  PROVE  Probes'
<1>1. /\ \A s \in Slots : Live(s)' <=> Live(s)
      /\ \A p \in Ptrs : Found(p)' <=> Found(p)
      /\ \A p \in Ptrs, n \in Nat : table'[Chain(p, n)].ptr = table[Chain(p, n)].ptr
  BY SameTable
<1>2. ASSUME NEW s \in Slots, Live(s)' PROVE Found(table[s].ptr)'
  <2>1. Live(s) /\ table[s].ptr \in Ptrs /\ Found(table[s].ptr) /\ table'[s].ptr = table[s].ptr
    BY <1>1, <1>2 DEF Tidy, Probes, Live, TypeInv, Slot
  <2>2. Found(table[s].ptr)' <=> \E n \in Slots :
          /\ table'[(Hash[table'[s].ptr] + n) % HtSize].ptr = table'[s].ptr
          /\ \A m \in 0 .. n - 1 : table'[(Hash[table'[s].ptr] + m) % HtSize].ptr # Empty
    BY DEF Found
  <2>3. PICK p \in Ptrs : p = table[s].ptr
    BY <2>1
  <2>4. table'[s].ptr = p /\ Found(p)'
    BY <1>1, <2>1, <2>3
  <2>5. \E n \in Slots :
          /\ table'[(Hash[p] + n) % HtSize].ptr = p
          /\ \A m \in 0 .. n - 1 : table'[(Hash[p] + m) % HtSize].ptr # Empty
    BY <2>4 DEF Found
  <2> QED BY <2>2, <2>4, <2>5
<1>3. \A v \in Threads : th'[v].pc \in {"insert", "remove"} =>
        v # t /\ th'[v] = th[v] /\ th[v].ptr \in Ptrs /\ \A m \in 0 .. th[v].i - 1 : m \in Nat
  BY CallType DEF WithPtr
<1>4. ASSUME NEW v \in Threads, th'[v].pc = "insert"
      PROVE \A m \in 0 .. th'[v].i - 1 : table'[Chain(th'[v].ptr, m)].ptr # Empty
  BY <1>1, <1>3, <1>4 DEF Tidy, Probes
<1>5. ASSUME NEW v \in Threads, th'[v].pc = "remove"
      PROVE \A m \in 0 .. th'[v].i - 1 : table'[Chain(th'[v].ptr, m)].ptr # th'[v].ptr
  BY <1>1, <1>3, <1>5 DEF Tidy, Probes
<1> QED BY <1>2, <1>4, <1>5 DEF Probes, Chain

\* A call gets a pointer that nobody has.
LEMMA TidyTake ==
  ASSUME TypeInv, Tidy, NEW t \in Threads, NEW r, th' = [th EXCEPT ![t] = r],
         UNCHANGED <<table, bvmm, held>>, th[t].pc \in Plain, r.pc = "insert", r.i = 0,
         NEW p \in Ptrs, r.ptr = p, p \in Dev \cup Host => p \in real', real \subseteq real',
         ~HasSlot(p), ~InBvmm(p), \A v \in Threads : Hand(v) => th[v].ptr # p
  PROVE  Tidy'
<1>1. th'[t] = r /\ \A v \in Threads : v # t => th'[v] = th[v]
  BY DEF TypeInv
<1>2. ~Hand(t) /\ Hand(t)' /\ ~Enters(t) /\ ~Enters(t)'
  BY <1>1 DEF Hand, Enters, Plain
<1>3. Quiet'
  BY <1>1 DEF Tidy, Quiet
<1>4. Fresh'
  BY <1>1 DEF Tidy, Fresh
<1>5. OnePlace'
  BY <1>1, <1>2 DEF Tidy, OnePlace, Hand, HasSlot, InBvmm, Live
<1>6. FromDriver'
  BY <1>1, <1>2 DEF Tidy, FromDriver, Hand, InBvmm
<1>7. OneUser'
  BY <1>1, <1>2 DEF Tidy, OneUser, Enters, HasSlot, InBvmm, Live
<1>8. Probes'
  BY <1>1 DEF Tidy, Probes, Plain, Found, Live, Chain
<1> QED BY <1>3, <1>4, <1>5, <1>6, <1>7, <1>8 DEF Tidy

\* A call gives its pointer back.
LEMMA TidyGive ==
  ASSUME TypeInv, Tidy, NEW t \in Threads, NEW r, th' = [th EXCEPT ![t] = r],
         UNCHANGED <<table, bvmm, held>>, Hand(t), r.pc \in Plain, r.pc \in Early => r.i = 0,
         real' = real \ {th[t].ptr}
  PROVE  Tidy'
<1>1. th'[t] = r /\ \A v \in Threads : v # t => th'[v] = th[v]
  BY DEF TypeInv
<1>2. ~Hand(t)' /\ ~Enters(t) /\ ~Enters(t)' /\ ~HasSlot(th[t].ptr) /\ ~InBvmm(th[t].ptr)
  BY <1>1 DEF Hand, Enters, Plain, Tidy, OnePlace
<1>3. Quiet'
  BY <1>1 DEF Tidy, Quiet, Plain
<1>4. Fresh'
  BY <1>1 DEF Tidy, Fresh
<1>5. OnePlace'
  BY <1>1, <1>2 DEF Tidy, OnePlace, Hand, HasSlot, InBvmm, Live
<1>6. FromDriver'
  <2>1. \A s \in Slots : table'[s].ptr \in Dev \cup Host => table'[s].ptr \in real'
    BY <1>2 DEF Tidy, FromDriver, HasSlot
  <2>2. \A v \in Threads : Hand(v)' /\ th'[v].ptr \in Dev \cup Host => th'[v].ptr \in real'
    BY <1>1, <1>2 DEF Tidy, FromDriver, OnePlace, Hand
  <2>3. \A h \in Host : InBvmm(h)' => h \in real'
    BY <1>2 DEF Tidy, FromDriver, InBvmm
  <2>4. \A v \in Threads : th'[v].pc = "unmap" => th'[v].ptr \in Host
    BY <1>1 DEF Tidy, FromDriver, Plain
  <2> QED BY <2>1, <2>2, <2>3, <2>4 DEF FromDriver
<1>7. OneUser'
  BY <1>1, <1>2 DEF Tidy, OneUser, Enters, HasSlot, InBvmm, Live
<1>8. Probes'
  BY <1>1 DEF Tidy, Probes, Plain, Found, Live, Chain
<1> QED BY <1>3, <1>4, <1>5, <1>6, <1>7, <1>8 DEF Tidy

\* A call whose pointer is in the table goes on with it, other than to look for it.
LEMMA TidyEntered ==
  ASSUME TypeInv, Tidy, NEW t \in Threads, NEW r, th' = [th EXCEPT ![t] = r],
         \A s \in Slots : table'[s].ptr = table[s].ptr,
         UNCHANGED <<bvmm, real, held>>, th[t].pc \in {"flags", "count"}, r.pc \in {"flags", "count"},
         r.ptr = th[t].ptr
  PROVE  Tidy'
<1>1. th'[t] = r /\ \A v \in Threads : v # t => th'[v] = th[v]
  BY DEF TypeInv
<1>2. ~Hand(t) /\ ~Hand(t)' /\ Enters(t) /\ Enters(t)'
  BY <1>1 DEF Hand, Enters
<1>3. /\ \A s \in Slots : Live(s)' <=> Live(s)
      /\ \A p : HasSlot(p)' <=> HasSlot(p)
      /\ \A p \in Ptrs : Found(p)' <=> Found(p)
      /\ \A p \in Ptrs, n \in Nat : table'[Chain(p, n)].ptr = table[Chain(p, n)].ptr
  BY SameTable
<1>4. Quiet'
  BY <1>1 DEF Tidy, Quiet
<1>5. Fresh'
  BY <1>1 DEF Tidy, Fresh, Early
<1>6. OnePlace'
  BY <1>1, <1>2, <1>3 DEF Tidy, OnePlace, Hand, InBvmm
<1>7. FromDriver'
  BY <1>1, <1>2 DEF Tidy, FromDriver, Hand, InBvmm
<1>8. OneUser'
  BY <1>1, <1>2, <1>3 DEF Tidy, OneUser, Enters, InBvmm
<1>9. Probes'
  BY <1>1, ProbesFrame
<1> QED BY <1>4, <1>5, <1>6, <1>7, <1>8, <1>9 DEF Tidy

\* It returns the pointer to the program.
LEMMA TidyReturn ==
  ASSUME TypeInv, Tidy, NEW t \in Threads, th[t].pc \in {"flags", "count"}, Return(t, th[t].ptr),
         \A s \in Slots : table'[s].ptr = table[s].ptr, UNCHANGED <<bvmm, real>>
  PROVE  Tidy'
<1> DEFINE p == th[t].ptr
<1>1. /\ th'[t] = Idle /\ \A v \in Threads : v # t => th'[v] = th[v]
  BY DEF TypeInv, Return, Rest
<1>2. ~Hand(t) /\ ~Hand(t)' /\ Enters(t) /\ ~Enters(t)' /\ p \in Ptrs
  BY <1>1, CallType DEF Hand, Enters, Idle, WithPtr
<1>3. /\ \A s \in Slots : Live(s)' <=> Live(s)
      /\ \A q : HasSlot(q)' <=> HasSlot(q)
      /\ \A q \in Ptrs : Found(q)' <=> Found(q)
      /\ \A q \in Ptrs, n \in Nat : table'[Chain(q, n)].ptr = table[Chain(q, n)].ptr
  BY SameTable
<1>4. held[p] = 0 /\ HasSlot(p) /\ \A v \in Threads : v # t /\ Enters(v) => th[v].ptr # p
  BY <1>2 DEF Tidy, OneUser
<1>5. held'[p] = 1 /\ \A q \in Ptrs : q # p => held'[q] = held[q]
  BY <1>2, <1>4 DEF Return, TypeInv
<1>6. Quiet'
  BY <1>1 DEF Tidy, Quiet, Idle
<1>7. Fresh'
  BY <1>1 DEF Tidy, Fresh, Early, Idle
<1>8. OnePlace'
  BY <1>1, <1>2, <1>3 DEF Tidy, OnePlace, Hand, InBvmm
<1>9. FromDriver'
  BY <1>1, <1>2 DEF Tidy, FromDriver, Hand, InBvmm, Idle
<1>10. OneUser'
  <2>1. \A q \in Ptrs : held'[q] <= 1
    BY <1>5 DEF Tidy, OneUser
  <2>2. \A q \in Ptrs : held'[q] = 1 => HasSlot(q)' \/ InBvmm(q)'
    BY <1>3, <1>4, <1>5 DEF Tidy, OneUser, InBvmm
  <2>3. \A h \in Host : InBvmm(h)' => held'[h] = 1
    BY <1>4, <1>5, ShimConstants DEF Tidy, OneUser, OnePlace, InBvmm
  <2>4. \A v \in Threads : Enters(v)' =>
          v # t /\ Enters(v) /\ th'[v] = th[v] /\ th[v].ptr \in Ptrs /\ th[v].ptr # p
    BY <1>1, <1>2, <1>4, CallType DEF Enters, WithPtr
  <2>5. \A s \in Slots : Live(s)' =>
          \/ held'[table'[s].ptr] = 1
          \/ \E v \in Threads : Enters(v)' /\ th'[v].ptr = table'[s].ptr
    <3> SUFFICES ASSUME NEW s \in Slots, Live(s)', held'[table'[s].ptr] # 1
                 PROVE  \E v \in Threads : Enters(v)' /\ th'[v].ptr = table'[s].ptr
      OBVIOUS
    <3>1. Live(s) /\ table[s].ptr \in Ptrs /\ table[s].ptr # p /\ held[table[s].ptr] # 1
      BY <1>3, <1>5 DEF TypeInv, Slot, Live
    <3>2. PICK v \in Threads : Enters(v) /\ th[v].ptr = table[s].ptr
      BY <3>1 DEF Tidy, OneUser
    <3>3. v # t /\ th'[v] = th[v]
      BY <1>1, <3>1, <3>2
    <3> QED BY <3>2, <3>3 DEF Enters
  <2> QED BY <1>3, <1>5, <2>1, <2>2, <2>3, <2>4, <2>5 DEF Tidy, OneUser
<1>11. Probes'
  BY <1>1, ProbesFrame DEF Idle
<1> QED BY <1>6, <1>7, <1>8, <1>9, <1>10, <1>11 DEF Tidy

\* A step that fills or buries a slot.
LEMMA ProbesKept ==
  ASSUME TypeInv, Tidy, NEW t \in Threads, \A v \in Threads : v # t => th'[v] = th[v],
         th'[t].pc \notin {"insert", "remove"},
         \A s \in Slots : table[s].ptr # Empty => table'[s].ptr # Empty,
         \A v \in Threads : v # t /\ th[v].pc = "remove" =>
           \A s \in Slots : table'[s].ptr = th[v].ptr => table[s].ptr = th[v].ptr,
         \A s \in Slots : Live(s)' => Found(table[s].ptr)'
  PROVE  Probes'
<1>1. \A v \in Threads : th'[v].pc \in {"insert", "remove"} =>
        /\ v # t /\ th'[v] = th[v] /\ th[v].ptr \in Ptrs
        /\ \A m \in 0 .. th[v].i - 1 : m \in Nat /\ Chain(th[v].ptr, m) \in Slots
  <2>1. \A v \in Threads : th'[v].pc \in {"insert", "remove"} =>
          v # t /\ th'[v] = th[v] /\ th[v].ptr \in Ptrs
    BY CallType DEF WithPtr
  <2> QED BY <2>1, ChainType
<1>2. ASSUME NEW v \in Threads, th'[v].pc = "insert"
      PROVE \A m \in 0 .. th'[v].i - 1 : table'[Chain(th'[v].ptr, m)].ptr # Empty
  BY <1>1, <1>2 DEF Tidy, Probes
<1>3. ASSUME NEW v \in Threads, th'[v].pc = "remove"
      PROVE \A m \in 0 .. th'[v].i - 1 : table'[Chain(th'[v].ptr, m)].ptr # th'[v].ptr
  BY <1>1, <1>3 DEF Tidy, Probes
<1> QED BY <1>2, <1>3 DEF Probes, Chain

\* The probe of an insertion passes an entry.
LEMMA TidyProbe ==
  ASSUME TypeInv, Tidy, NEW t \in Threads, NEW r, th' = [th EXCEPT ![t] = r],
         UNCHANGED <<table, bvmm, real, held>>, th[t].pc = "insert", Live(Here(t)), r.ptr = th[t].ptr,
         \/ r.pc = "insert" /\ r.i = th[t].i + 1
         \/ r.pc = "full" /\ r.i = 0
  PROVE  Tidy'
<1>1. th'[t] = r /\ \A v \in Threads : v # t => th'[v] = th[v]
  BY DEF TypeInv
<1>2. Hand(t) /\ Hand(t)' /\ ~Enters(t) /\ ~Enters(t)'
  BY <1>1 DEF Hand, Enters
<1>3. Quiet'
  BY <1>1 DEF Tidy, Quiet
<1>4. Fresh'
  BY <1>1 DEF Tidy, Fresh, Early
<1>5. OnePlace'
  BY <1>1, <1>2 DEF Tidy, OnePlace, Hand, HasSlot, InBvmm, Live
<1>6. FromDriver'
  BY <1>1, <1>2 DEF Tidy, FromDriver, Hand, InBvmm
<1>7. OneUser'
  BY <1>1, <1>2 DEF Tidy, OneUser, Enters, HasSlot, InBvmm, Live
<1>8. Probes'
  <2>1. th[t].i \in Nat /\ Here(t) = Chain(th[t].ptr, th[t].i) /\ table[Here(t)].ptr # Empty
    BY CallType DEF Here, Chain, Live
  <2>2. ASSUME NEW v \in Threads, th'[v].pc = "insert", NEW m \in 0 .. th'[v].i - 1
        PROVE  table'[Chain(th'[v].ptr, m)].ptr # Empty
    <3>1. CASE v = t
      <4>1. m = th[t].i \/ m \in 0 .. th[t].i - 1
        BY <1>1, <2>1, <2>2, <3>1
      <4> QED BY <1>1, <2>1, <3>1, <4>1 DEF Tidy, Probes
    <3>2. CASE v # t
      BY <1>1, <2>2, <3>2 DEF Tidy, Probes
    <3> QED BY <3>1, <3>2
  <2>3. ASSUME NEW v \in Threads, th'[v].pc = "remove", NEW m \in 0 .. th'[v].i - 1
        PROVE  table'[Chain(th'[v].ptr, m)].ptr # th'[v].ptr
    BY <1>1, <2>3 DEF Tidy, Probes
  <2>4. \A s \in Slots : Live(s)' => Found(table[s].ptr)'
    BY DEF Tidy, Probes, Live, Found
  <2> QED BY <2>2, <2>3, <2>4 DEF Probes, Chain
<1> QED BY <1>3, <1>4, <1>5, <1>6, <1>7, <1>8 DEF Tidy

\* The entry is made; on the card its pointer may be returned at once.
LEMMA TidyInsert ==
  ASSUME TypeInv, Tidy, NEW t \in Threads, NEW r, th' = [th EXCEPT ![t] = r],
         th[t].pc = "insert", ~Live(Here(t)), UNCHANGED <<bvmm, real>>,
         table'[Here(t)].ptr = th[t].ptr,
         \A s \in Slots : s # Here(t) => table'[s] = table[s],
         \/ r.pc = "flags" /\ r.ptr = th[t].ptr /\ held' = held
         \/ r.pc = "idle" /\ held' = [held EXCEPT ![th[t].ptr] = held[th[t].ptr] + 1]
  PROVE  Tidy'
<1> DEFINE p == th[t].ptr
           s == Here(t)
<1>1. th'[t] = r /\ \A v \in Threads : v # t => th'[v] = th[v]
  BY DEF TypeInv
<1>2. Hand(t) /\ ~Hand(t)' /\ ~Enters(t) /\ p \in Ptrs
  BY <1>1, CallType DEF Hand, Enters, WithPtr
<1>3. s \in Slots /\ s = Chain(p, th[t].i) /\ th[t].i \in Slots
  BY <1>2, HereType, CallType DEF Here, Chain
<1>4. /\ ~HasSlot(p) /\ ~InBvmm(p) /\ held[p] = 0
      /\ \A v \in Threads : v # t /\ Hand(v) => th[v].ptr # p
      /\ \A v \in Threads : Enters(v) => th[v].ptr # p
  <2>1. ~HasSlot(p) /\ ~InBvmm(p)
    BY <1>2 DEF Tidy, OnePlace
  <2>2. held[p] # 1 /\ held[p] \in Nat /\ held[p] <= 1
    BY <1>2, <2>1 DEF Tidy, OneUser, TypeInv
  <2> QED BY <1>2, <2>1, <2>2 DEF Tidy, OnePlace, OneUser
<1> HIDE DEF s, p
<1>5. /\ table'[s].ptr = p /\ ~Live(s)
      /\ \A x \in Slots : x # s => table'[x] = table[x]
      /\ p # Empty /\ p # Tombstone
  BY <1>2, ShimConstants DEF s, p
<1>6. /\ \A q \in Ptrs : HasSlot(q)' <=> q = p \/ HasSlot(q)
      /\ \A x \in Slots : Live(x)' <=> x = s \/ Live(x)
  <2>1. \A x \in Slots : Live(x)' <=> x = s \/ Live(x)
    BY <1>3, <1>5 DEF Live
  <2>2. table[s].ptr \notin Ptrs
    BY <1>5, ShimConstants DEF Live
  <2>3. \A q \in Ptrs : HasSlot(q)' <=> q = p \/ HasSlot(q)
    BY <1>3, <1>5, <2>2 DEF HasSlot
  <2> QED BY <2>1, <2>3
<1>7. Quiet'
  BY <1>1 DEF Tidy, Quiet
<1>8. Fresh'
  BY <1>1 DEF Tidy, Fresh, Early
<1>9. OnePlace'
  <2>1. ASSUME NEW x \in Slots, NEW y \in Slots, Live(x)', table'[x].ptr = table'[y].ptr PROVE x = y
    <3>1. CASE x = s
      BY <1>4, <1>5, <2>1, <3>1 DEF HasSlot
    <3>2. CASE y = s
      BY <1>4, <1>5, <2>1, <3>2 DEF HasSlot
    <3>3. CASE x # s /\ y # s
      BY <1>5, <1>6, <2>1, <3>3 DEF Tidy, OnePlace
    <3> QED BY <3>1, <3>2, <3>3
  <2>2. ASSUME NEW v \in Threads, Hand(v)' PROVE ~HasSlot(th[v].ptr)' /\ ~InBvmm(th[v].ptr)'
    <3>1. v # t /\ Hand(v) /\ th'[v] = th[v] /\ th[v].ptr \in Ptrs /\ th[v].ptr # p
      BY <1>1, <1>2, <1>4, <2>2, CallType DEF Hand, WithPtr
    <3>2. ~HasSlot(th[v].ptr) /\ ~InBvmm(th[v].ptr)
      BY <3>1 DEF Tidy, OnePlace
    <3>3. ~HasSlot(th[v].ptr)' <=> ~(\E x \in Slots : table'[x].ptr = th[v].ptr)
      BY <3>1 DEF HasSlot
    <3>4. ~(\E x \in Slots : table'[x].ptr = th[v].ptr)
      BY <1>5, <3>1, <3>2 DEF HasSlot
    <3>5. InBvmm(th[v].ptr)' <=> InBvmm(th[v].ptr)
      BY <3>1 DEF InBvmm
    <3> QED BY <3>2, <3>3, <3>4, <3>5
  <2>3. ASSUME NEW v \in Threads, NEW w \in Threads, Hand(v)', Hand(w)', th'[v].ptr = th'[w].ptr
        PROVE  v = w
    BY <1>1, <1>2, <2>3 DEF Tidy, OnePlace, Hand
  <2>4. ASSUME NEW h \in Host, InBvmm(h)' PROVE ~HasSlot(h)'
    <3>1. InBvmm(h) /\ h # p /\ h \in Ptrs
      BY <1>4, <2>4, ShimConstants DEF InBvmm
    <3> QED BY <1>6, <3>1 DEF Tidy, OnePlace
  <2> QED BY <2>1, <2>2, <2>3, <2>4 DEF OnePlace
<1>10. FromDriver'
  <2>1. p \in Dev \cup Host => p \in real
    BY <1>2 DEF Tidy, FromDriver, p
  <2>2. \A x \in Slots : table'[x].ptr \in Dev \cup Host => table'[x].ptr \in real'
    BY <1>5, <2>1 DEF Tidy, FromDriver
  <2>3. \A v \in Threads : Hand(v)' => v # t /\ Hand(v) /\ th'[v] = th[v]
    BY <1>1, <1>2 DEF Hand
  <2>4. \A v \in Threads : th'[v].pc = "unmap" => v # t /\ th'[v] = th[v]
    BY <1>1
  <2> QED BY <2>2, <2>3, <2>4 DEF Tidy, FromDriver, InBvmm
<1>11. OneUser'
  <2>1. CASE r.pc = "flags" /\ r.ptr = p /\ held' = held
    <3>1. \A v \in Threads : Enters(v)' => v = t \/ (Enters(v) /\ th'[v] = th[v] /\ th[v].ptr \in Ptrs)
      BY <1>1, CallType DEF Enters, WithPtr
    <3>2. \A q \in Ptrs : held'[q] = 1 => HasSlot(q)' \/ InBvmm(q)'
      BY <1>6, <2>1 DEF Tidy, OneUser, InBvmm
    <3>3. \A v \in Threads : Enters(v)' => held'[th'[v].ptr] = 0 /\ HasSlot(th[v].ptr)'
      <4>1. ASSUME NEW v \in Threads, Enters(v)', v # t
            PROVE  held'[th'[v].ptr] = 0 /\ HasSlot(th[v].ptr)'
        <5>1. Enters(v) /\ th'[v] = th[v] /\ th[v].ptr \in Ptrs
          BY <3>1, <4>1
        <5>2. held[th[v].ptr] = 0 /\ HasSlot(th[v].ptr)
          BY <5>1 DEF Tidy, OneUser
        <5>3. PICK x \in Slots : table[x].ptr = th[v].ptr
          BY <5>2 DEF HasSlot
        <5>4. x # s
          BY <1>5, <5>1, <5>3, ShimConstants DEF Live
        <5>5. table'[x].ptr = th'[v].ptr
          BY <1>5, <5>1, <5>3, <5>4
        <5> QED BY <2>1, <5>1, <5>2, <5>5 DEF HasSlot
      <4>2. held'[th'[t].ptr] = 0 /\ HasSlot(th[t].ptr)'
        BY <1>1, <1>3, <1>4, <1>5, <2>1 DEF HasSlot
      <4> QED BY <4>1, <4>2
    <3>4. \A v, w \in Threads : Enters(v)' /\ Enters(w)' /\ th'[v].ptr = th'[w].ptr => v = w
      BY <1>1, <1>4, <2>1, <3>1 DEF Tidy, OneUser
    <3>5. ASSUME NEW x \in Slots, Live(x)', held'[table'[x].ptr] # 1
          PROVE  \E v \in Threads : Enters(v)' /\ th'[v].ptr = table'[x].ptr
      <4>1. CASE x = s
        BY <1>1, <1>5, <2>1, <4>1 DEF Enters
      <4>2. CASE x # s
        <5>1. PICK v \in Threads : Enters(v) /\ th[v].ptr = table[x].ptr
          BY <1>5, <1>6, <2>1, <3>5, <4>2 DEF Tidy, OneUser
        <5>2. th'[v] = th[v] /\ table'[x] = table[x]
          BY <1>1, <1>2, <1>5, <4>2, <5>1
        <5> QED BY <5>1, <5>2 DEF Enters
      <4> QED BY <4>1, <4>2
    <3> QED BY <2>1, <3>2, <3>3, <3>4, <3>5 DEF Tidy, OneUser, InBvmm
  <2>2. CASE r.pc = "idle" /\ held' = [held EXCEPT ![p] = held[p] + 1]
    <3>1. held'[p] = 1 /\ \A q \in Ptrs : q # p => held'[q] = held[q]
      BY <1>2, <1>4, <2>2 DEF TypeInv
    <3>2. \A v \in Threads : Enters(v)' =>
            Enters(v) /\ th'[v] = th[v] /\ th[v].ptr \in Ptrs /\ th[v].ptr # p
      BY <1>1, <1>4, <2>2, CallType DEF Enters, WithPtr
    <3>3. \A q \in Ptrs : held'[q] = 1 => HasSlot(q)' \/ InBvmm(q)'
      BY <1>6, <3>1 DEF Tidy, OneUser, InBvmm
    <3>4. ASSUME NEW v \in Threads, Enters(v)'
          PROVE  held'[th'[v].ptr] = 0 /\ HasSlot(th[v].ptr)'
      <4>1. Enters(v) /\ th'[v] = th[v] /\ th[v].ptr \in Ptrs /\ th[v].ptr # p
        BY <3>2, <3>4
      <4>2. held[th[v].ptr] = 0 /\ HasSlot(th[v].ptr)
        BY <4>1 DEF Tidy, OneUser
      <4>3. PICK x \in Slots : table[x].ptr = th[v].ptr
        BY <4>2 DEF HasSlot
      <4>4. x # s
        BY <1>5, <4>1, <4>3, ShimConstants DEF Live
      <4>5. table'[x].ptr = th'[v].ptr
        BY <1>5, <4>1, <4>3, <4>4
      <4> QED BY <3>1, <4>1, <4>2, <4>5 DEF HasSlot
    <3>5. ASSUME NEW x \in Slots, Live(x)', held'[table'[x].ptr] # 1
          PROVE  \E v \in Threads : Enters(v)' /\ th'[v].ptr = table'[x].ptr
      <4>1. x # s
        BY <1>5, <3>1, <3>5
      <4>2. Live(x) /\ table'[x] = table[x] /\ table[x].ptr \in Ptrs
        BY <1>5, <1>6, <3>5, <4>1 DEF TypeInv, Slot, Live
      <4>3. held[table[x].ptr] # 1
        BY <3>1, <3>5, <4>2
      <4>4. PICK v \in Threads : Enters(v) /\ th[v].ptr = table[x].ptr
        BY <4>2, <4>3 DEF Tidy, OneUser
      <4>5. th'[v] = th[v]
        BY <1>1, <1>2, <4>4
      <4> QED BY <4>2, <4>4, <4>5 DEF Enters
    <3>6. \A q \in Ptrs : held'[q] <= 1
      BY <3>1 DEF Tidy, OneUser
    <3>7. \A h \in Host : InBvmm(h)' => held'[h] = 1
      BY <1>4, <3>1, ShimConstants DEF Tidy, OneUser, InBvmm
    <3>8. \A v, w \in Threads : Enters(v)' /\ Enters(w)' /\ th'[v].ptr = th'[w].ptr => v = w
      BY <3>2 DEF Tidy, OneUser
    <3> QED BY <3>3, <3>4, <3>5, <3>6, <3>7, <3>8 DEF OneUser
  <2> QED BY <2>1, <2>2 DEF p
<1>12. Probes'
  <2>1. \A x \in Slots : table[x].ptr # Empty => table'[x].ptr # Empty
    BY <1>5
  <2>2. ASSUME NEW v \in Threads, v # t, th[v].pc = "remove", NEW x \in Slots, table'[x].ptr = th[v].ptr
        PROVE  table[x].ptr = th[v].ptr
    BY <1>4, <1>5, <2>2 DEF Enters
  <2>3. ASSUME NEW x \in Slots, Live(x)' PROVE Found(table[x].ptr)'
    <3> DEFINE q == table'[x].ptr
    <3>1. q \in Ptrs
      BY <1>2, <1>5, <1>6, <2>3 DEF TypeInv, Slot, Live
    <3>2. \E n \in Slots : table'[Chain(q, n)].ptr = q /\ \A m \in 0 .. n - 1 : table'[Chain(q, m)].ptr # Empty
      <4>1. CASE x = s
        <5>1. q = p
          BY <1>5, <4>1
        <5>2. \A m \in 0 .. th[t].i - 1 : table[Chain(p, m)].ptr # Empty /\ Chain(p, m) \in Slots
          <6>1. \A m \in 0 .. th[t].i - 1 : m \in Nat
            BY <1>3 DEF Slots
          <6> QED BY <1>2, <6>1, ChainType DEF Tidy, Probes, p
        <5>3. table'[Chain(p, th[t].i)].ptr = p
          BY <1>3, <1>5
        <5> QED BY <1>3, <2>1, <5>1, <5>2, <5>3
      <4>2. CASE x # s
        <5>1. Live(x) /\ q = table[x].ptr
          BY <1>5, <1>6, <2>3, <4>2
        <5>2. PICK n \in Slots : /\ table[Chain(q, n)].ptr = q
                                 /\ \A m \in 0 .. n - 1 : table[Chain(q, m)].ptr # Empty
          BY <5>1 DEF Tidy, Probes, Found, Chain
        <5>3. n \in Nat /\ \A m \in 0 .. n - 1 : m \in Nat
          BY DEF Slots
        <5>4. Chain(q, n) \in Slots /\ \A m \in 0 .. n - 1 : Chain(q, m) \in Slots
          BY <3>1, <5>3, ChainType
        <5>5. Chain(q, n) # s
          BY <1>5, <3>1, <5>2, ShimConstants DEF Live
        <5> QED BY <1>5, <2>1, <5>2, <5>4, <5>5
      <4> QED BY <4>1, <4>2
    <3>3. Found(table[x].ptr)' <=>
            \E n \in Slots : /\ table'[Chain(q, n)].ptr = q
                             /\ \A m \in 0 .. n - 1 : table'[Chain(q, m)].ptr # Empty
      BY DEF Found, Chain
    <3> QED BY <3>2, <3>3
  <2>4. th'[t].pc \notin {"insert", "remove"}
    BY <1>1
  <2> QED BY <1>1, <2>1, <2>2, <2>3, <2>4, ProbesKept
<1> QED BY <1>7, <1>8, <1>9, <1>10, <1>11, <1>12 DEF Tidy

\* Pages for a pointer that nobody has are entered in gb_bvmm_ht and returned at once.
LEMMA TidyZeroCopy ==
  ASSUME TypeInv, Tidy, NEW t \in Threads, th[t].pc \in Plain, NEW h \in Host, h \notin real,
         Return(t, h), real' = real \cup {h}, bvmm' = [bvmm EXCEPT ![h] = th[t].size],
         th[t].size \in Sizes, table' = table
  PROVE  Tidy'
<1>1. /\ th'[t] = Idle /\ \A v \in Threads : v # t => th'[v] = th[v]
  BY DEF TypeInv, Return, Rest
<1>2. ~Hand(t) /\ ~Hand(t)' /\ ~Enters(t) /\ ~Enters(t)' /\ h \in Ptrs /\ th[t].size # 0
  BY <1>1, ShimConstants DEF Hand, Enters, Idle, Plain
<1>3. /\ ~HasSlot(h) /\ ~InBvmm(h) /\ \A v \in Threads : Hand(v) => th[v].ptr # h
  BY DEF Tidy, FromDriver, HasSlot, InBvmm
<1>4. held[h] = 0
  BY <1>2, <1>3 DEF Tidy, OneUser, TypeInv
<1>5. held'[h] = 1 /\ \A q \in Ptrs : q # h => held'[q] = held[q]
  BY <1>2, <1>4 DEF Return, TypeInv
<1>6. \A q : InBvmm(q)' <=> q = h \/ InBvmm(q)
  BY <1>2 DEF InBvmm, TypeInv
<1>7. /\ \A q : HasSlot(q)' <=> HasSlot(q)
      /\ \A s \in Slots : Live(s)' <=> Live(s)
  BY DEF HasSlot, Live
<1>8. Quiet'
  BY <1>1 DEF Tidy, Quiet, Idle
<1>9. Fresh'
  BY <1>1 DEF Tidy, Fresh, Early, Idle
<1>10. OnePlace'
  BY <1>1, <1>2, <1>3, <1>6, <1>7 DEF Tidy, OnePlace, Hand
<1>11. FromDriver'
  BY <1>1, <1>2, <1>6 DEF Tidy, FromDriver, Hand, Idle
<1>12. OneUser'
  <2>1. \A v \in Threads : Enters(v)' => Enters(v) /\ th'[v] = th[v] /\ th[v].ptr \in Ptrs /\ v # t
    BY <1>1, <1>2, CallType DEF Enters, WithPtr
  <2>2. \A q \in Ptrs : held'[q] <= 1 /\ (held'[q] = 1 => HasSlot(q)' \/ InBvmm(q)')
    BY <1>5, <1>6, <1>7 DEF Tidy, OneUser
  <2>3. \A g \in Host : InBvmm(g)' => held'[g] = 1
    BY <1>5, <1>6, ShimConstants DEF Tidy, OneUser
  <2>4. \A v \in Threads : Enters(v)' => held'[th'[v].ptr] = 0 /\ HasSlot(th[v].ptr)'
    BY <1>3, <1>5, <1>7, <2>1 DEF Tidy, OneUser
  <2>5. \A v, w \in Threads : Enters(v)' /\ Enters(w)' /\ th'[v].ptr = th'[w].ptr => v = w
    BY <2>1 DEF Tidy, OneUser
  <2>6. ASSUME NEW s \in Slots, Live(s)', held'[table'[s].ptr] # 1
        PROVE  \E v \in Threads : Enters(v)' /\ th'[v].ptr = table'[s].ptr
    <3>1. Live(s) /\ table[s].ptr \in Ptrs /\ table[s].ptr # h /\ held[table[s].ptr] # 1
      BY <1>3, <1>5, <1>7, <2>6 DEF TypeInv, Slot, Live, HasSlot
    <3>2. PICK v \in Threads : Enters(v) /\ th[v].ptr = table[s].ptr
      BY <3>1 DEF Tidy, OneUser
    <3>3. th'[v] = th[v]
      BY <1>1, <1>2, <3>2
    <3> QED BY <3>2, <3>3 DEF Enters
  <2> QED BY <1>1, <2>1, <2>2, <2>3, <2>4, <2>5, <2>6 DEF OneUser
<1>13. Probes'
  BY <1>1, ProbesFrame DEF Idle
<1> QED BY <1>8, <1>9, <1>10, <1>11, <1>12, <1>13 DEF Tidy

\* The program frees a pointer: it is taken out of gb_bvmm_ht, or looked for in gb_htable.
LEMMA TidyFree ==
  ASSUME TypeInv, Tidy, NEW t \in Threads, NEW p \in Ptrs, Free(t, p)
  PROVE  Tidy'
<1>1. th[t].pc = "idle" /\ held[p] = 1 /\ ~Hand(t) /\ ~Enters(t)
  BY DEF Free, At, Tidy, OneUser, TypeInv, Hand, Enters
<1>2. held'[p] = 0 /\ \A q \in Ptrs : q # p => held'[q] = held[q]
  BY <1>1 DEF Free, TypeInv
<1>3. table' = table /\ real' = real
  BY DEF Free
<1>4. /\ \A q : HasSlot(q)' <=> HasSlot(q)
      /\ \A s \in Slots : Live(s)' <=> Live(s)
  BY <1>3 DEF HasSlot, Live
<1>5. \A v \in Threads : Enters(v) => th[v].ptr # p
  BY <1>1 DEF Tidy, OneUser
<1>6. CASE InBvmm(p)
  <2> DEFINE r == [Idle EXCEPT !.pc = "unmap", !.ptr = p, !.size = bvmm[p]]
  <2>1. th' = [th EXCEPT ![t] = r] /\ bvmm' = [bvmm EXCEPT ![p] = 0] /\ p \in Host
    BY <1>6 DEF Free, InBvmm
  <2>2. r.pc = "unmap" /\ r.ptr = p
    BY DEF Idle
  <2> HIDE DEF r
  <2>3. th'[t] = r /\ \A v \in Threads : v # t => th'[v] = th[v]
    BY <2>1 DEF TypeInv
  <2>4. \A q : InBvmm(q)' <=> q # p /\ InBvmm(q)
    BY <2>1 DEF InBvmm, TypeInv
  <2>5. Hand(t)' /\ ~Enters(t)'
    BY <2>2, <2>3 DEF Hand, Enters
  <2>6. Quiet'
    BY <2>2, <2>3 DEF Tidy, Quiet
  <2>7. Fresh'
    BY <2>2, <2>3 DEF Tidy, Fresh, Early
  <2>8. ~HasSlot(p) /\ p \in real /\ \A v \in Threads : Hand(v) => th[v].ptr # p
    BY <1>6, <2>1 DEF Tidy, OnePlace, FromDriver
  <2>9. OnePlace'
    <3>1. \A v \in Threads : Hand(v)' => v = t \/ (Hand(v) /\ th'[v] = th[v])
      BY <2>3 DEF Hand
    <3>2. \A v \in Threads : Hand(v)' => ~HasSlot(th[v].ptr)' /\ ~InBvmm(th[v].ptr)'
      <4>1. ASSUME NEW v \in Threads, Hand(v)' PROVE ~HasSlot(th'[v].ptr) /\ (th'[v].ptr = p \/ ~InBvmm(th'[v].ptr))
        BY <2>2, <2>3, <2>8, <3>1, <4>1 DEF Tidy, OnePlace
      <4>2. ASSUME NEW v \in Threads, Hand(v)' PROVE ~HasSlot(th[v].ptr)' /\ ~InBvmm(th[v].ptr)'
        BY <1>3, <2>1, <4>1, <4>2 DEF HasSlot, InBvmm, TypeInv
      <4> QED BY <4>2
    <3>3. \A v, w \in Threads : Hand(v)' /\ Hand(w)' /\ th'[v].ptr = th'[w].ptr => v = w
      BY <2>2, <2>3, <2>8, <3>1 DEF Tidy, OnePlace
    <3> QED BY <1>3, <1>4, <2>4, <3>2, <3>3 DEF Tidy, OnePlace
  <2>10. FromDriver'
    BY <1>3, <2>1, <2>2, <2>3, <2>4, <2>5, <2>8 DEF Tidy, FromDriver, Hand
  <2>11. OneUser'
    <3>1. \A v \in Threads : Enters(v)' => Enters(v) /\ th'[v] = th[v] /\ th[v].ptr \in Ptrs /\ v # t
      BY <2>3, <2>5, CallType DEF Enters, WithPtr
    <3>2. \A q \in Ptrs : held'[q] <= 1 /\ (held'[q] = 1 => HasSlot(q)' \/ InBvmm(q)')
      BY <1>2, <1>4, <2>4 DEF Tidy, OneUser
    <3>3. \A g \in Host : InBvmm(g)' => held'[g] = 1
      BY <1>2, <2>4, ShimConstants DEF Tidy, OneUser
    <3>4. \A v \in Threads : Enters(v)' => held'[th'[v].ptr] = 0 /\ HasSlot(th[v].ptr)'
      BY <1>2, <1>3, <1>5, <3>1 DEF Tidy, OneUser, HasSlot
    <3>5. \A v, w \in Threads : Enters(v)' /\ Enters(w)' /\ th'[v].ptr = th'[w].ptr => v = w
      BY <3>1 DEF Tidy, OneUser
    <3>6. ASSUME NEW s \in Slots, Live(s)', held'[table'[s].ptr] # 1
          PROVE  \E v \in Threads : Enters(v)' /\ th'[v].ptr = table'[s].ptr
      <4>1. Live(s) /\ table[s].ptr \in Ptrs /\ table[s].ptr # p /\ held[table[s].ptr] # 1
        BY <1>2, <1>3, <1>4, <2>8, <3>6 DEF TypeInv, Slot, Live, HasSlot
      <4>2. PICK v \in Threads : Enters(v) /\ th[v].ptr = table[s].ptr
        BY <4>1 DEF Tidy, OneUser
      <4>3. th'[v] = th[v]
        BY <1>1, <2>3, <4>2
      <4> QED BY <1>3, <4>2, <4>3 DEF Enters
    <3> QED BY <3>1, <3>2, <3>3, <3>4, <3>5, <3>6 DEF OneUser
  <2>12. Probes'
    BY <1>3, <2>2, <2>3, ProbesFrame
  <2> QED BY <2>6, <2>7, <2>9, <2>10, <2>11, <2>12 DEF Tidy
<1>7. CASE ~InBvmm(p)
  <2> DEFINE r == [Idle EXCEPT !.pc = "remove", !.ptr = p]
  <2>1. th' = [th EXCEPT ![t] = r] /\ bvmm' = bvmm
    BY <1>7 DEF Free
  <2>2. r.pc = "remove" /\ r.ptr = p /\ r.i = 0
    BY DEF Idle
  <2> HIDE DEF r
  <2>3. th'[t] = r /\ \A v \in Threads : v # t => th'[v] = th[v]
    BY <2>1 DEF TypeInv
  <2>4. \A q : InBvmm(q)' <=> InBvmm(q)
    BY <2>1 DEF InBvmm
  <2>5. ~Hand(t)' /\ Enters(t)'
    BY <2>2, <2>3 DEF Hand, Enters
  <2>6. Quiet'
    BY <2>2, <2>3 DEF Tidy, Quiet
  <2>7. Fresh'
    BY <2>2, <2>3 DEF Tidy, Fresh, Early
  <2>8. HasSlot(p)
    BY <1>1, <1>7 DEF Tidy, OneUser
  <2>9. OnePlace'
    <3>1. \A v \in Threads : Hand(v)' => Hand(v) /\ th'[v] = th[v]
      BY <2>3, <2>5 DEF Hand
    <3>2. ASSUME NEW v \in Threads, Hand(v)' PROVE ~HasSlot(th[v].ptr)' /\ ~InBvmm(th[v].ptr)'
      <4>1. ~HasSlot(th'[v].ptr) /\ ~InBvmm(th'[v].ptr)
        BY <3>1, <3>2 DEF Tidy, OnePlace
      <4> QED BY <1>3, <2>1, <4>1 DEF HasSlot, InBvmm
    <3> QED BY <1>3, <1>4, <2>4, <3>1, <3>2 DEF Tidy, OnePlace
  <2>10. FromDriver'
    BY <1>3, <2>2, <2>3, <2>4, <2>5 DEF Tidy, FromDriver, Hand
  <2>11. OneUser'
    <3>1. \A v \in Threads : Enters(v)' =>
            v = t \/ (Enters(v) /\ th'[v] = th[v] /\ th[v].ptr \in Ptrs /\ th[v].ptr # p)
      BY <1>5, <2>3, CallType DEF Enters, WithPtr
    <3>2. \A q \in Ptrs : held'[q] <= 1 /\ (held'[q] = 1 => HasSlot(q)' \/ InBvmm(q)')
      BY <1>2, <1>4, <2>4 DEF Tidy, OneUser
    <3>3. \A g \in Host : InBvmm(g)' => held'[g] = 1
      BY <1>2, <1>7, <2>4, ShimConstants DEF Tidy, OneUser
    <3>4. ASSUME NEW v \in Threads, Enters(v)' PROVE held'[th'[v].ptr] = 0 /\ HasSlot(th[v].ptr)'
      <4>1. held'[th'[v].ptr] = 0 /\ HasSlot(th'[v].ptr)
        BY <1>2, <2>2, <2>3, <2>8, <3>1, <3>4 DEF Tidy, OneUser
      <4> QED BY <1>3, <4>1 DEF HasSlot
    <3>5. \A v, w \in Threads : Enters(v)' /\ Enters(w)' /\ th'[v].ptr = th'[w].ptr => v = w
      BY <2>2, <2>3, <3>1 DEF Tidy, OneUser
    <3>6. ASSUME NEW s \in Slots, Live(s)', held'[table'[s].ptr] # 1
          PROVE  \E v \in Threads : Enters(v)' /\ th'[v].ptr = table'[s].ptr
      <4>1. CASE table[s].ptr = p
        BY <1>3, <2>2, <2>3, <2>5, <4>1
      <4>2. CASE table[s].ptr # p
        <5>1. Live(s) /\ table[s].ptr \in Ptrs /\ held[table[s].ptr] # 1
          BY <1>2, <1>3, <1>4, <3>6, <4>2 DEF TypeInv, Slot, Live
        <5>2. PICK v \in Threads : Enters(v) /\ th[v].ptr = table[s].ptr
          BY <5>1 DEF Tidy, OneUser
        <5>3. th'[v] = th[v]
          BY <1>1, <2>3, <5>2
        <5> QED BY <1>3, <5>2, <5>3 DEF Enters
      <4> QED BY <4>1, <4>2
    <3> QED BY <3>2, <3>3, <3>4, <3>5, <3>6 DEF OneUser
  <2>12. Probes'
    <3>1. \A s \in Slots : Live(s)' => Found(table[s].ptr)'
      BY <1>3 DEF Tidy, Probes, Live, Found
    <3>2. \A v \in Threads : th'[v].pc = "insert" =>
            \A m \in 0 .. th'[v].i - 1 : table'[Chain(th'[v].ptr, m)].ptr # Empty
      BY <1>3, <2>2, <2>3 DEF Tidy, Probes
    <3>3. \A v \in Threads : th'[v].pc = "remove" =>
            \A m \in 0 .. th'[v].i - 1 : table'[Chain(th'[v].ptr, m)].ptr # th'[v].ptr
      BY <1>3, <2>2, <2>3 DEF Tidy, Probes
    <3> QED BY <3>1, <3>2, <3>3 DEF Probes, Chain
  <2> QED BY <2>6, <2>7, <2>9, <2>10, <2>11, <2>12 DEF Tidy
<1> QED BY <1>6, <1>7

\* The search of a free does not end before it has found the entry.
LEMMA TidySearch ==
  ASSUME TypeInv, Tidy, NEW t \in Threads, HtRemove(t), table[Here(t)].ptr # th[t].ptr
  PROVE  Tidy'
<1> DEFINE p == th[t].ptr
           i == th[t].i
<1>1. /\ th[t] \in Thread /\ th[t].pc = "remove" /\ p \in Ptrs /\ i \in Slots /\ i \in Nat
      /\ Enters(t) /\ ~Hand(t)
  BY CallType DEF HtRemove, At, WithPtr, Calls, Enters, Hand
<1>2. Here(t) = Chain(p, i)
  BY DEF Here, Chain
<1>3. PICK n \in Slots : /\ table[Chain(p, n)].ptr = p
                         /\ \A m \in 0 .. n - 1 : table[Chain(p, m)].ptr # Empty
  <2>1. PICK s \in Slots : table[s].ptr = p
    BY <1>1 DEF Tidy, OneUser, HasSlot
  <2>2. Live(s)
    BY <1>1, <2>1, ShimConstants DEF Live
  <2> QED BY <2>1, <2>2 DEF Tidy, Probes, Found, Chain
<1>4. n \notin 0 .. i - 1 /\ n # i /\ n \in Nat
  BY <1>1, <1>2, <1>3 DEF Tidy, Probes, Slots
<1>5. i < n /\ table[Here(t)].ptr # Empty /\ i + 1 # HtSize
  <2>1. i < n
    BY <1>1, <1>4
  <2>2. i \in 0 .. n - 1 /\ i + 1 # HtSize
    BY <1>1, <1>4, <2>1, ShimConstants DEF Slots
  <2> QED BY <1>2, <1>3, <2>1, <2>2
<1> DEFINE r == [th[t] EXCEPT !.i = i + 1]
<1>6. th' = [th EXCEPT ![t] = r] /\ UNCHANGED <<table, bvmm, real, held>>
  BY <1>5 DEF HtRemove, OnOr
<1>7. r.pc = "remove" /\ r.ptr = p /\ r.i = i + 1
  BY <1>1 DEF Thread
<1> HIDE DEF r
<1>8. th'[t] = r /\ \A v \in Threads : v # t => th'[v] = th[v]
  BY <1>6 DEF TypeInv
<1>9. ~Hand(t)' /\ Enters(t)'
  BY <1>7, <1>8 DEF Hand, Enters
<1>10. Quiet'
  BY <1>7, <1>8 DEF Tidy, Quiet
<1>11. Fresh'
  BY <1>7, <1>8 DEF Tidy, Fresh, Early
<1>12. OnePlace'
  BY <1>1, <1>6, <1>8, <1>9 DEF Tidy, OnePlace, Hand, HasSlot, InBvmm, Live
<1>13. FromDriver'
  BY <1>1, <1>6, <1>7, <1>8, <1>9 DEF Tidy, FromDriver, Hand, InBvmm
<1>14. OneUser'
  <2>1. \A v \in Threads : th'[v].ptr = th[v].ptr /\ (Enters(v)' <=> Enters(v))
    BY <1>1, <1>7, <1>8, <1>9 DEF Enters
  <2> QED BY <1>6, <2>1 DEF Tidy, OneUser, HasSlot, InBvmm, Live
<1>15. Probes'
  <2>1. \A s \in Slots : Live(s)' => Found(table[s].ptr)'
    BY <1>6 DEF Tidy, Probes, Live, Found
  <2>2. \A v \in Threads : th'[v].pc = "insert" =>
          \A m \in 0 .. th'[v].i - 1 : table'[Chain(th'[v].ptr, m)].ptr # Empty
    BY <1>6, <1>7, <1>8 DEF Tidy, Probes
  <2>3. ASSUME NEW v \in Threads, th'[v].pc = "remove", NEW m \in 0 .. th'[v].i - 1
        PROVE  table'[Chain(th'[v].ptr, m)].ptr # th'[v].ptr
    <3>1. CASE v = t
      <4>1. m = i \/ m \in 0 .. i - 1
        BY <1>1, <1>7, <1>8, <2>3, <3>1
      <4> QED BY <1>1, <1>2, <1>6, <1>7, <1>8, <3>1, <4>1 DEF Tidy, Probes
    <3>2. CASE v # t
      BY <1>6, <1>8, <2>3, <3>2 DEF Tidy, Probes
    <3> QED BY <3>1, <3>2
  <2> QED BY <2>1, <2>2, <2>3 DEF Probes, Chain
<1> QED BY <1>10, <1>11, <1>12, <1>13, <1>14, <1>15 DEF Tidy

\* The entry is taken out of the table; only this call has its pointer now.
LEMMA TidyRemove ==
  ASSUME TypeInv, Tidy, NEW t \in Threads, HtRemove(t), table[Here(t)].ptr = th[t].ptr
  PROVE  Tidy'
<1> DEFINE p == th[t].ptr
           s == Here(t)
           r == [th[t] EXCEPT !.pc = "release", !.i = 0, !.size = table[s].size]
<1>1. th[t] \in Thread /\ th[t].pc = "remove" /\ p \in Ptrs /\ Enters(t) /\ ~Hand(t)
  BY CallType DEF HtRemove, At, WithPtr, Calls, Enters, Hand
<1>2. s \in Slots
  BY <1>1, HereType
<1>3. /\ table' = [table EXCEPT ![s].ptr = Tombstone, ![s].size = 0]
      /\ th' = [th EXCEPT ![t] = r] /\ UNCHANGED <<bvmm, real, held>>
  BY DEF HtRemove, Removed
<1>4. r.pc = "release" /\ r.ptr = p
  BY <1>1 DEF Thread
<1>5. table[s].ptr = p /\ p # Empty /\ p # Tombstone /\ Tombstone \notin Ptrs /\ Tombstone # Empty
  BY <1>1, ShimConstants
<1> HIDE DEF p, s, r
<1>6. th'[t] = r /\ \A v \in Threads : v # t => th'[v] = th[v]
  BY <1>3 DEF TypeInv
<1>7. table'[s].ptr = Tombstone /\ \A x \in Slots : x # s => table'[x] = table[x]
  BY <1>2, <1>3 DEF TypeInv, Slot
<1>8. Live(s) /\ \A x \in Slots : table[x].ptr = p => x = s
  BY <1>2, <1>5 DEF Tidy, OnePlace, Live
<1>9. /\ \A q \in Ptrs : HasSlot(q)' <=> q # p /\ HasSlot(q)
      /\ \A x \in Slots : Live(x)' <=> x # s /\ Live(x)
  <2>1. \A x \in Slots : Live(x)' <=> x # s /\ Live(x)
    BY <1>2, <1>7 DEF Live
  <2>2. \A q \in Ptrs : HasSlot(q)' <=> q # p /\ HasSlot(q)
    BY <1>2, <1>5, <1>7, <1>8 DEF HasSlot
  <2> QED BY <2>1, <2>2
<1>10. /\ held[p] = 0 /\ \A v \in Threads : v # t /\ Enters(v) => th[v].ptr # p
  BY <1>1 DEF Tidy, OneUser, p
<1>11. HasSlot(p) /\ ~InBvmm(p) /\ \A v \in Threads : Hand(v) => th[v].ptr # p
  <2>1. HasSlot(p)
    BY <1>2, <1>5 DEF HasSlot
  <2> QED BY <2>1 DEF Tidy, OnePlace, InBvmm
<1>12. Hand(t)' /\ ~Enters(t)'
  BY <1>4, <1>6 DEF Hand, Enters
<1>13. Quiet'
  BY <1>4, <1>6 DEF Tidy, Quiet
<1>14. Fresh'
  BY <1>4, <1>6 DEF Tidy, Fresh, Early
<1>15. OnePlace'
  <2>1. \A v \in Threads : Hand(v)' =>
          \/ v = t
          \/ Hand(v) /\ th'[v] = th[v] /\ th[v].ptr \in Ptrs /\ th[v].ptr # p
    BY <1>6, <1>11, CallType DEF Hand, WithPtr
  <2>2. \A x, y \in Slots : Live(x)' /\ table'[x].ptr = table'[y].ptr => x = y
    BY <1>5, <1>7, <1>9 DEF Tidy, OnePlace, Live
  <2>3. ASSUME NEW v \in Threads, Hand(v)' PROVE ~HasSlot(th[v].ptr)' /\ ~InBvmm(th[v].ptr)'
    <3> DEFINE q == th'[v].ptr
    <3>1. q \in Ptrs /\ (q = p \/ (~HasSlot(q) /\ ~InBvmm(q))) /\ ~InBvmm(q)
      BY <1>1, <1>4, <1>6, <1>11, <2>1, <2>3 DEF Tidy, OnePlace, p
    <3>2. ~(\E x \in Slots : table'[x].ptr = q)
      BY <1>9, <3>1 DEF HasSlot
    <3> QED BY <1>3, <3>1, <3>2 DEF HasSlot, InBvmm
  <2>4. \A v, w \in Threads : Hand(v)' /\ Hand(w)' /\ th'[v].ptr = th'[w].ptr => v = w
    BY <1>4, <1>6, <2>1 DEF Tidy, OnePlace
  <2>5. \A h \in Host : InBvmm(h)' => ~HasSlot(h)'
    BY <1>3, <1>9, ShimConstants DEF Tidy, OnePlace, InBvmm
  <2> QED BY <2>2, <2>3, <2>4, <2>5 DEF OnePlace
<1>16. FromDriver'
  <2>1. ASSUME NEW x \in Slots, table'[x].ptr \in Dev \cup Host PROVE table'[x].ptr \in real'
    <3>1. Tombstone \notin Dev \cup Host
      BY ShimConstants
    <3>2. x # s
      BY <1>7, <2>1, <3>1
    <3>3. table'[x].ptr = table[x].ptr
      BY <1>7, <3>2
    <3> QED BY <1>3, <2>1, <3>3 DEF Tidy, FromDriver
  <2>2. \A v \in Threads : Hand(v)' /\ th'[v].ptr \in Dev \cup Host => th'[v].ptr \in real'
    <3>1. p \in Dev \cup Host => p \in real
      BY <1>2, <1>5 DEF Tidy, FromDriver
    <3> QED BY <1>3, <1>4, <1>6, <3>1 DEF Tidy, FromDriver, Hand
  <2>3. \A v \in Threads : th'[v].pc = "unmap" => th'[v].ptr \in Host
    BY <1>4, <1>6 DEF Tidy, FromDriver
  <2> QED BY <1>3, <2>1, <2>2, <2>3 DEF Tidy, FromDriver, InBvmm
<1>17. OneUser'
  <2>1. \A v \in Threads : Enters(v)' =>
          v # t /\ Enters(v) /\ th'[v] = th[v] /\ th[v].ptr \in Ptrs /\ th[v].ptr # p
    BY <1>6, <1>10, <1>12, CallType DEF Enters, WithPtr
  <2>2. \A q \in Ptrs : held'[q] <= 1 /\ (held'[q] = 1 => HasSlot(q)' \/ InBvmm(q)')
    BY <1>3, <1>9, <1>10 DEF Tidy, OneUser, InBvmm
  <2>3. \A h \in Host : InBvmm(h)' => held'[h] = 1
    BY <1>3 DEF Tidy, OneUser, InBvmm
  <2>4. ASSUME NEW v \in Threads, Enters(v)' PROVE held'[th'[v].ptr] = 0 /\ HasSlot(th[v].ptr)'
    <3>1. held'[th'[v].ptr] = 0 /\ HasSlot(th'[v].ptr) /\ th'[v].ptr # p /\ th'[v].ptr \in Ptrs
      BY <1>3, <2>1, <2>4 DEF Tidy, OneUser
    <3>2. \E x \in Slots : table'[x].ptr = th'[v].ptr
      BY <1>9, <3>1 DEF HasSlot
    <3> QED BY <3>1, <3>2 DEF HasSlot
  <2>5. \A v, w \in Threads : Enters(v)' /\ Enters(w)' /\ th'[v].ptr = th'[w].ptr => v = w
    BY <2>1 DEF Tidy, OneUser
  <2>6. ASSUME NEW x \in Slots, Live(x)', held'[table'[x].ptr] # 1
        PROVE  \E v \in Threads : Enters(v)' /\ th'[v].ptr = table'[x].ptr
    <3>1. x # s /\ Live(x) /\ table'[x] = table[x] /\ held[table[x].ptr] # 1
      BY <1>3, <1>7, <1>9, <2>6
    <3>2. PICK v \in Threads : Enters(v) /\ th[v].ptr = table[x].ptr
      BY <3>1 DEF Tidy, OneUser
    <3>3. v # t
      BY <1>8, <3>1, <3>2 DEF p
    <3> QED BY <1>6, <3>1, <3>2, <3>3 DEF Enters
  <2> QED BY <2>2, <2>3, <2>4, <2>5, <2>6 DEF OneUser
<1>18. Probes'
  <2>1. \A x \in Slots : table[x].ptr # Empty => table'[x].ptr # Empty
    BY <1>5, <1>7
  <2>2. ASSUME NEW v \in Threads, v # t, th[v].pc = "remove", NEW x \in Slots, table'[x].ptr = th[v].ptr
        PROVE  table[x].ptr = th[v].ptr
    <3>1. th[v].ptr \in Ptrs
      BY <2>2, CallType DEF WithPtr
    <3> QED BY <1>5, <1>7, <2>2, <3>1
  <2>3. ASSUME NEW x \in Slots, Live(x)' PROVE Found(table[x].ptr)'
    <3> DEFINE q == table'[x].ptr
    <3>1. x # s /\ Live(x) /\ q = table[x].ptr /\ q \in Ptrs /\ q # p
      BY <1>7, <1>8, <1>9, <2>3 DEF TypeInv, Slot, Live
    <3>2. PICK n \in Slots : /\ table[Chain(q, n)].ptr = q
                             /\ \A m \in 0 .. n - 1 : table[Chain(q, m)].ptr # Empty
      BY <3>1 DEF Tidy, Probes, Found, Chain
    <3>3. n \in Nat /\ \A m \in 0 .. n - 1 : m \in Nat
      BY DEF Slots
    <3>4. Chain(q, n) \in Slots /\ \A m \in 0 .. n - 1 : Chain(q, m) \in Slots
      BY <3>1, <3>3, ChainType
    <3>5. Chain(q, n) # s
      BY <1>5, <3>1, <3>2
    <3>6. table'[Chain(q, n)].ptr = q /\ \A m \in 0 .. n - 1 : table'[Chain(q, m)].ptr # Empty
      BY <1>7, <2>1, <3>2, <3>4, <3>5
    <3>7. Found(table[x].ptr)' <=>
            \E k \in Slots : /\ table'[Chain(q, k)].ptr = q
                             /\ \A m \in 0 .. k - 1 : table'[Chain(q, m)].ptr # Empty
      BY DEF Found, Chain
    <3> QED BY <3>6, <3>7
  <2>4. th'[t].pc \notin {"insert", "remove"}
    BY <1>4, <1>6
  <2> QED BY <1>6, <2>1, <2>2, <2>3, <2>4, ProbesKept
<1> QED BY <1>13, <1>14, <1>15, <1>16, <1>17, <1>18 DEF Tidy

\* The stage alone changes, to another without a pointer.
LEMMA ToTidy ==
  ASSUME TypeInv, Tidy, NEW t \in Threads, NEW pc \in Plain, To(t, pc), th[t].pc \in Plain,
         pc \in Early => th[t].pc \in Early, UNCHANGED <<table, bvmm, real, held>>
  PROVE  Tidy'
<1> DEFINE r == [th[t] EXCEPT !.pc = pc]
<1>1. th[t] \in Thread
  BY CallType DEF Calls
<1>2. r.pc = pc /\ r.i = th[t].i
  BY <1>1 DEF Thread
<1>3. th' = [th EXCEPT ![t] = r]
  BY DEF To
<1>4. pc \in Early => r.i = 0
  BY <1>2 DEF Tidy, Fresh
<1> HIDE DEF r
<1> QED BY <1>2, <1>3, <1>4, TidyFrame

LEMMA RestTidy ==
  ASSUME TypeInv, Tidy, NEW t \in Threads, Rest(t), th[t].pc \in Plain,
         UNCHANGED <<table, bvmm, real, held>>
  PROVE  Tidy'
<1> DEFINE r == Idle
<1>1. r.pc \in Plain /\ r.i = 0
  BY DEF Idle, Plain
<1>2. th' = [th EXCEPT ![t] = r]
  BY DEF Rest
<1> HIDE DEF r
<1> QED BY <1>1, <1>2, TidyFrame

LEMMA MallocOverflowTidy ==
  ASSUME TypeInv, Tidy, NEW t \in Threads, MallocOverflow(t) PROVE Tidy'
<1>1. PICK sz \in Sizes, try \in {1} \cup (IF t2 >= Mid THEN {2} ELSE {}) :
        th' = [th EXCEPT ![t] = [Idle EXCEPT !.pc = "overflow", !.size = sz, !.try = try]]
  BY DEF MallocOverflow
<1> DEFINE r == [Idle EXCEPT !.pc = "overflow", !.size = sz, !.try = try]
<1>2. r.pc = "overflow" /\ r.i = 0
  BY DEF Idle
<1>3. th' = [th EXCEPT ![t] = r]
  BY <1>1
<1> HIDE DEF r
<1> QED BY <1>2, <1>3, TidyFrame DEF MallocOverflow, At, Plain

LEMMA OverflowTidy == ASSUME TypeInv, Tidy, NEW t \in Threads, Overflow(t) PROVE Tidy'
BY ToTidy DEF Overflow, At, Plain, Early

LEMMA PathBTidy == ASSUME TypeInv, Tidy, NEW t \in Threads, PathB(t) PROVE Tidy'
BY ToTidy DEF PathB, At, Plain, Early

LEMMA ReserveBlackwellTidy ==
  ASSUME TypeInv, Tidy, NEW t \in Threads, ReserveBlackwell(t) PROVE Tidy'
<1>1. \/ To(t, "revert") \/ To(t, "zerocopy") \/ To(t, "failed")
  BY DEF ReserveBlackwell, TryReserve
<1> QED BY <1>1, ToTidy DEF ReserveBlackwell, At, Plain, Early

LEMMA ReleaseReservedTidy ==
  ASSUME TypeInv, Tidy, NEW t \in Threads, ReleaseReserved(t) PROVE Tidy'
BY ToTidy DEF ReleaseReserved, At, Plain, Early

LEMMA AllocZeroCopyTidy ==
  ASSUME TypeInv, Tidy, NEW t \in Threads, AllocZeroCopy(t) PROVE Tidy'
<1>1. th[t].pc = "zerocopy" /\ th[t].pc \in Plain /\ th[t].size \in Sizes /\ table' = table
  BY CallType DEF AllocZeroCopy, At, Plain, WithSize, Pcs
<1>2. CASE To(t, "revert") /\ UNCHANGED <<real, bvmm, oom, held>>
  BY <1>1, <1>2, ToTidy DEF Plain, Early
<1>3. CASE \E h \in Host \ real :
             /\ real' = real \cup {h}
             /\ bvmm' = [bvmm EXCEPT ![h] = th[t].size]
             /\ Return(t, h)
  BY <1>1, <1>3, TidyZeroCopy
<1> QED BY <1>2, <1>3 DEF AllocZeroCopy

LEMMA UncountTidy == ASSUME TypeInv, Tidy, NEW t \in Threads, Uncount(t) PROVE Tidy'
BY RestTidy DEF Uncount, At, Plain

LEMMA FailedTidy == ASSUME TypeInv, Tidy, NEW t \in Threads, Failed(t) PROVE Tidy'
<1>1. th[t].pc = "failed" /\ UNCHANGED <<table, bvmm, real, held>>
  BY DEF Failed, At
<1>2. CASE th' = [th EXCEPT ![t].pc = "overflow", ![t].try = 2]
  <2> DEFINE r == [th[t] EXCEPT !.pc = "overflow", !.try = 2]
  <2>1. th[t] \in Thread
    BY CallType DEF Calls
  <2>2. r.pc = "overflow" /\ r.i = th[t].i
    BY <2>1 DEF Thread
  <2>3. th[t].i = 0
    BY <1>1 DEF Tidy, Fresh, Early
  <2>4. th' = [th EXCEPT ![t] = r]
    BY <1>2
  <2> HIDE DEF r
  <2> QED BY <1>1, <2>2, <2>3, <2>4, TidyFrame DEF Plain
<1>3. CASE To(t, "oom")
  BY <1>1, <1>3, ToTidy DEF Plain, Early
<1>4. CASE Rest(t)
  BY <1>1, <1>4, RestTidy DEF Plain
<1> QED BY <1>2, <1>3, <1>4 DEF Failed

LEMMA OomTidy ==
  ASSUME TypeInv, Tidy, NEW t \in Threads, Oom(t), reclaims' = reclaims PROVE Tidy'
<1>1. Rest(t)
  BY DEF Oom, TypeInv
<1> QED BY <1>1, RestTidy DEF Oom, At, Plain

LEMMA MallocOnCardTidy ==
  ASSUME TypeInv, Tidy, NEW t \in Threads, MallocOnCard(t) PROVE Tidy'
<1>1. PICK sz \in Sizes, d \in Dev \ real :
        /\ real' = real \cup {d}
        /\ th' = [th EXCEPT ![t] = [Idle EXCEPT !.pc = "insert", !.ptr = d, !.size = sz]]
  BY DEF MallocOnCard
<1> DEFINE r == [Idle EXCEPT !.pc = "insert", !.ptr = d, !.size = sz]
<1>2. r.pc = "insert" /\ r.i = 0 /\ r.ptr = d
  BY DEF Idle
<1>3. th' = [th EXCEPT ![t] = r]
  BY <1>1
<1>4. th[t].pc \in Plain /\ UNCHANGED <<table, bvmm, held>>
  BY DEF MallocOnCard, At, Plain
<1>5. d \in Ptrs /\ ~HasSlot(d) /\ ~InBvmm(d) /\ \A v \in Threads : Hand(v) => th[v].ptr # d
  BY ShimConstants DEF Tidy, FromDriver, HasSlot, InBvmm
<1> HIDE DEF r
<1> QED BY <1>1, <1>2, <1>3, <1>4, <1>5, TidyTake

LEMMA RegisterTidy ==
  ASSUME TypeInv, Tidy, NEW t \in Threads, Register(t), th[t].pc \in Plain \cap Early,
         UNCHANGED <<table, bvmm, held>>
  PROVE  Tidy'
<1>1. PICK h \in Registered \ real :
        real' = real \cup {h} /\ th' = [th EXCEPT ![t].pc = "insert", ![t].ptr = h]
  BY DEF Register
<1> DEFINE r == [th[t] EXCEPT !.pc = "insert", !.ptr = h]
<1>2. th[t] \in Thread
  BY CallType DEF Calls
<1>3. r.pc = "insert" /\ r.i = th[t].i /\ r.ptr = h
  BY <1>2 DEF Thread
<1>4. th' = [th EXCEPT ![t] = r]
  BY <1>1
<1>5. th[t].i = 0
  BY DEF Tidy, Fresh
<1>6. /\ h \in Host /\ h \in Ptrs
      /\ ~HasSlot(h) /\ ~InBvmm(h) /\ \A v \in Threads : Hand(v) => th[v].ptr # h
  BY ShimConstants DEF Tidy, FromDriver, HasSlot, InBvmm
<1> HIDE DEF r
<1> QED BY <1>1, <1>3, <1>4, <1>5, <1>6, TidyTake

LEMMA AllocPinnedTidy == ASSUME TypeInv, Tidy, NEW t \in Threads, AllocPinned(t) PROVE Tidy'
BY RegisterTidy, ToTidy DEF AllocPinned, At, Plain, Early

LEMMA AllocHostRegTidy == ASSUME TypeInv, Tidy, NEW t \in Threads, AllocHostReg(t) PROVE Tidy'
BY RegisterTidy, ToTidy DEF AllocHostReg, At, Plain, Early

\* The pool gives out no address that anyone has: all the regions of entries and of calls
\* are apart from its free segments.
LEMMA PoolNew ==
  ASSUME TypeInv, RegionInv, Tidy, NEW p \in Pool, p \in FreeUnits(free)
  PROVE  ~HasSlot(p) /\ ~InBvmm(p) /\ \A v \in Threads : Hand(v) => th[v].ptr # p
<1>1. p \in Nat /\ p \in Ptrs /\ p \notin Host
  BY ShimConstants DEF Pool
<1>2. \A sz \in Sizes : p \in Region(p, sz)
  BY <1>1, ShimConstants DEF Region, Units, Segment
<1>3. /\ \A s \in Slots : EntryHas[s] \cap FreeUnits(free) = {}
      /\ \A v \in Threads : CallHas[v] \cap FreeUnits(free) = {}
  BY DEF RegionInv, Shared, FreeOf
<1>4. ASSUME NEW s \in Slots, table[s].ptr = p PROVE FALSE
  <2>1. Live(s)
    BY <1>1, <1>4, ShimConstants DEF Live
  <2>2. s \in Entries /\ table[s].size \in Sizes
    BY <2>1 DEF Entries, Doomed, Tidy, Quiet, TypeInv
  <2>3. EntryHas[s] = Region(p, table[s].size)
    BY <1>4, <2>2, HasAt
  <2> QED BY <1>2, <1>3, <2>2, <2>3
<1>5. ASSUME NEW v \in Threads, Hand(v), th[v].ptr = p PROVE FALSE
  <2>1. InHand(v) /\ th[v].size \in Sizes
    BY <1>1, <1>5, CallType DEF Hand, InHand, Tidy, FromDriver, WithSize, Pcs
  <2>2. CallHas[v] = Region(p, th[v].size)
    BY <1>5, <2>1, HasAt
  <2> QED BY <1>2, <1>3, <2>1, <2>2
<1> QED BY <1>1, <1>4, <1>5 DEF HasSlot, InBvmm

LEMMA AllocPoolTidy ==
  ASSUME TypeInv, RegionInv, Tidy, NEW t \in Threads, AllocPool(t) PROVE Tidy'
<1>1. th[t].pc = "pool" /\ th[t].pc \in Plain /\ th[t].size \in Sizes /\ UNCHANGED <<table, bvmm, real, held>>
  BY CallType DEF AllocPool, At, Plain, WithSize, Pcs
<1>2. CASE Serving(free, th[t].size) = {}
  BY <1>1, <1>2, ToTidy DEF AllocPool, Plain, Early
<1>3. CASE Serving(free, th[t].size) # {}
  <2> DEFINE p == Chosen(free, th[t].size).seg.off
             r == [th[t] EXCEPT !.pc = "insert", !.ptr = p]
  <2>1. th[t] \in Thread /\ ListsOK(free) /\ th[t].size \in Nat \ {0}
    BY <1>1, CallType, ShimConstants DEF Calls, RegionInv, Shared
  <2>2. p \in Pool /\ Units(Segment(p, th[t].size)) \subseteq FreeUnits(free)
    BY <1>3, <2>1, PoolAllocOK
  <2>3. p \in Units(Segment(p, th[t].size))
    BY <2>1, <2>2 DEF Units, Segment, Pool
  <2>4. p \in Ptrs /\ p \notin Dev \cup Host
    BY <2>2, ShimConstants
  <2>5. r.pc = "insert" /\ r.i = th[t].i /\ r.ptr = p
    BY <2>1 DEF Thread
  <2>6. th' = [th EXCEPT ![t] = r]
    BY <1>3 DEF AllocPool
  <2>7. th[t].i = 0
    BY <1>1 DEF Tidy, Fresh, Early
  <2>8. ~HasSlot(p) /\ ~InBvmm(p) /\ \A v \in Threads : Hand(v) => th[v].ptr # p
    BY <2>2, <2>3, PoolNew
  <2> HIDE DEF p, r
  <2> QED BY <1>1, <2>4, <2>5, <2>6, <2>7, <2>8, TidyTake
<1> QED BY <1>2, <1>3

LEMMA TableFullTidy == ASSUME TypeInv, Tidy, NEW t \in Threads, TableFull(t) PROVE Tidy'
<1>1. th[t].pc = "full" /\ Hand(t) /\ UNCHANGED <<table, bvmm, held>> /\ real' = real \ {th[t].ptr}
  BY DEF TableFull, At, Hand
<1>2. CASE Rest(t)
  <2> DEFINE r == Idle
  <2>1. r.pc \in Plain /\ r.i = 0
    BY DEF Idle, Plain
  <2>2. th' = [th EXCEPT ![t] = r]
    BY <1>2 DEF Rest
  <2> HIDE DEF r
  <2> QED BY <1>1, <2>1, <2>2, TidyGive
<1>3. CASE th' = [th EXCEPT ![t].pc = "failed", ![t].ptr = Empty]
  <2> DEFINE r == [th[t] EXCEPT !.pc = "failed", !.ptr = Empty]
  <2>1. th[t] \in Thread
    BY CallType DEF Calls
  <2>2. r.pc = "failed" /\ r.i = th[t].i
    BY <2>1 DEF Thread
  <2>3. th[t].i = 0
    BY <1>1 DEF Tidy, Fresh, Early
  <2>4. th' = [th EXCEPT ![t] = r]
    BY <1>3
  <2> HIDE DEF r
  <2> QED BY <1>1, <2>2, <2>3, <2>4, TidyGive DEF Plain
<1> QED BY <1>2, <1>3 DEF TableFull

\* A pointer out of the table goes back, and the count of its size follows.
LEMMA GiveThenUncount ==
  ASSUME TypeInv, Tidy, NEW t \in Threads, To(t, "uncount"), Hand(t),
         UNCHANGED <<table, bvmm, held>>, real' = real \ {th[t].ptr}
  PROVE  Tidy'
<1> DEFINE r == [th[t] EXCEPT !.pc = "uncount"]
<1>1. th[t] \in Thread
  BY CallType DEF Calls
<1>2. r.pc = "uncount"
  BY <1>1 DEF Thread
<1>3. th' = [th EXCEPT ![t] = r]
  BY DEF To
<1> HIDE DEF r
<1> QED BY <1>2, <1>3, TidyGive DEF Plain, Early

LEMMA ReleaseTidy == ASSUME TypeInv, Tidy, NEW t \in Threads, Release(t) PROVE Tidy'
<1>1. Hand(t) /\ UNCHANGED <<table, bvmm, held>> /\ real' = real \ {th[t].ptr}
  BY DEF Release, At, Hand
<1>2. CASE Rest(t)
  <2> DEFINE r == Idle
  <2>1. r.pc \in Plain /\ r.i = 0
    BY DEF Idle, Plain
  <2>2. th' = [th EXCEPT ![t] = r]
    BY <1>2 DEF Rest
  <2> HIDE DEF r
  <2> QED BY <1>1, <2>1, <2>2, TidyGive
<1>3. CASE To(t, "uncount")
  BY <1>1, <1>3, GiveThenUncount
<1> QED BY <1>2, <1>3 DEF Release

LEMMA UnmapTidy == ASSUME TypeInv, Tidy, NEW t \in Threads, Unmap(t) PROVE Tidy'
BY GiveThenUncount DEF Unmap, At, Hand

LEMMA CountT2Tidy == ASSUME TypeInv, Tidy, NEW t \in Threads, CountT2(t) PROVE Tidy'
BY TidyReturn DEF CountT2, At

LEMMA SetFlagsTidy == ASSUME TypeInv, Tidy, NEW t \in Threads, SetFlags(t) PROVE Tidy'
<1> DEFINE s == Here(t)
           found == table[s].ptr = th[t].ptr
           last == found \/ table[s].ptr = Empty \/ th[t].i + 1 = HtSize
<1>1. th[t].pc = "flags" /\ UNCHANGED <<bvmm, real>> /\ th[t] \in Thread
  BY CallType DEF SetFlags, At, Calls
<1>2. s \in Slots
  BY <1>1, HereType, CallType DEF WithPtr
<1>3. PICK kv \in BOOLEAN : table' = IF found THEN [table EXCEPT ![s].kv = kv] ELSE table
  BY DEF SetFlags
<1>4. \A x \in Slots : table'[x].ptr = table[x].ptr
  BY <1>2, <1>3 DEF TypeInv, Slot
<1>5. CASE last /\ th[t].ptr \in Dev
  BY <1>1, <1>4, <1>5, TidyReturn DEF SetFlags
<1>6. CASE ~(last /\ th[t].ptr \in Dev)
  <2> DEFINE r == IF last THEN [th[t] EXCEPT !.pc = "count", !.i = 0] ELSE [th[t] EXCEPT !.i = @ + 1]
  <2>1. r.pc \in {"flags", "count"} /\ r.ptr = th[t].ptr
    BY <1>1 DEF Thread
  <2>2. th' = [th EXCEPT ![t] = r] /\ held' = held
    BY <1>6 DEF SetFlags
  <2> HIDE DEF r
  <2> QED BY <1>1, <1>4, <2>1, <2>2, TidyEntered
<1> QED BY <1>5, <1>6

LEMMA HtInsertTidy == ASSUME TypeInv, Tidy, NEW t \in Threads, HtInsert(t) PROVE Tidy'
<1> DEFINE s == Here(t)
           p == th[t].ptr
<1>1. th[t].pc = "insert" /\ UNCHANGED <<bvmm, real>> /\ th[t] \in Thread
  BY CallType DEF HtInsert, At, Calls
<1>2. s \in Slots
  BY <1>1, HereType, CallType DEF WithPtr
<1>3. CASE Live(s)
  <2> DEFINE r == IF th[t].i + 1 = HtSize THEN [th[t] EXCEPT !.pc = "full", !.i = 0]
                  ELSE [th[t] EXCEPT !.i = @ + 1]
  <2>1. r.ptr = th[t].ptr
    BY <1>1 DEF Thread
  <2>2. \/ r.pc = "insert" /\ r.i = th[t].i + 1
        \/ r.pc = "full" /\ r.i = 0
    BY <1>1 DEF Thread
  <2>3. th' = [th EXCEPT ![t] = r] /\ UNCHANGED <<table, held>>
    BY <1>3 DEF HtInsert, OnOr
  <2> HIDE DEF r
  <2> QED BY <1>1, <1>3, <2>1, <2>2, <2>3, TidyProbe
<1>4. CASE ~Live(s)
  <2>1. table' = [table EXCEPT ![s].ptr = p, ![s].size = th[t].size]
    BY <1>4 DEF HtInsert
  <2>2. table'[s].ptr = p /\ \A x \in Slots : x # s => table'[x] = table[x]
    BY <1>2, <2>1 DEF TypeInv, Slot
  <2>3. CASE th' = [th EXCEPT ![t].pc = "flags", ![t].i = 0] /\ UNCHANGED <<oom, held>>
    <3> DEFINE r == [th[t] EXCEPT !.pc = "flags", !.i = 0]
    <3>1. r.pc = "flags" /\ r.ptr = th[t].ptr
      BY <1>1 DEF Thread
    <3>2. th' = [th EXCEPT ![t] = r] /\ held' = held
      BY <2>3
    <3> HIDE DEF r
    <3> QED BY <1>1, <1>4, <2>2, <3>1, <3>2, TidyInsert
  <2>4. CASE Return(t, p)
    <3> DEFINE r == Idle
    <3>1. r.pc = "idle"
      BY DEF Idle
    <3>2. th' = [th EXCEPT ![t] = r] /\ held' = [held EXCEPT ![p] = held[p] + 1]
      BY <2>4 DEF Return, Rest
    <3> HIDE DEF r
    <3> QED BY <1>1, <1>4, <2>2, <3>1, <3>2, TidyInsert
  <2> QED BY <1>4, <2>3, <2>4 DEF HtInsert
<1> QED BY <1>3, <1>4

\* A free finds its entry, so the stage of one that found none is never reached.
LEMMA TableStep ==
  ASSUME TypeInv, RegionInv, TableInv, NEW t \in Threads,
         MallocStep(t) \/ ReclaimStep(t) \/ FreeStep(t)
  PROVE  TableInv'
<1> SUFFICES ASSUME reclaims' = 0 PROVE Tidy'
  BY DEF TableInv
<1>1. ASSUME reclaims' = reclaims PROVE Tidy'
  <2>1. Tidy
    BY <1>1 DEF TableInv
  <2>2. th[t].pc \notin {"scan", "evict", "evicted", "charge", "flush", "flushed", "realfree"}
    BY <2>1 DEF Tidy, Quiet
  <2>3. CASE MallocStep(t)
    BY <2>1, <2>3, MallocOnCardTidy, MallocOverflowTidy, OverflowTidy, AllocPoolTidy, AllocPinnedTidy,
       PathBTidy, AllocHostRegTidy, ReserveBlackwellTidy, AllocZeroCopyTidy, ReleaseReservedTidy,
       HtInsertTidy, TableFullTidy, SetFlagsTidy, CountT2Tidy, FailedTidy DEF MallocStep
  <2>4. CASE ReclaimStep(t)
    <3>1. Oom(t)
      BY <2>2, <2>4 DEF ReclaimStep, Scan, Evict, Evicting, Evicted, Charge, EvictDone, Flush, Flushed, At
    <3> QED BY <1>1, <2>1, <3>1, OomTidy
  <2>5. CASE FreeStep(t)
    <3>1. \/ \E p \in Ptrs : Free(t, p)
          \/ Unmap(t) \/ HtRemove(t) \/ Release(t) \/ Uncount(t)
      BY <2>2, <2>5 DEF FreeStep, RealFree, At
    <3>2. HtRemove(t) => Tidy'
      BY <2>1, TidySearch, TidyRemove
    <3> QED BY <2>1, <3>1, <3>2, TidyFree, UnmapTidy, ReleaseTidy, UncountTidy
  <2> QED BY <2>3, <2>4, <2>5
<1>2. reclaims' = reclaims \/ reclaims' = reclaims + 1
  <2>1. CASE MallocStep(t)
    BY <2>1 DEF MallocStep, MallocOnCard, MallocOverflow, Overflow, AllocPool, AllocPinned, PathB,
       AllocHostReg, ReserveBlackwell, AllocZeroCopy, ReleaseReserved, HtInsert, TableFull,
       SetFlags, CountT2, Failed
  <2>2. CASE ReclaimStep(t)
    BY <2>2 DEF ReclaimStep, Oom, Scan, Evict, Evicted, Charge, EvictDone, Flush, Flushed
  <2>3. CASE FreeStep(t)
    BY <2>3 DEF FreeStep, Free, Unmap, HtRemove, Release, Uncount, RealFree
  <2> QED BY <2>1, <2>2, <2>3
<1>3. reclaims \in Nat
  BY DEF TypeInv
<1> QED BY <1>1, <1>2, <1>3

LEMMA TableInit == ASSUME Init PROVE TableInv
<1>1. /\ \A t \in Threads : th[t] = Idle
      /\ \A s \in Slots : table[s].ptr = Empty
      /\ \A h \in Host : bvmm[h] = 0
      /\ \A p \in Ptrs : held[p] = 0
  BY DEF Init
<1>2. \A s \in Slots : ~Live(s)
  BY <1>1 DEF Live
<1>3. Quiet /\ Fresh /\ Probes
  BY <1>1, <1>2 DEF Quiet, Fresh, Probes, Idle
<1>4. OnePlace /\ FromDriver
  BY <1>1, <1>2, ShimConstants DEF OnePlace, FromDriver, Hand, InBvmm, Idle
<1>5. OneUser
  BY <1>1, <1>2 DEF OneUser, Enters, InBvmm, Idle
<1> QED BY <1>3, <1>4, <1>5 DEF TableInv, Tidy

\* Where a pointer is and who has it say how often it is in a table.
LEMMA TableCounted == ASSUME TypeInv, TableInv PROVE TableExact
<1> SUFFICES ASSUME reclaims = 0, NEW p \in Ptrs
             PROVE  /\ held[p] > 0 => InBvmm(p) \/ Found(p)
                    /\ held[p] + Cardinality({t \in Threads : Entered(t, p)})
                         = Cardinality({s \in Slots : table[s].ptr = p})
                           + (IF InBvmm(p) THEN 1 ELSE 0)
  BY DEF TableExact
<1> DEFINE T == {t \in Threads : Entered(t, p)}
           S == {s \in Slots : table[s].ptr = p}
<1>1. Tidy
  BY DEF TableInv
<1>2. held[p] = 0 \/ held[p] = 1
  BY <1>1 DEF Tidy, OneUser, TypeInv
<1>3. \A s \in Slots : table[s].ptr = p => Live(s)
  BY ShimConstants DEF Live
<1>4. held[p] > 0 => InBvmm(p) \/ Found(p)
  BY <1>1, <1>2, <1>3 DEF Tidy, OneUser, Probes, HasSlot
<1>5. \A t \in Threads : Entered(t, p) <=> Enters(t) /\ th[t].ptr = p
  BY DEF Entered, Enters
<1>6. Cardinality(T) = IF T = {} THEN 0 ELSE 1
  <2>1. \A t, v \in T : t = v
    BY <1>1, <1>5 DEF Tidy, OneUser
  <2> QED BY <2>1, AtMostOne
<1>7. Cardinality(S) = IF S = {} THEN 0 ELSE 1
  <2>1. \A s, r \in S : s = r
    BY <1>1, <1>3 DEF Tidy, OnePlace
  <2> QED BY <2>1, AtMostOne
<1>8. InBvmm(p) => S = {} /\ T = {} /\ held[p] = 1
  <2>1. InBvmm(p) => p \in Host
    BY DEF InBvmm
  <2> QED BY <1>1, <1>5, <2>1 DEF Tidy, OnePlace, OneUser, HasSlot
<1>9. held[p] = 1 => T = {} /\ (S # {} \/ InBvmm(p))
  BY <1>1, <1>5 DEF Tidy, OneUser, HasSlot
<1>10. S # {} => held[p] = 1 \/ T # {}
  <2> SUFFICES ASSUME NEW s \in S PROVE held[p] = 1 \/ T # {}
    OBVIOUS
  <2> QED BY <1>1, <1>3, <1>5 DEF Tidy, OneUser
<1>11. T # {} => S # {}
  BY <1>1, <1>5 DEF Tidy, OneUser, HasSlot
<1> HIDE DEF T, S
<1>12. held[p] + Cardinality(T) = Cardinality(S) + (IF InBvmm(p) THEN 1 ELSE 0)
  BY <1>2, <1>6, <1>7, <1>8, <1>9, <1>10, <1>11
<1> QED BY <1>4, <1>12 DEF T, S

\* The invariant that the exactness of the tables rests on: as long as nothing was
\* evicted, each pointer is in one place and has one user, and the chains have no holes.
THEOREM TableInvariance == Spec => [](ShimInv /\ TableInv)
<1>1. Init => TableInv
  BY TableInit
<1>2. ShimInv /\ TableInv /\ [Next]_vars => TableInv'
  <2> SUFFICES ASSUME ShimInv, TableInv, [Next]_vars PROVE TableInv'
    OBVIOUS
  <2>1. ASSUME NEW t \in Threads, MallocStep(t) \/ ReclaimStep(t) \/ FreeStep(t) PROVE TableInv'
    BY <2>1, TableStep DEF ShimInv
  <2>2. CASE UNCHANGED vars
    BY <2>2 DEF TableInv, Tidy, Quiet, Fresh, OnePlace, FromDriver, OneUser, Probes, Hand, Enters,
       HasSlot, InBvmm, Live, Found, Chain, vars
  <2> QED BY <2>1, <2>2 DEF Next
<1> QED BY <1>1, <1>2, ShimInvariance, PTL DEF Spec

\* As long as nothing was evicted, every pointer that the program has is in one table, once
\* for each time it got it, and the free that it will make finds it there: for any hash
\* function, any size of the table and any number of threads that probe it slot by slot.
THEOREM TablesAreExact == Spec => []TableExact
<1>1. ShimInv /\ TableInv => TableExact
  BY TableCounted DEF ShimInv
<1> QED BY <1>1, TableInvariance, PTL

-----------------------------------------------------------------------------
(* The counters, as long as nothing was evicted. *)

\* The sum of numbers over a finite set, counted, when one of them changes.
PagesOf(S, f) == UNION {{x} \X (1 .. f[x]) : x \in S}

LEMMA PagesCounted ==
  ASSUME NEW x, NEW n \in Nat
  PROVE  IsFiniteSet({x} \X (1 .. n)) /\ Cardinality({x} \X (1 .. n)) = n
<1> DEFINE A == {x}
           B == 1 .. n
<1>1. IsFiniteSet(A) /\ Cardinality(A) = 1
  BY FS_Singleton
<1>2. IsFiniteSet(B) /\ Cardinality(B) = n
  BY FS_Interval
<1> HIDE DEF A, B
<1>3. IsFiniteSet(A \X B) /\ Cardinality(A \X B) = Cardinality(A) * Cardinality(B)
  BY <1>1, <1>2, FS_Product
<1>4. Cardinality(A \X B) = 1 * n
  BY <1>1, <1>2, <1>3
<1> QED BY <1>3, <1>4 DEF A, B

LEMMA PagesBound ==
  ASSUME NEW S, IsFiniteSet(S), NEW m \in Nat, NEW f \in [S -> 0 .. m]
  PROVE  /\ IsFiniteSet(PagesOf(S, f)) /\ PagesOf(S, f) \subseteq S \X (1 .. m)
         /\ Total(f) = Cardinality(PagesOf(S, f)) /\ Total(f) \in Nat
         /\ Total(f) <= Cardinality(S) * m
<1> DEFINE B == 1 .. m
<1>1. ASSUME NEW x \in S PROVE 1 .. f[x] \subseteq B
  BY <1>1
<1>2. IsFiniteSet(B) /\ Cardinality(B) = m
  BY FS_Interval
<1>3. IsFiniteSet(S \X B) /\ Cardinality(S \X B) = Cardinality(S) * Cardinality(B)
  BY <1>2, FS_Product
<1>4. PagesOf(S, f) \subseteq S \X B
  <2>1. ASSUME NEW z \in PagesOf(S, f) PROVE z \in S \X B
    <3>1. PICK x \in S : z \in {x} \X (1 .. f[x])
      BY DEF PagesOf
    <3> QED BY <1>1, <3>1
  <2> QED BY <2>1
<1>5. Total(f) = Cardinality(PagesOf(S, f))
  BY DEF Total, PagesOf
<1> QED BY <1>2, <1>3, <1>4, <1>5, FS_Subset, FS_CardinalityType

LEMMA TotalMonotone ==
  ASSUME NEW S, IsFiniteSet(S), NEW m \in Nat, NEW f \in [S -> 0 .. m], NEW g \in [S -> 0 .. m],
         \A x \in S : f[x] <= g[x]
  PROVE  Total(f) <= Total(g)
<1>1. ASSUME NEW z \in PagesOf(S, f) PROVE z \in PagesOf(S, g)
  <2>1. PICK x \in S : z \in {x} \X (1 .. f[x])
    BY DEF PagesOf
  <2>2. 1 .. f[x] \subseteq 1 .. g[x]
    OBVIOUS
  <2>3. z \in {x} \X (1 .. g[x])
    BY <2>1, <2>2
  <2> QED BY <2>3 DEF PagesOf
<1>2. PagesOf(S, f) \subseteq PagesOf(S, g)
  BY <1>1
<1> QED BY <1>2, PagesBound, FS_Subset

LEMMA TotalChange ==
  ASSUME NEW S, IsFiniteSet(S), NEW m \in Nat, NEW f \in [S -> 0 .. m], NEW g \in [S -> 0 .. m],
         NEW x \in S, \A y \in S : y # x => g[y] = f[y]
  PROVE  Total(g) + f[x] = Total(f) + g[x] /\ Total(f) \in Nat /\ Total(g) \in Nat
<1> DEFINE R == PagesOf(S \ {x}, f)
           F == {x} \X (1 .. f[x])
           G == {x} \X (1 .. g[x])
<1>1. PagesOf(S, f) = R \cup F
  BY Zenon DEF PagesOf
<1>2. PagesOf(S, g) = R \cup G
  <2>1. R = PagesOf(S \ {x}, g)
    BY Zenon DEF PagesOf
  <2>2. PagesOf(S, g) = PagesOf(S \ {x}, g) \cup G
    BY Zenon DEF PagesOf
  <2> QED BY <2>1, <2>2
<1>3. IsFiniteSet(R)
  BY <1>1, PagesBound, FS_Subset
<1>4. R \cap F = {} /\ R \cap G = {}
  <2>1. ASSUME NEW z \in R PROVE z[1] # x
    <3>1. PICK y \in S \ {x} : z \in {y} \X (1 .. f[y])
      BY DEF PagesOf
    <3> QED BY <3>1
  <2>2. \A z \in F \cup G : z[1] = x
    OBVIOUS
  <2> QED BY <2>1, <2>2
<1>8. f[x] \in Nat /\ g[x] \in Nat
  OBVIOUS
<1>5. IsFiniteSet(F) /\ Cardinality(F) = f[x] /\ IsFiniteSet(G) /\ Cardinality(G) = g[x]
  BY <1>8, PagesCounted
<1>6. Cardinality(R) \in Nat /\ Cardinality({}) = 0
  BY <1>3, FS_CardinalityType, FS_EmptySet
<1>7. Total(f) = Cardinality(R \cup F) /\ Total(g) = Cardinality(R \cup G)
  <2>1. Total(f) = Cardinality(PagesOf(S, f)) /\ Total(g) = Cardinality(PagesOf(S, g))
    BY PagesBound
  <2> HIDE DEF R, F, G
  <2> QED BY <1>1, <1>2, <2>1
<1> HIDE DEF R, F, G
<1>9. Cardinality(R \cup F) = Cardinality(R) + f[x]
  BY <1>3, <1>4, <1>5, <1>6, <1>8, FS_Union
<1>10. Cardinality(R \cup G) = Cardinality(R) + g[x]
  BY <1>3, <1>4, <1>5, <1>6, <1>8, FS_Union
<1> QED BY <1>6, <1>7, <1>8, <1>9, <1>10

\* The arithmetic of the counters, which are 64 bits wide.
LEMMA AddExact ==
  ASSUME NEW x \in 0 .. Word - 1, NEW n \in Nat, x + n < Word
  PROVE  Add(x, n) = x + n
BY ShimConstants DEF Add

LEMMA SubExact ==
  ASSUME NEW x \in 0 .. Word - 1, NEW n \in Nat, n <= x
  PROVE  Sub(x, n) = x - n
<1>1. n % Word = n
  BY ShimConstants
<1>2. (x - n + Word) % Word = x - n
  BY ShimConstants
<1> QED BY <1>1, <1>2, ShimConstants DEF Sub

\* Memory that fits the address space: sizes, tables and threads at their largest do not
\* overflow a counter.
Fits(m) ==
  /\ m \in Nat /\ \A sz \in Sizes : sz <= m
  /\ IsFiniteSet(Host)
  /\ (HtSize + Cardinality(Host) + Cardinality(Threads)) * m < Word

Reserved == [t \in Threads |-> IF th[t].pc = "zerocopy" THEN th[t].size ELSE 0]

Late(t) == th[t].pc \in {"flags", "count"}

\* An entry has the size that the call which has made it will count, if it is not of the
\* card.
LateSizes ==
  /\ \A t \in Threads : th[t].pc = "count" => th[t].ptr \in Mapped
  /\ \A t \in Threads, s \in Slots :
       Late(t) /\ table[s].ptr = th[t].ptr => table[s].size = th[t].size

\* What is given out and what is reserved fit the cap together, which a request compares
\* the counter with.
Counts ==
  /\ t2 = Total(T2Entries) + Total(bvmm) + Total(T2Calls)
  /\ t1 = Total(T1Entries) + Total(T1Calls)
  /\ Total(bvmm) + Total(Reserved) <= Cap
  /\ LateSizes

CountInv == reclaims = 0 => Counts

LEMMA NumbersType ==
  ASSUME NEW m, Fits(m), TypeInv
  PROVE  /\ T2Entries \in [Slots -> 0 .. m] /\ T1Entries \in [Slots -> 0 .. m]
         /\ bvmm \in [Host -> 0 .. m] /\ Reserved \in [Threads -> 0 .. m]
         /\ T2Calls \in [Threads -> 0 .. m] /\ T1Calls \in [Threads -> 0 .. m]
<1>1. m \in Nat /\ Sizes \cup {0} \subseteq 0 .. m
  BY ShimConstants DEF Fits
<1>2. \A t \in Threads : th[t].size \in Sizes \cup {0}
  BY CallType
<1>3. \A s \in Slots : table[s].ptr \in Ptrs => table[s].size \in Sizes
  BY ShimConstants DEF TypeInv, Live
<1>4. \A s \in Slots : table[s].ptr \in Mapped \/ table[s].ptr \in Dev => table[s].ptr \in Ptrs
  BY DEF Mapped, Ptrs
<1>5. T2Entries \in [Slots -> 0 .. m] /\ T1Entries \in [Slots -> 0 .. m]
  BY <1>1, <1>3, <1>4 DEF T2Entries, T1Entries
<1>6. bvmm \in [Host -> 0 .. m]
  BY <1>1 DEF TypeInv
<1>7. Reserved \in [Threads -> 0 .. m] /\ T2Calls \in [Threads -> 0 .. m] /\ T1Calls \in [Threads -> 0 .. m]
  BY <1>1, <1>2 DEF Reserved, T2Calls, T1Calls
<1> QED BY <1>5, <1>6, <1>7

LEMMA NumbersTypeNext ==
  ASSUME NEW m, Fits(m), TypeInv'
  PROVE  /\ T2Entries' \in [Slots -> 0 .. m] /\ T1Entries' \in [Slots -> 0 .. m]
         /\ bvmm' \in [Host -> 0 .. m] /\ Reserved' \in [Threads -> 0 .. m]
         /\ T2Calls' \in [Threads -> 0 .. m] /\ T1Calls' \in [Threads -> 0 .. m]
<1>1. m \in Nat /\ Sizes \cup {0} \subseteq 0 .. m
  BY ShimConstants DEF Fits
<1>2. \A t \in Threads : th'[t].size \in Sizes \cup {0}
  BY DEF TypeInv, Calls, Thread
<1>3. \A s \in Slots : table'[s].ptr \in Ptrs => table'[s].size \in Sizes
  BY ShimConstants DEF TypeInv, Live
<1>4. \A s \in Slots : table'[s].ptr \in Mapped \/ table'[s].ptr \in Dev => table'[s].ptr \in Ptrs
  BY DEF Mapped, Ptrs
<1>5. T2Entries' \in [Slots -> 0 .. m] /\ T1Entries' \in [Slots -> 0 .. m]
  BY <1>1, <1>3, <1>4 DEF T2Entries, T1Entries
<1>6. bvmm' \in [Host -> 0 .. m]
  BY <1>1 DEF TypeInv
<1>7. Reserved' \in [Threads -> 0 .. m] /\ T2Calls' \in [Threads -> 0 .. m] /\ T1Calls' \in [Threads -> 0 .. m]
  BY <1>1, <1>2 DEF Reserved, T2Calls, T1Calls
<1> QED BY <1>5, <1>6, <1>7

LEMMA SlotsFinite == IsFiniteSet(Slots) /\ Cardinality(Slots) = HtSize
BY ShimConstants, FS_Interval DEF Slots

LEMMA SumsFit ==
  ASSUME NEW m, Fits(m), NEW e \in [Slots -> 0 .. m], NEW b \in [Host -> 0 .. m],
         NEW c \in [Threads -> 0 .. m]
  PROVE  /\ Total(e) \in Nat /\ Total(b) \in Nat /\ Total(c) \in Nat
         /\ Total(e) + Total(b) + Total(c) < Word
<1>1. m \in Nat /\ IsFiniteSet(Host) /\ IsFiniteSet(Threads)
  BY ShimAssumption DEF Fits
<1> DEFINE x == HtSize
           y == Cardinality(Host)
           z == Cardinality(Threads)
<1>2. Total(e) \in Nat /\ Total(e) <= x * m
  BY <1>1, SlotsFinite, PagesBound
<1>3. Total(b) \in Nat /\ Total(b) <= y * m
  BY <1>1, PagesBound
<1>4. Total(c) \in Nat /\ Total(c) <= z * m
  BY <1>1, PagesBound
<1>5. x \in Nat /\ y \in Nat /\ z \in Nat /\ Word \in Nat /\ (x + y + z) * m < Word
  BY <1>1, ShimConstants, FS_CardinalityType DEF Fits
<1> HIDE DEF x, y, z
<1>6. (x + y + z) * m = x * m + y * m + z * m
  BY <1>1, <1>5
<1>7. x * m \in Nat /\ y * m \in Nat /\ z * m \in Nat
  BY <1>1, <1>5
<1> QED BY <1>2, <1>3, <1>4, <1>5, <1>6, <1>7

\* What one call's step does to the sums over the calls.
LEMMA CallsChange ==
  ASSUME NEW m, Fits(m), TypeInv, TypeInv', NEW t \in Threads,
         \A v \in Threads : v # t => th'[v] = th[v]
  PROVE  /\ Total(T2Calls)' + T2Calls[t] = Total(T2Calls) + T2Calls'[t]
         /\ Total(T1Calls)' + T1Calls[t] = Total(T1Calls) + T1Calls'[t]
         /\ Total(Reserved)' + Reserved[t] = Total(Reserved) + Reserved'[t]
<1>1. m \in Nat /\ IsFiniteSet(Threads)
  BY ShimAssumption DEF Fits
<1>2. /\ \A v \in Threads : v # t => T2Calls'[v] = T2Calls[v]
      /\ \A v \in Threads : v # t => T1Calls'[v] = T1Calls[v]
      /\ \A v \in Threads : v # t => Reserved'[v] = Reserved[v]
  BY DEF T2Calls, T1Calls, Reserved, InHand
<1>3. /\ T2Calls \in [Threads -> 0 .. m] /\ T2Calls' \in [Threads -> 0 .. m]
      /\ T1Calls \in [Threads -> 0 .. m] /\ T1Calls' \in [Threads -> 0 .. m]
      /\ Reserved \in [Threads -> 0 .. m] /\ Reserved' \in [Threads -> 0 .. m]
  BY NumbersType, NumbersTypeNext
<1>4. \A f, g \in [Threads -> 0 .. m] :
        (\A v \in Threads : v # t => g[v] = f[v]) => Total(g) + f[t] = Total(f) + g[t]
  BY <1>1, TotalChange
<1>5. Total(T2Calls)' + T2Calls[t] = Total(T2Calls) + T2Calls'[t]
  BY <1>2, <1>3, <1>4
<1>6. Total(T1Calls)' + T1Calls[t] = Total(T1Calls) + T1Calls'[t]
  BY <1>2, <1>3, <1>4
<1>7. Total(Reserved)' + Reserved[t] = Total(Reserved) + Reserved'[t]
  BY <1>2, <1>3, <1>4
<1> QED BY <1>5, <1>6, <1>7

LEMMA EntriesSame ==
  ASSUME TypeInv, LateSizes, NEW t \in Threads, \A v \in Threads : v # t => th'[v] = th[v],
         table' = table, ~Late(t), ~Late(t)'
  PROVE  T2Entries' = T2Entries /\ T1Entries' = T1Entries /\ LateSizes'
<1>1. \A v \in Threads : (Late(v)' <=> Late(v)) /\ (Late(v) => th'[v] = th[v])
  BY DEF Late
<1>2. \A s \in Slots : Uncounted(s)' <=> Uncounted(s)
  BY <1>1 DEF Uncounted, Late
<1>3. T2Entries' = T2Entries /\ T1Entries' = T1Entries
  BY <1>2 DEF T2Entries, T1Entries
<1>4. LateSizes'
  BY <1>1 DEF LateSizes, Late
<1> QED BY <1>3, <1>4

\* A step that changes nothing that is counted.
LEMMA CountsFrame ==
  ASSUME NEW m, Fits(m), TypeInv, TypeInv', Counts, NEW t \in Threads,
         \A v \in Threads : v # t => th'[v] = th[v],
         UNCHANGED <<table, bvmm, t1, t2>>, ~Late(t), ~Late(t)',
         T2Calls'[t] = T2Calls[t], T1Calls'[t] = T1Calls[t], Reserved'[t] = Reserved[t]
  PROVE  Counts'
<1>1. /\ T2Calls[t] \in Nat /\ T1Calls[t] \in Nat /\ Reserved[t] \in Nat
      /\ Total(T2Calls) \in Nat /\ Total(T1Calls) \in Nat /\ Total(Reserved) \in Nat
      /\ Total(T2Calls)' \in Nat /\ Total(T1Calls)' \in Nat /\ Total(Reserved)' \in Nat
  BY NumbersType, NumbersTypeNext, SumsFit DEF Fits
<1>2. Total(T2Calls)' = Total(T2Calls) /\ Total(T1Calls)' = Total(T1Calls) /\ Total(Reserved)' = Total(Reserved)
  BY <1>1, CallsChange
<1>3. T2Entries' = T2Entries /\ T1Entries' = T1Entries /\ LateSizes'
  BY EntriesSame DEF Counts
<1>4. Total(bvmm)' = Total(bvmm) /\ Total(T2Entries)' = Total(T2Entries) /\ Total(T1Entries)' = Total(T1Entries)
  BY <1>3
<1> QED BY <1>2, <1>3, <1>4 DEF Counts

\* What is reserved and not given out yet is part of what the calls have in the counter.
LEMMA ReservedCounted ==
  ASSUME NEW m, Fits(m), TypeInv
  PROVE  Total(Reserved) <= Total(T2Calls)
<1>1. m \in Nat /\ IsFiniteSet(Threads)
  BY ShimAssumption DEF Fits
<1>2. Reserved \in [Threads -> 0 .. m] /\ T2Calls \in [Threads -> 0 .. m]
  BY NumbersType
<1>3. \A t \in Threads : th[t].size \in Nat
  BY CallType
<1>4. \A t \in Threads : Reserved[t] <= T2Calls[t]
  BY <1>3 DEF Reserved, T2Calls
<1> QED BY <1>1, <1>2, <1>4, TotalMonotone

\* The sums that a step of call t leaves, and those before it.
LEMMA SumsType ==
  ASSUME NEW m, Fits(m), TypeInv, NEW t \in Threads
  PROVE  /\ Total(T2Entries) \in Nat /\ Total(T1Entries) \in Nat /\ Total(bvmm) \in Nat
         /\ Total(T2Calls) \in Nat /\ Total(T1Calls) \in Nat /\ Total(Reserved) \in Nat
         /\ T2Calls[t] \in Nat /\ T1Calls[t] \in Nat /\ Reserved[t] \in Nat
         /\ t1 \in 0 .. Word - 1 /\ t2 \in 0 .. Word - 1
<1>1. /\ T2Entries \in [Slots -> 0 .. m] /\ T1Entries \in [Slots -> 0 .. m]
      /\ bvmm \in [Host -> 0 .. m] /\ Reserved \in [Threads -> 0 .. m]
      /\ T2Calls \in [Threads -> 0 .. m] /\ T1Calls \in [Threads -> 0 .. m] /\ m \in Nat
  BY NumbersType DEF Fits
<1>2. /\ Total(T2Entries) \in Nat /\ Total(T1Entries) \in Nat /\ Total(bvmm) \in Nat
      /\ Total(T2Calls) \in Nat /\ Total(T1Calls) \in Nat /\ Total(Reserved) \in Nat
  BY <1>1, SumsFit
<1>3. T2Calls[t] \in Nat /\ T1Calls[t] \in Nat /\ Reserved[t] \in Nat
  BY <1>1
<1> QED BY <1>2, <1>3 DEF TypeInv

LEMMA SumsTypeNext ==
  ASSUME NEW m, Fits(m), TypeInv', NEW t \in Threads
  PROVE  /\ Total(T2Entries)' \in Nat /\ Total(T1Entries)' \in Nat /\ Total(bvmm)' \in Nat
         /\ Total(T2Calls)' \in Nat /\ Total(T1Calls)' \in Nat /\ Total(Reserved)' \in Nat
         /\ T2Calls'[t] \in Nat /\ T1Calls'[t] \in Nat /\ Reserved'[t] \in Nat
         /\ Total(T2Entries)' + Total(bvmm)' + Total(T2Calls)' < Word
         /\ Total(T1Entries)' + Total(T1Calls)' < Word
<1>1. /\ T2Entries' \in [Slots -> 0 .. m] /\ T1Entries' \in [Slots -> 0 .. m]
      /\ bvmm' \in [Host -> 0 .. m] /\ Reserved' \in [Threads -> 0 .. m]
      /\ T2Calls' \in [Threads -> 0 .. m] /\ T1Calls' \in [Threads -> 0 .. m] /\ m \in Nat
  BY NumbersTypeNext DEF Fits
<1>2. /\ Total(T2Entries)' \in Nat /\ Total(T1Entries)' \in Nat /\ Total(bvmm)' \in Nat
      /\ Total(T2Calls)' \in Nat /\ Total(T1Calls)' \in Nat /\ Total(Reserved)' \in Nat
  BY <1>1, SumsFit
<1>3. T2Calls'[t] \in Nat /\ T1Calls'[t] \in Nat /\ Reserved'[t] \in Nat
  BY <1>1
<1>4. Total(T2Entries)' + Total(bvmm)' + Total(T2Calls)' < Word
  BY <1>1, SumsFit
<1>5. Total(T1Entries)' + Total(bvmm)' + Total(T1Calls)' < Word
  BY <1>1, SumsFit
<1> QED BY <1>2, <1>3, <1>4, <1>5, ShimConstants

\* A step that changes the counter of T2 together with what its call has in it.
LEMMA CountsT2 ==
  ASSUME NEW m, Fits(m), TypeInv, TypeInv', Counts, NEW t \in Threads,
         \A v \in Threads : v # t => th'[v] = th[v],
         UNCHANGED <<table, bvmm, t1>>, ~Late(t), ~Late(t)', T1Calls'[t] = T1Calls[t],
         NEW n \in Nat,
         \/ t2' = Add(t2, n) /\ T2Calls'[t] = T2Calls[t] + n
         \/ t2' = Sub(t2, n) /\ T2Calls[t] = T2Calls'[t] + n,
         Reserved'[t] = Reserved[t] \/ (Reserved[t] = 0 /\ t2 + Reserved'[t] <= Cap)
  PROVE  Counts'
<1>1. /\ Total(T2Entries) \in Nat /\ Total(T1Entries) \in Nat /\ Total(bvmm) \in Nat
      /\ Total(T2Calls) \in Nat /\ Total(T1Calls) \in Nat /\ Total(Reserved) \in Nat
      /\ T2Calls[t] \in Nat /\ T1Calls[t] \in Nat /\ Reserved[t] \in Nat
      /\ t2 \in 0 .. Word - 1
  BY SumsType
<1>2. /\ Total(T2Calls)' \in Nat /\ Total(T1Calls)' \in Nat /\ Total(Reserved)' \in Nat
      /\ T2Calls'[t] \in Nat /\ T1Calls'[t] \in Nat /\ Reserved'[t] \in Nat
      /\ Total(T2Entries)' + Total(bvmm)' + Total(T2Calls)' < Word
  BY SumsTypeNext
<1>3. T2Entries' = T2Entries /\ T1Entries' = T1Entries /\ LateSizes'
  BY EntriesSame DEF Counts
<1>4. Total(bvmm)' = Total(bvmm) /\ Total(T2Entries)' = Total(T2Entries) /\ Total(T1Entries)' = Total(T1Entries)
  BY <1>3
<1>5. /\ Total(T2Calls)' + T2Calls[t] = Total(T2Calls) + T2Calls'[t]
      /\ Total(T1Calls)' + T1Calls[t] = Total(T1Calls) + T1Calls'[t]
      /\ Total(Reserved)' + Reserved[t] = Total(Reserved) + Reserved'[t]
  BY CallsChange
<1>6. t2 = Total(T2Entries) + Total(bvmm) + Total(T2Calls)
  BY DEF Counts
<1>7. t2' = Total(T2Entries)' + Total(bvmm)' + Total(T2Calls)'
  <2>1. CASE t2' = Add(t2, n) /\ T2Calls'[t] = T2Calls[t] + n
    <3>1. Total(T2Calls)' = Total(T2Calls) + n
      BY <1>1, <1>2, <1>5, <2>1
    <3>2. t2 + n < Word
      BY <1>1, <1>2, <1>4, <1>6, <3>1
    <3> QED BY <1>1, <1>4, <1>6, <2>1, <3>1, <3>2, AddExact
  <2>2. CASE t2' = Sub(t2, n) /\ T2Calls[t] = T2Calls'[t] + n
    <3>1. Total(T2Calls) = Total(T2Calls)' + n
      BY <1>1, <1>2, <1>5, <2>2
    <3>2. n <= t2
      BY <1>1, <1>2, <1>6, <3>1
    <3>3. t2' = t2 - n
      BY <1>1, <2>2, <3>2, SubExact
    <3> QED BY <1>1, <1>2, <1>4, <1>6, <3>1, <3>3
  <2> QED BY <2>1, <2>2
<1>8. t1' = Total(T1Entries)' + Total(T1Calls)'
  <2>1. Total(T1Calls)' = Total(T1Calls)
    <3>1. Total(T1Calls)' + T1Calls[t] = Total(T1Calls) + T1Calls[t]
      BY <1>5
    <3>2. Total(T1Calls)' \in Nat /\ Total(T1Calls) \in Nat /\ T1Calls[t] \in Nat
      BY <1>1, <1>2
    <3> QED BY <3>1, <3>2
  <2>2. t1 = Total(T1Entries) + Total(T1Calls)
    BY DEF Counts
  <2> QED BY <1>4, <2>1, <2>2
<1>9. Total(bvmm)' + Total(Reserved)' <= Cap
  <2>1. Cap \in Nat /\ Total(Reserved) <= Total(T2Calls) /\ Total(bvmm) + Total(Reserved) <= Cap
    BY ReservedCounted, ShimConstants DEF Counts
  <2>2. CASE Reserved'[t] = Reserved[t]
    BY <1>1, <1>2, <1>4, <1>5, <2>1, <2>2
  <2>3. CASE Reserved[t] = 0 /\ t2 + Reserved'[t] <= Cap
    <3>1. Total(bvmm) + Total(Reserved) <= t2
      BY <1>1, <1>6, <2>1
    <3> QED BY <1>1, <1>2, <1>4, <1>5, <2>1, <2>3, <3>1
  <2> QED BY <2>2, <2>3
<1> QED BY <1>3, <1>7, <1>8, <1>9 DEF Counts

\* The same for the card.
LEMMA CountsT1 ==
  ASSUME NEW m, Fits(m), TypeInv, TypeInv', Counts, NEW t \in Threads,
         \A v \in Threads : v # t => th'[v] = th[v],
         UNCHANGED <<table, bvmm, t2>>, ~Late(t), ~Late(t)', T2Calls'[t] = T2Calls[t],
         Reserved'[t] = Reserved[t], NEW n \in Nat,
         \/ t1' = Add(t1, n) /\ T1Calls'[t] = T1Calls[t] + n
         \/ t1' = Sub(t1, n) /\ T1Calls[t] = T1Calls'[t] + n
  PROVE  Counts'
<1>1. /\ Total(T2Entries) \in Nat /\ Total(T1Entries) \in Nat /\ Total(bvmm) \in Nat
      /\ Total(T2Calls) \in Nat /\ Total(T1Calls) \in Nat /\ Total(Reserved) \in Nat
      /\ T2Calls[t] \in Nat /\ T1Calls[t] \in Nat /\ Reserved[t] \in Nat
      /\ t1 \in 0 .. Word - 1
  BY SumsType
<1>2. /\ Total(T2Calls)' \in Nat /\ Total(T1Calls)' \in Nat /\ Total(Reserved)' \in Nat
      /\ T2Calls'[t] \in Nat /\ T1Calls'[t] \in Nat /\ Reserved'[t] \in Nat
      /\ Total(T1Entries)' + Total(T1Calls)' < Word
  BY SumsTypeNext
<1>3. T2Entries' = T2Entries /\ T1Entries' = T1Entries /\ LateSizes'
  BY EntriesSame DEF Counts
<1>4. Total(bvmm)' = Total(bvmm) /\ Total(T2Entries)' = Total(T2Entries) /\ Total(T1Entries)' = Total(T1Entries)
  BY <1>3
<1>5. /\ Total(T2Calls)' = Total(T2Calls) /\ Total(Reserved)' = Total(Reserved)
      /\ Total(T1Calls)' + T1Calls[t] = Total(T1Calls) + T1Calls'[t]
  <2>1. /\ Total(T2Calls)' + T2Calls[t] = Total(T2Calls) + T2Calls'[t]
        /\ Total(T1Calls)' + T1Calls[t] = Total(T1Calls) + T1Calls'[t]
        /\ Total(Reserved)' + Reserved[t] = Total(Reserved) + Reserved'[t]
    BY CallsChange
  <2> QED BY <1>1, <1>2, <2>1
<1>6. t1 = Total(T1Entries) + Total(T1Calls)
  BY DEF Counts
<1>7. t1' = Total(T1Entries)' + Total(T1Calls)'
  <2>1. CASE t1' = Add(t1, n) /\ T1Calls'[t] = T1Calls[t] + n
    <3>1. Total(T1Calls)' = Total(T1Calls) + n
      BY <1>1, <1>2, <1>5, <2>1
    <3>2. t1 + n < Word
      BY <1>1, <1>2, <1>4, <1>6, <3>1
    <3> QED BY <1>1, <1>4, <1>6, <2>1, <3>1, <3>2, AddExact
  <2>2. CASE t1' = Sub(t1, n) /\ T1Calls[t] = T1Calls'[t] + n
    <3>1. Total(T1Calls) = Total(T1Calls)' + n
      BY <1>1, <1>2, <1>5, <2>2
    <3>2. n <= t1
      BY <1>1, <1>2, <1>6, <3>1
    <3>3. t1' = t1 - n
      BY <1>1, <2>2, <3>2, SubExact
    <3> QED BY <1>1, <1>2, <1>4, <1>6, <3>1, <3>3
  <2> QED BY <2>1, <2>2
<1> QED BY <1>3, <1>4, <1>5, <1>7 DEF Counts

\* The stages, and the pointers of an entry to be made, that no counter has anything for.
Light(r) ==
  \/ r.pc \in {"idle", "overflow", "pool", "pinned", "pathb", "hostreg", "failed", "oom", "remove",
               "realfree"}
  \/ r.pc \in {"insert", "full"} /\ r.ptr \in Mapped

LEMMA LightCall ==
  ASSUME NEW t \in Threads, Light(th[t])
  PROVE  T2Calls[t] = 0 /\ T1Calls[t] = 0 /\ Reserved[t] = 0 /\ ~Late(t)
<1>1. \A p : p \in Mapped => p \notin Dev
  BY ShimConstants DEF Mapped
<1> QED BY <1>1 DEF Light, T2Calls, T1Calls, Reserved, Late, InHand

LEMMA LightCallNext ==
  ASSUME NEW t \in Threads, Light(th'[t])
  PROVE  T2Calls'[t] = 0 /\ T1Calls'[t] = 0 /\ Reserved'[t] = 0 /\ ~Late(t)'
<1>1. \A p : p \in Mapped => p \notin Dev
  BY ShimConstants DEF Mapped
<1> QED BY <1>1 DEF Light, T2Calls, T1Calls, Reserved, Late, InHand

LEMMA CountsLight ==
  ASSUME NEW m, Fits(m), TypeInv, TypeInv', Counts, NEW t \in Threads,
         NEW r, th' = [th EXCEPT ![t] = r], UNCHANGED <<table, bvmm, t1, t2>>,
         Light(th[t]), Light(r)
  PROVE  Counts'
<1>1. th'[t] = r /\ \A v \in Threads : v # t => th'[v] = th[v]
  BY DEF TypeInv
<1>2. T2Calls[t] = 0 /\ T1Calls[t] = 0 /\ Reserved[t] = 0 /\ ~Late(t)
  BY LightCall
<1>3. T2Calls'[t] = 0 /\ T1Calls'[t] = 0 /\ Reserved'[t] = 0 /\ ~Late(t)'
  BY <1>1, LightCallNext
<1> QED BY <1>1, <1>2, <1>3, CountsFrame

\* Where a call stands after a step that changes its stage alone.
LEMMA ToNow ==
  ASSUME TypeInv, NEW t \in Threads, NEW pc, To(t, pc)
  PROVE  /\ \A v \in Threads : v # t => th'[v] = th[v]
         /\ th'[t].pc = pc /\ th'[t].ptr = th[t].ptr /\ th'[t].size = th[t].size
         /\ th' = [th EXCEPT ![t] = th'[t]]
<1>1. th[t] \in Thread
  BY CallType DEF Calls
<1>2. th' = [th EXCEPT ![t] = [th[t] EXCEPT !.pc = pc]]
  BY DEF To
<1>3. th'[t] = [th[t] EXCEPT !.pc = pc]
  BY <1>2 DEF TypeInv
<1>4. \A v \in Threads : v # t => th'[v] = th[v]
  BY <1>2 DEF TypeInv
<1> QED BY <1>1, <1>2, <1>3, <1>4, ZenonT(40) DEF Thread

LEMMA RestNow ==
  ASSUME TypeInv, NEW t \in Threads, Rest(t)
  PROVE  /\ \A v \in Threads : v # t => th'[v] = th[v]
         /\ th'[t] = Idle /\ Light(th'[t]) /\ th' = [th EXCEPT ![t] = th'[t]]
<1>1. th' = [th EXCEPT ![t] = Idle]
  BY DEF Rest
<1>2. th'[t] = Idle /\ \A v \in Threads : v # t => th'[v] = th[v]
  BY <1>1 DEF TypeInv
<1>3. Light(Idle)
  BY DEF Light, Idle
<1> QED BY <1>1, <1>2, <1>3

LEMMA ToLight ==
  ASSUME NEW m, Fits(m), TypeInv, TypeInv', Counts, NEW t \in Threads, NEW pc, To(t, pc),
         UNCHANGED <<table, bvmm, t1, t2>>, Light(th[t]),
         pc \in {"idle", "overflow", "pool", "pinned", "pathb", "hostreg", "failed", "oom", "remove",
                 "realfree"}
  PROVE  Counts'
<1>1. th'[t].pc = pc /\ th' = [th EXCEPT ![t] = th'[t]]
  BY ToNow
<1>2. Light(th'[t])
  BY <1>1 DEF Light
<1> QED BY <1>1, <1>2, CountsLight

LEMMA RestLight ==
  ASSUME NEW m, Fits(m), TypeInv, TypeInv', Counts, NEW t \in Threads, Rest(t),
         UNCHANGED <<table, bvmm, t1, t2>>, Light(th[t])
  PROVE  Counts'
BY RestNow, CountsLight

LEMMA MallocOnCardCounts ==
  ASSUME NEW m, Fits(m), TypeInv, TypeInv', Counts, NEW t \in Threads, MallocOnCard(t)
  PROVE  Counts'
<1>1. PICK sz \in Sizes, d \in Dev \ real :
        /\ t1' = Add(t1, sz)
        /\ th' = [th EXCEPT ![t] = [Idle EXCEPT !.pc = "insert", !.ptr = d, !.size = sz]]
  BY DEF MallocOnCard
<1> DEFINE r == [Idle EXCEPT !.pc = "insert", !.ptr = d, !.size = sz]
<1>2. r.pc = "insert" /\ r.ptr = d /\ r.size = sz
  BY DEF Idle
<1> HIDE DEF r
<1>3. th' = [th EXCEPT ![t] = r]
  BY <1>1 DEF r
<1>4. th'[t] = r /\ \A v \in Threads : v # t => th'[v] = th[v]
  BY <1>3 DEF TypeInv
<1>5. Light(th[t]) /\ UNCHANGED <<table, bvmm, t2>>
  BY DEF Light, MallocOnCard, At
<1>6. T2Calls[t] = 0 /\ T1Calls[t] = 0 /\ Reserved[t] = 0 /\ ~Late(t)
  BY <1>5, LightCall
<1>7. T2Calls'[t] = 0 /\ T1Calls'[t] = sz /\ Reserved'[t] = 0 /\ ~Late(t)'
  BY <1>2, <1>4 DEF T2Calls, T1Calls, Reserved, Late, InHand
<1>8. sz \in Nat
  BY ShimConstants
<1> QED BY <1>1, <1>4, <1>5, <1>6, <1>7, <1>8, CountsT1

LEMMA MallocOverflowCounts ==
  ASSUME NEW m, Fits(m), TypeInv, TypeInv', Counts, NEW t \in Threads, MallocOverflow(t)
  PROVE  Counts'
<1>1. PICK sz \in Sizes, try \in {1} \cup (IF t2 >= Mid THEN {2} ELSE {}) :
        th' = [th EXCEPT ![t] = [Idle EXCEPT !.pc = "overflow", !.size = sz, !.try = try]]
  BY DEF MallocOverflow
<1>2. Light([Idle EXCEPT !.pc = "overflow", !.size = sz, !.try = try])
  BY DEF Idle, Light
<1>3. Light(th[t]) /\ UNCHANGED <<table, bvmm, t1, t2>>
  BY DEF Light, MallocOverflow, At
<1> QED BY <1>1, <1>2, <1>3, CountsLight

LEMMA OverflowCounts ==
  ASSUME NEW m, Fits(m), TypeInv, TypeInv', Counts, NEW t \in Threads, Overflow(t)
  PROVE  Counts'
<1>1. Light(th[t]) /\ UNCHANGED <<table, bvmm, t1, t2>>
  BY DEF Light, Overflow, At
<1> QED BY <1>1, ToLight DEF Overflow

LEMMA PathBCounts ==
  ASSUME NEW m, Fits(m), TypeInv, TypeInv', Counts, NEW t \in Threads, PathB(t)
  PROVE  Counts'
<1>1. Light(th[t]) /\ UNCHANGED <<table, bvmm, t1, t2>>
  BY DEF Light, PathB, At
<1> QED BY <1>1, ToLight DEF PathB

LEMMA AllocPoolCounts ==
  ASSUME NEW m, Fits(m), TypeInv, TypeInv', RegionInv, Counts, NEW t \in Threads, AllocPool(t)
  PROVE  Counts'
<1>1. Light(th[t]) /\ UNCHANGED <<table, bvmm, t1, t2>> /\ th[t].size \in Sizes
  BY CallType DEF Light, AllocPool, At, WithSize, Pcs
<1>2. CASE Serving(free, th[t].size) = {}
  BY <1>1, <1>2, ToLight DEF AllocPool
<1>3. CASE Serving(free, th[t].size) # {}
  <2> DEFINE p == Chosen(free, th[t].size).seg.off
             r == [th[t] EXCEPT !.pc = "insert", !.ptr = p]
  <2>1. th[t] \in Thread /\ ListsOK(free) /\ th[t].size \in Nat \ {0}
    BY <1>1, CallType, ShimConstants DEF Calls, RegionInv, Shared
  <2>2. p \in Mapped
    BY <1>3, <2>1, PoolAllocOK DEF Mapped
  <2>3. r.pc = "insert" /\ r.ptr = p
    BY <2>1 DEF Thread
  <2>4. th' = [th EXCEPT ![t] = r]
    BY <1>3 DEF AllocPool
  <2> HIDE DEF p, r
  <2>5. Light(r)
    BY <2>2, <2>3 DEF Light
  <2> QED BY <1>1, <2>4, <2>5, CountsLight
<1> QED BY <1>2, <1>3

LEMMA RegisterCounts ==
  ASSUME NEW m, Fits(m), TypeInv, TypeInv', Counts, NEW t \in Threads, Register(t), Light(th[t]),
         UNCHANGED <<table, bvmm, t1, t2>>
  PROVE  Counts'
<1>1. PICK h \in Registered \ real : th' = [th EXCEPT ![t].pc = "insert", ![t].ptr = h]
  BY DEF Register
<1> DEFINE r == [th[t] EXCEPT !.pc = "insert", !.ptr = h]
<1>2. th[t] \in Thread
  BY CallType DEF Calls
<1>3. r.pc = "insert" /\ r.ptr = h
  BY <1>2 DEF Thread
<1>4. th' = [th EXCEPT ![t] = r]
  BY <1>1
<1>5. h \in Mapped
  BY ShimConstants DEF Mapped
<1> HIDE DEF r
<1>6. Light(r)
  BY <1>3, <1>5 DEF Light
<1> QED BY <1>4, <1>6, CountsLight

LEMMA AllocPinnedCounts ==
  ASSUME NEW m, Fits(m), TypeInv, TypeInv', Counts, NEW t \in Threads, AllocPinned(t)
  PROVE  Counts'
<1>1. Light(th[t]) /\ UNCHANGED <<table, bvmm, t1, t2>>
  BY DEF Light, AllocPinned, At
<1> QED BY <1>1, ToLight, RegisterCounts DEF AllocPinned

LEMMA AllocHostRegCounts ==
  ASSUME NEW m, Fits(m), TypeInv, TypeInv', Counts, NEW t \in Threads, AllocHostReg(t)
  PROVE  Counts'
<1>1. Light(th[t]) /\ UNCHANGED <<table, bvmm, t1, t2>>
  BY DEF Light, AllocHostReg, At
<1> QED BY <1>1, ToLight, RegisterCounts DEF AllocHostReg

LEMMA FailedCounts ==
  ASSUME NEW m, Fits(m), TypeInv, TypeInv', Counts, NEW t \in Threads, Failed(t)
  PROVE  Counts'
<1>1. Light(th[t]) /\ UNCHANGED <<table, bvmm, t1, t2>>
  BY DEF Light, Failed, At
<1>2. CASE th' = [th EXCEPT ![t].pc = "overflow", ![t].try = 2]
  <2> DEFINE r == [th[t] EXCEPT !.pc = "overflow", !.try = 2]
  <2>1. th[t] \in Thread
    BY CallType DEF Calls
  <2>2. Light(r)
    BY <2>1 DEF Thread, Light
  <2>3. th' = [th EXCEPT ![t] = r]
    BY <1>2
  <2> HIDE DEF r
  <2> QED BY <1>1, <2>2, <2>3, CountsLight
<1> QED BY <1>1, <1>2, ToLight, RestLight DEF Failed

LEMMA OomCounts ==
  ASSUME NEW m, Fits(m), TypeInv, TypeInv', Counts, NEW t \in Threads, Oom(t), reclaims' = reclaims
  PROVE  Counts'
<1>1. Rest(t)
  BY DEF Oom, TypeInv
<1>2. Light(th[t]) /\ UNCHANGED <<table, bvmm, t1, t2>>
  BY DEF Light, Oom, At
<1> QED BY <1>1, <1>2, RestLight

LEMMA RealFreeCounts ==
  ASSUME NEW m, Fits(m), TypeInv, TypeInv', Counts, NEW t \in Threads, RealFree(t)
  PROVE  Counts'
<1>1. Light(th[t]) /\ UNCHANGED <<table, bvmm, t1, t2>>
  BY DEF Light, RealFree, At
<1> QED BY <1>1, RestLight DEF RealFree

LEMMA UnmapCounts ==
  ASSUME NEW m, Fits(m), TypeInv, TypeInv', Counts, NEW t \in Threads, Unmap(t)
  PROVE  Counts'
<1>1. /\ th[t].pc = "unmap" /\ th'[t].pc = "uncount" /\ th'[t].size = th[t].size
      /\ \A v \in Threads : v # t => th'[v] = th[v]
      /\ UNCHANGED <<table, bvmm, t1, t2>>
  BY ToNow DEF Unmap, At
<1>2. ~Late(t) /\ ~Late(t)'
  BY <1>1 DEF Late
<1>3. T2Calls'[t] = T2Calls[t] /\ T1Calls'[t] = T1Calls[t] /\ Reserved'[t] = Reserved[t]
  BY <1>1 DEF T2Calls, T1Calls, Reserved, InHand
<1> QED BY <1>1, <1>2, <1>3, CountsFrame

LEMMA UncountCounts ==
  ASSUME NEW m, Fits(m), TypeInv, TypeInv', Counts, NEW t \in Threads, Uncount(t)
  PROVE  Counts'
<1>1. /\ th[t].pc = "uncount" /\ Light(th'[t]) /\ t2' = Sub(t2, th[t].size) /\ th[t].size \in Nat
      /\ \A v \in Threads : v # t => th'[v] = th[v]
      /\ UNCHANGED <<table, bvmm, t1>>
  BY CallType, RestNow DEF Uncount, At
<1>2. T2Calls'[t] = 0 /\ T1Calls'[t] = 0 /\ Reserved'[t] = 0 /\ ~Late(t)'
  BY <1>1, LightCallNext
<1>3. T2Calls[t] = th[t].size /\ T1Calls[t] = 0 /\ Reserved[t] = 0 /\ ~Late(t)
  BY <1>1 DEF T2Calls, T1Calls, Reserved, InHand, Late
<1> QED BY <1>1, <1>2, <1>3, CountsT2

LEMMA ReleaseReservedCounts ==
  ASSUME NEW m, Fits(m), TypeInv, TypeInv', Counts, NEW t \in Threads, ReleaseReserved(t)
  PROVE  Counts'
<1>1. /\ th[t].pc = "revert" /\ th'[t].pc = "failed" /\ t2' = Sub(t2, th[t].size) /\ th[t].size \in Nat
      /\ \A v \in Threads : v # t => th'[v] = th[v]
      /\ UNCHANGED <<table, bvmm, t1>>
  BY CallType, ToNow DEF ReleaseReserved, At
<1>2. T2Calls'[t] = 0 /\ T1Calls'[t] = 0 /\ Reserved'[t] = 0 /\ ~Late(t)'
  BY <1>1, LightCallNext DEF Light
<1>3. T2Calls[t] = th[t].size /\ T1Calls[t] = 0 /\ Reserved[t] = 0 /\ ~Late(t)
  BY <1>1 DEF T2Calls, T1Calls, Reserved, InHand, Late
<1> QED BY <1>1, <1>2, <1>3, CountsT2

\* A request that gets its reservation has compared the counter with the cap.
LEMMA ReserveBlackwellCounts ==
  ASSUME NEW m, Fits(m), TypeInv, TypeInv', Counts, NEW t \in Threads, ReserveBlackwell(t)
  PROVE  Counts'
<1>1. Light(th[t]) /\ UNCHANGED <<table, bvmm, t1>> /\ th[t].size \in Nat
  BY CallType DEF Light, ReserveBlackwell, At
<1>2. CASE To(t, "failed") /\ UNCHANGED t2
  BY <1>1, <1>2, ToLight
<1>3. CASE TryReserve(t)
  <2>1. T2Calls[t] = 0 /\ T1Calls[t] = 0 /\ Reserved[t] = 0 /\ ~Late(t)
    BY <1>1, LightCall
  <2>2. t2' = Add(t2, th[t].size) /\ (To(t, "revert") \/ (To(t, "zerocopy") /\ ~Over(t)))
    BY <1>3 DEF TryReserve
  <2>3. /\ \A v \in Threads : v # t => th'[v] = th[v]
        /\ th'[t].size = th[t].size
        /\ th'[t].pc = "revert" \/ (th'[t].pc = "zerocopy" /\ ~Over(t))
    BY <2>2, ToNow
  <2>4. T2Calls'[t] = th[t].size /\ T1Calls'[t] = 0 /\ ~Late(t)'
    BY <2>3 DEF T2Calls, T1Calls, InHand, Late
  <2>5. Reserved'[t] = 0 \/ (Reserved'[t] = th[t].size /\ t2 + th[t].size <= Cap)
    <3>1. ~Over(t) => t2 + th[t].size <= Cap
      BY <1>1, ShimConstants DEF Over, TypeInv
    <3> QED BY <2>3, <3>1 DEF Reserved
  <2> QED BY <1>1, <2>1, <2>2, <2>3, <2>4, <2>5, CountsT2
<1> QED BY <1>2, <1>3 DEF ReserveBlackwell

LEMMA TableFullCounts ==
  ASSUME NEW m, Fits(m), TypeInv, TypeInv', Counts, NEW t \in Threads, TableFull(t)
  PROVE  Counts'
<1>1. /\ th[t].pc = "full" /\ th[t].ptr \in Ptrs /\ th[t].size \in Nat /\ th[t] \in Thread
      /\ UNCHANGED <<table, bvmm, t2>>
  BY CallType DEF TableFull, At, WithPtr, Calls
<1>2. CASE th[t].ptr \in Dev
  <2>1. Rest(t) /\ t1' = Sub(t1, th[t].size)
    BY <1>2 DEF TableFull
  <2>2. T2Calls'[t] = 0 /\ T1Calls'[t] = 0 /\ Reserved'[t] = 0 /\ ~Late(t)'
    BY <2>1, RestNow, LightCallNext
  <2>3. T2Calls[t] = 0 /\ T1Calls[t] = th[t].size /\ Reserved[t] = 0 /\ ~Late(t)
    BY <1>1, <1>2 DEF T2Calls, T1Calls, Reserved, InHand, Late
  <2> QED BY <1>1, <2>1, <2>2, <2>3, RestNow, CountsT1
<1>3. CASE th[t].ptr \notin Dev
  <2> DEFINE r == [th[t] EXCEPT !.pc = "failed", !.ptr = Empty]
  <2>1. th' = [th EXCEPT ![t] = r] /\ t1' = t1
    BY <1>3 DEF TableFull
  <2>2. Light(r)
    BY <1>1 DEF Thread, Light
  <2>3. Light(th[t])
    BY <1>1, <1>3 DEF Light, Mapped, Ptrs
  <2> HIDE DEF r
  <2> QED BY <1>1, <2>1, <2>2, <2>3, CountsLight
<1> QED BY <1>2, <1>3

LEMMA ReleaseCounts ==
  ASSUME NEW m, Fits(m), TypeInv, TypeInv', Counts, NEW t \in Threads, Release(t)
  PROVE  Counts'
<1>1. /\ th[t].pc = "release" /\ th[t].ptr \in Ptrs /\ th[t].size \in Nat
      /\ UNCHANGED <<table, bvmm, t2>>
  BY CallType DEF Release, At, WithPtr
<1>2. th[t].ptr \in Mapped <=> th[t].ptr \notin Dev
  BY <1>1, ShimConstants DEF Mapped, Ptrs
<1>3. CASE th[t].ptr \in Dev
  <2>1. Rest(t) /\ t1' = Sub(t1, th[t].size)
    BY <1>3 DEF Release
  <2>2. T2Calls'[t] = 0 /\ T1Calls'[t] = 0 /\ Reserved'[t] = 0 /\ ~Late(t)'
    BY <2>1, RestNow, LightCallNext
  <2>3. T2Calls[t] = 0 /\ T1Calls[t] = th[t].size /\ Reserved[t] = 0 /\ ~Late(t)
    BY <1>1, <1>2, <1>3 DEF T2Calls, T1Calls, Reserved, InHand, Late
  <2> QED BY <1>1, <2>1, <2>2, <2>3, RestNow, CountsT1
<1>4. CASE th[t].ptr \notin Dev
  <2>1. To(t, "uncount") /\ t1' = t1
    BY <1>4 DEF Release
  <2>2. /\ th'[t].pc = "uncount" /\ th'[t].size = th[t].size
        /\ \A v \in Threads : v # t => th'[v] = th[v]
    BY <2>1, ToNow
  <2>3. T2Calls'[t] = th[t].size /\ T1Calls'[t] = 0 /\ Reserved'[t] = 0 /\ ~Late(t)'
    BY <2>2 DEF T2Calls, T1Calls, Reserved, InHand, Late
  <2>4. T2Calls[t] = th[t].size /\ T1Calls[t] = 0 /\ Reserved[t] = 0 /\ ~Late(t)
    BY <1>1, <1>2, <1>4 DEF T2Calls, T1Calls, Reserved, InHand, Late
  <2> QED BY <1>1, <2>1, <2>2, <2>3, <2>4, CountsFrame
<1> QED BY <1>3, <1>4

LEMMA BvmmChange ==
  ASSUME NEW m, Fits(m), TypeInv, TypeInv', NEW h \in Host, \A g \in Host : g # h => bvmm'[g] = bvmm[g]
  PROVE  /\ Total(bvmm)' + bvmm[h] = Total(bvmm) + bvmm'[h]
         /\ bvmm[h] \in Nat /\ bvmm'[h] \in Nat
<1>1. m \in Nat /\ IsFiniteSet(Host) /\ bvmm \in [Host -> 0 .. m] /\ bvmm' \in [Host -> 0 .. m]
  BY NumbersType, NumbersTypeNext DEF Fits
<1>2. \A f, g \in [Host -> 0 .. m] :
        (\A v \in Host : v # h => g[v] = f[v]) => Total(g) + f[h] = Total(f) + g[h]
  BY <1>1, TotalChange
<1>3. bvmm[h] \in Nat /\ bvmm'[h] \in Nat
  BY <1>1
<1> QED BY <1>1, <1>2, <1>3

LEMMA EntriesChange ==
  ASSUME NEW m, Fits(m), TypeInv, TypeInv', NEW s \in Slots,
         \A x \in Slots : x # s => T2Entries'[x] = T2Entries[x] /\ T1Entries'[x] = T1Entries[x]
  PROVE  /\ Total(T2Entries)' + T2Entries[s] = Total(T2Entries) + T2Entries'[s]
         /\ Total(T1Entries)' + T1Entries[s] = Total(T1Entries) + T1Entries'[s]
         /\ T2Entries[s] \in Nat /\ T2Entries'[s] \in Nat /\ T1Entries[s] \in Nat /\ T1Entries'[s] \in Nat
<1>1. /\ T2Entries \in [Slots -> 0 .. m] /\ T2Entries' \in [Slots -> 0 .. m]
      /\ T1Entries \in [Slots -> 0 .. m] /\ T1Entries' \in [Slots -> 0 .. m] /\ m \in Nat
  BY NumbersType, NumbersTypeNext DEF Fits
<1>2. \A f, g \in [Slots -> 0 .. m] :
        (\A v \in Slots : v # s => g[v] = f[v]) => Total(g) + f[s] = Total(f) + g[s]
  BY <1>1, SlotsFinite, TotalChange
<1>3. Total(T2Entries)' + T2Entries[s] = Total(T2Entries) + T2Entries'[s]
  BY <1>1, <1>2
<1>4. Total(T1Entries)' + T1Entries[s] = Total(T1Entries) + T1Entries'[s]
  BY <1>1, <1>2
<1>5. T2Entries[s] \in Nat /\ T2Entries'[s] \in Nat /\ T1Entries[s] \in Nat /\ T1Entries'[s] \in Nat
  BY <1>1
<1> QED BY <1>3, <1>4, <1>5

\* A step that moves numbers between the tables and the calls, and no counter.
LEMMA CountsMoved ==
  ASSUME NEW m, Fits(m), TypeInv, TypeInv', Counts, NEW t \in Threads,
         \A v \in Threads : v # t => th'[v] = th[v],
         UNCHANGED <<t1, t2>>, LateSizes',
         NEW e2 \in Int, NEW b \in Int, NEW e1 \in Int,
         Total(T2Entries)' = Total(T2Entries) + e2, Total(bvmm)' = Total(bvmm) + b,
         Total(T1Entries)' = Total(T1Entries) + e1,
         T2Calls'[t] = T2Calls[t] - e2 - b, T1Calls'[t] = T1Calls[t] - e1,
         Reserved'[t] <= Reserved[t] - b
  PROVE  Counts'
<1>1. /\ Total(T2Entries) \in Nat /\ Total(T1Entries) \in Nat /\ Total(bvmm) \in Nat
      /\ Total(T2Calls) \in Nat /\ Total(T1Calls) \in Nat /\ Total(Reserved) \in Nat
      /\ T2Calls[t] \in Nat /\ T1Calls[t] \in Nat /\ Reserved[t] \in Nat
  BY SumsType
<1>2. /\ Total(T2Calls)' \in Nat /\ Total(T1Calls)' \in Nat /\ Total(Reserved)' \in Nat
      /\ T2Calls'[t] \in Nat /\ T1Calls'[t] \in Nat /\ Reserved'[t] \in Nat
  BY SumsTypeNext
<1>3. /\ Total(T2Calls)' + T2Calls[t] = Total(T2Calls) + T2Calls'[t]
      /\ Total(T1Calls)' + T1Calls[t] = Total(T1Calls) + T1Calls'[t]
      /\ Total(Reserved)' + Reserved[t] = Total(Reserved) + Reserved'[t]
  BY CallsChange
<1>4. /\ t2 = Total(T2Entries) + Total(bvmm) + Total(T2Calls)
      /\ t1 = Total(T1Entries) + Total(T1Calls)
      /\ Total(bvmm) + Total(Reserved) <= Cap /\ Cap \in Nat
  BY ShimConstants DEF Counts
<1>5. t2' = Total(T2Entries)' + Total(bvmm)' + Total(T2Calls)'
  BY <1>1, <1>2, <1>3, <1>4
<1>6. t1' = Total(T1Entries)' + Total(T1Calls)'
  <2>1. Total(T1Calls)' = Total(T1Calls) - e1
    BY <1>1, <1>2, <1>3
  <2>2. t1 = Total(T1Entries) + Total(T1Calls) /\ t1' = t1 /\ Total(T1Entries)' = Total(T1Entries) + e1
    BY <1>4
  <2> QED BY <1>1, <2>1, <2>2
<1>7. Total(bvmm)' + Total(Reserved)' <= Cap
  BY <1>1, <1>2, <1>3, <1>4
<1> QED BY <1>5, <1>6, <1>7 DEF Counts

LEMMA AllocZeroCopyCounts ==
  ASSUME NEW m, Fits(m), TypeInv, TypeInv', Tidy, Counts, NEW t \in Threads, AllocZeroCopy(t)
  PROVE  Counts'
<1>1. th[t].pc = "zerocopy" /\ th[t].size \in Nat /\ UNCHANGED <<table, t1, t2>>
  BY CallType DEF AllocZeroCopy, At
<1>2. T2Calls[t] = th[t].size /\ T1Calls[t] = 0 /\ Reserved[t] = th[t].size /\ ~Late(t)
  BY <1>1 DEF T2Calls, T1Calls, Reserved, InHand, Late
<1>3. CASE To(t, "revert") /\ UNCHANGED <<real, bvmm, oom, held>>
  <2>1. /\ th'[t].pc = "revert" /\ th'[t].size = th[t].size
        /\ \A v \in Threads : v # t => th'[v] = th[v]
    BY <1>3, ToNow
  <2>2. T2Calls'[t] = th[t].size /\ T1Calls'[t] = 0 /\ Reserved'[t] = 0 /\ ~Late(t)'
    BY <2>1 DEF T2Calls, T1Calls, Reserved, InHand, Late
  <2>3. T2Entries' = T2Entries /\ T1Entries' = T1Entries /\ LateSizes'
    BY <1>1, <1>2, <2>1, <2>2, EntriesSame DEF Counts
  <2>4. Total(bvmm)' = Total(bvmm) + 0 /\ Total(T2Entries)' = Total(T2Entries) + 0
        /\ Total(T1Entries)' = Total(T1Entries) + 0
    BY <1>3, <2>3, SumsType
  <2>5. T2Calls'[t] = T2Calls[t] - 0 - 0 /\ T1Calls'[t] = T1Calls[t] - 0 /\ Reserved'[t] <= Reserved[t] - 0
    BY <1>1, <1>2, <2>2
  <2> QED BY <1>1, <2>1, <2>3, <2>4, <2>5, CountsMoved
<1>4. ASSUME NEW h \in Host \ real, bvmm' = [bvmm EXCEPT ![h] = th[t].size], Return(t, h)
      PROVE  Counts'
  <2>1. /\ \A v \in Threads : v # t => th'[v] = th[v]
        /\ Light(th'[t])
    BY <1>4, RestNow DEF Return
  <2>2. T2Calls'[t] = 0 /\ T1Calls'[t] = 0 /\ Reserved'[t] = 0 /\ ~Late(t)'
    BY <2>1, LightCallNext
  <2>3. T2Entries' = T2Entries /\ T1Entries' = T1Entries /\ LateSizes'
    BY <1>1, <1>2, <2>1, <2>2, EntriesSame DEF Counts
  <2>4. bvmm[h] = 0 /\ bvmm'[h] = th[t].size /\ \A g \in Host : g # h => bvmm'[g] = bvmm[g]
    BY <1>4 DEF TypeInv, Tidy, FromDriver, InBvmm
  <2>5. Total(bvmm)' + bvmm[h] = Total(bvmm) + bvmm'[h]
    BY <2>4, BvmmChange
  <2>6. Total(bvmm) \in Nat /\ Total(bvmm)' \in Nat
    BY SumsType, SumsTypeNext
  <2>7. Total(bvmm)' = Total(bvmm) + th[t].size
    BY <1>1, <2>4, <2>5, <2>6
  <2>8. Total(T2Entries)' = Total(T2Entries) + 0 /\ Total(T1Entries)' = Total(T1Entries) + 0
    BY <2>3, SumsType
  <2>9. T2Calls'[t] = T2Calls[t] - 0 - th[t].size /\ T1Calls'[t] = T1Calls[t] - 0
        /\ Reserved'[t] <= Reserved[t] - th[t].size
    BY <1>1, <1>2, <2>2
  <2> QED BY <1>1, <2>1, <2>3, <2>7, <2>8, <2>9, CountsMoved
<1> QED BY <1>3, <1>4 DEF AllocZeroCopy

LEMMA FreeCounts ==
  ASSUME NEW m, Fits(m), TypeInv, TypeInv', Counts, NEW t \in Threads, NEW p \in Ptrs, Free(t, p)
  PROVE  Counts'
<1>1. Light(th[t]) /\ UNCHANGED <<table, t1, t2>>
  BY DEF Light, Free, At
<1>2. T2Calls[t] = 0 /\ T1Calls[t] = 0 /\ Reserved[t] = 0 /\ ~Late(t)
  BY <1>1, LightCall
<1>3. CASE ~InBvmm(p)
  <2> DEFINE r == [Idle EXCEPT !.pc = "remove", !.ptr = p]
  <2>1. th' = [th EXCEPT ![t] = r] /\ bvmm' = bvmm
    BY <1>3 DEF Free
  <2>2. Light(r)
    BY DEF Idle, Light
  <2> HIDE DEF r
  <2> QED BY <1>1, <2>1, <2>2, CountsLight
<1>4. CASE InBvmm(p)
  <2> DEFINE r == [Idle EXCEPT !.pc = "unmap", !.ptr = p, !.size = bvmm[p]]
  <2>1. th' = [th EXCEPT ![t] = r] /\ bvmm' = [bvmm EXCEPT ![p] = 0] /\ p \in Host
    BY <1>4 DEF Free, InBvmm
  <2>2. r.pc = "unmap" /\ r.size = bvmm[p]
    BY DEF Idle
  <2> HIDE DEF r
  <2>3. th'[t] = r /\ \A v \in Threads : v # t => th'[v] = th[v]
    BY <2>1 DEF TypeInv
  <2>4. T2Calls'[t] = bvmm[p] /\ T1Calls'[t] = 0 /\ Reserved'[t] = 0 /\ ~Late(t)'
    BY <2>2, <2>3 DEF T2Calls, T1Calls, Reserved, InHand, Late
  <2>5. T2Entries' = T2Entries /\ T1Entries' = T1Entries /\ LateSizes'
    BY <1>1, <1>2, <2>3, <2>4, EntriesSame DEF Counts
  <2>6. bvmm'[p] = 0 /\ \A g \in Host : g # p => bvmm'[g] = bvmm[g]
    BY <2>1 DEF TypeInv
  <2>7. Total(bvmm)' + bvmm[p] = Total(bvmm) + bvmm'[p] /\ bvmm[p] \in Nat
    BY <2>1, <2>6, BvmmChange
  <2>8. Total(bvmm) \in Nat /\ Total(bvmm)' \in Nat
    BY SumsType, SumsTypeNext
  <2>9. Total(bvmm)' = Total(bvmm) + (-bvmm[p]) /\ -bvmm[p] \in Int
    BY <2>6, <2>7, <2>8
  <2>10. Total(T2Entries)' = Total(T2Entries) + 0 /\ Total(T1Entries)' = Total(T1Entries) + 0
    BY <2>5, SumsType
  <2>11. T2Calls'[t] = T2Calls[t] - 0 - (-bvmm[p]) /\ T1Calls'[t] = T1Calls[t] - 0
         /\ Reserved'[t] <= Reserved[t] - (-bvmm[p])
    BY <1>2, <2>4, <2>7
  <2> QED BY <1>1, <2>3, <2>5, <2>9, <2>10, <2>11, CountsMoved
<1> QED BY <1>3, <1>4

LEMMA OnOrNow ==
  ASSUME TypeInv, NEW t \in Threads, NEW pc, OnOr(t, pc)
  PROVE  /\ \A v \in Threads : v # t => th'[v] = th[v]
         /\ th'[t].pc = pc \/ th'[t].pc = th[t].pc
         /\ th'[t].ptr = th[t].ptr /\ th'[t].size = th[t].size
         /\ th' = [th EXCEPT ![t] = th'[t]]
<1>1. th[t] \in Thread
  BY CallType DEF Calls
<1> DEFINE r == IF th[t].i + 1 = HtSize THEN [th[t] EXCEPT !.pc = pc, !.i = 0]
                ELSE [th[t] EXCEPT !.i = @ + 1]
<1>2. (r.pc = pc \/ r.pc = th[t].pc) /\ r.ptr = th[t].ptr /\ r.size = th[t].size
  BY <1>1 DEF Thread
<1>3. th' = [th EXCEPT ![t] = r]
  BY DEF OnOr
<1> HIDE DEF r
<1>4. th'[t] = r /\ \A v \in Threads : v # t => th'[v] = th[v]
  BY <1>3 DEF TypeInv
<1> QED BY <1>2, <1>3, <1>4

\* A new entry is not counted in T2 before its call does it; on the card it was counted
\* before.
LEMMA EntryMadeCounts ==
  ASSUME NEW m, Fits(m), TypeInv, TypeInv', Tidy, Counts, NEW t \in Threads,
         \A v \in Threads : v # t => th'[v] = th[v],
         th[t].pc = "insert", ~Live(Here(t)), UNCHANGED <<bvmm, t1, t2>>,
         table'[Here(t)].ptr = th[t].ptr, table'[Here(t)].size = th[t].size,
         \A s \in Slots : s # Here(t) => table'[s] = table[s],
         \/ th'[t].pc = "flags" /\ th'[t].ptr = th[t].ptr /\ th'[t].size = th[t].size
         \/ th'[t].pc = "idle" /\ th[t].ptr \in Dev
  PROVE  Counts'
<1> DEFINE p == th[t].ptr
           s == Here(t)
<1>1. p \in Ptrs /\ Hand(t) /\ ~Late(t) /\ InHand(t) /\ th[t].size \in Nat
  BY CallType DEF Hand, Late, WithPtr, InHand
<1>2. s \in Slots
  BY <1>1, HereType
<1>3. ~HasSlot(p) /\ \A v \in Threads : Late(v) => th[v].ptr # p
  BY <1>1 DEF Tidy, OnePlace, OneUser, Enters, Late
<1>4. p \in Mapped <=> p \notin Dev
  BY <1>1, ShimConstants DEF Mapped, Ptrs
<1>5. table[s].ptr \notin Mapped /\ table[s].ptr \notin Dev
  BY ShimConstants DEF Live, Mapped
<1> HIDE DEF p, s
<1>6. /\ table'[s].ptr = p /\ table'[s].size = th[t].size /\ \A x \in Slots : x # s => table'[x] = table[x]
      /\ p = th[t].ptr
  BY DEF p, s
<1>7. \A x \in Slots : x # s => (Uncounted(x)' <=> Uncounted(x))
  <2>1. \A x \in Slots : x # s => table[x].ptr # p /\ table'[x] = table[x]
    BY <1>3, <1>6 DEF HasSlot
  <2>2. th'[t].pc \in {"flags", "count"} => th'[t].ptr = p
    BY <1>6
  <2> QED BY <1>1, <2>1, <2>2 DEF Uncounted, Late
<1>8. \A x \in Slots : x # s => T2Entries'[x] = T2Entries[x] /\ T1Entries'[x] = T1Entries[x]
  BY <1>6, <1>7 DEF T2Entries, T1Entries
<1>9. p \in Mapped =>
        \E v \in Threads : th'[v].pc \in {"flags", "count"} /\ th'[v].ptr = table'[s].ptr
  BY <1>4, <1>6
<1>10. T2Entries[s] = 0 /\ T1Entries[s] = 0
  BY <1>2, <1>5 DEF T2Entries, T1Entries
<1>11. T2Entries'[s] = 0
  BY <1>2, <1>6, <1>9 DEF T2Entries, Uncounted
<1>12. T1Entries'[s] = T1Calls[t]
  BY <1>1, <1>2, <1>6 DEF T1Entries, T1Calls
<1>13. /\ Total(T2Entries)' + T2Entries[s] = Total(T2Entries) + T2Entries'[s]
       /\ Total(T1Entries)' + T1Entries[s] = Total(T1Entries) + T1Entries'[s]
  BY <1>2, <1>8, EntriesChange
<1>14. /\ Total(T2Entries)' \in Nat /\ Total(T1Entries)' \in Nat /\ Total(T2Entries) \in Nat
       /\ Total(T1Entries) \in Nat /\ Total(bvmm) \in Nat /\ T1Calls[t] \in Nat
  BY SumsType, SumsTypeNext
<1>15. Total(T2Entries)' = Total(T2Entries) + 0 /\ Total(T1Entries)' = Total(T1Entries) + T1Calls[t]
       /\ Total(bvmm)' = Total(bvmm) + 0
  BY <1>10, <1>11, <1>12, <1>13, <1>14
<1>16. T2Calls[t] = 0 /\ Reserved[t] = 0 /\ T2Calls'[t] = 0 /\ T1Calls'[t] = 0 /\ Reserved'[t] = 0
  BY DEF T2Calls, T1Calls, Reserved, InHand
<1>17. T2Calls'[t] = T2Calls[t] - 0 - 0 /\ T1Calls'[t] = T1Calls[t] - T1Calls[t]
       /\ Reserved'[t] <= Reserved[t] - 0
  BY <1>14, <1>16
<1>18. LateSizes'
  <2>1. \A v \in Threads : th'[v].pc = "count" => th'[v].ptr \in Mapped
    BY DEF Counts, LateSizes
  <2>2. ASSUME NEW v \in Threads, NEW x \in Slots, Late(v)', table'[x].ptr = th'[v].ptr
        PROVE  table'[x].size = th'[v].size
    <3>1. CASE v = t
      <4>1. th'[t].ptr = p /\ th'[t].size = th[t].size
        BY <1>6, <2>2, <3>1 DEF Late
      <4>2. x = s
        BY <1>3, <1>6, <2>2, <3>1, <4>1 DEF HasSlot
      <4> QED BY <1>6, <3>1, <4>1, <4>2
    <3>2. CASE v # t
      <4>1. Late(v) /\ th'[v] = th[v] /\ th[v].ptr # p
        BY <1>3, <2>2, <3>2 DEF Late
      <4>2. x # s /\ table'[x] = table[x]
        BY <1>6, <2>2, <4>1
      <4> QED BY <2>2, <4>1, <4>2 DEF Counts, LateSizes
    <3> QED BY <3>1, <3>2
  <2> QED BY <2>1, <2>2 DEF LateSizes
<1> QED BY <1>14, <1>15, <1>17, <1>18, CountsMoved

LEMMA HtInsertCounts ==
  ASSUME NEW m, Fits(m), TypeInv, TypeInv', Tidy, Counts, NEW t \in Threads, HtInsert(t)
  PROVE  Counts'
<1> DEFINE s == Here(t)
           p == th[t].ptr
<1>1. th[t].pc = "insert" /\ UNCHANGED <<bvmm, t1, t2>> /\ th[t] \in Thread /\ ~Late(t)
  BY CallType DEF HtInsert, At, Calls, Late
<1>2. s \in Slots
  BY <1>1, HereType, CallType DEF WithPtr
<1>3. CASE Live(s)
  <2>1. OnOr(t, "full") /\ table' = table
    BY <1>3 DEF HtInsert
  <2>2. /\ \A v \in Threads : v # t => th'[v] = th[v]
        /\ th'[t].pc = "full" \/ th'[t].pc = "insert"
        /\ th'[t].ptr = th[t].ptr /\ th'[t].size = th[t].size
    BY <1>1, <2>1, OnOrNow
  <2>3. /\ T2Calls'[t] = T2Calls[t] /\ T1Calls'[t] = T1Calls[t] /\ Reserved'[t] = Reserved[t]
        /\ ~Late(t)'
    BY <1>1, <2>2 DEF T2Calls, T1Calls, Reserved, InHand, Late
  <2> QED BY <1>1, <2>1, <2>2, <2>3, CountsFrame
<1>4. CASE ~Live(s)
  <2>1. table' = [table EXCEPT ![s].ptr = p, ![s].size = th[t].size]
    BY <1>4 DEF HtInsert
  <2>2. table'[s].ptr = p /\ table'[s].size = th[t].size /\ \A x \in Slots : x # s => table'[x] = table[x]
    BY <1>2, <2>1 DEF TypeInv, Slot
  <2>3. CASE th' = [th EXCEPT ![t].pc = "flags", ![t].i = 0]
    <3> DEFINE r == [th[t] EXCEPT !.pc = "flags", !.i = 0]
    <3>1. r.pc = "flags" /\ r.ptr = th[t].ptr /\ r.size = th[t].size
      BY <1>1 DEF Thread
    <3>2. th' = [th EXCEPT ![t] = r]
      BY <2>3
    <3> HIDE DEF r
    <3>3. th'[t] = r /\ \A v \in Threads : v # t => th'[v] = th[v]
      BY <3>2 DEF TypeInv
    <3> QED BY <1>1, <1>4, <2>2, <3>1, <3>3, EntryMadeCounts
  <2>4. CASE p \in Dev /\ Return(t, p)
    <3>1. th'[t].pc = "idle" /\ \A v \in Threads : v # t => th'[v] = th[v]
      BY <2>4, RestNow DEF Return, Idle
    <3> QED BY <1>1, <1>4, <2>2, <2>4, <3>1, EntryMadeCounts
  <2> QED BY <1>4, <2>3, <2>4 DEF HtInsert
<1> QED BY <1>3, <1>4

LEMMA SetFlagsCounts ==
  ASSUME NEW m, Fits(m), TypeInv, TypeInv', Tidy, Counts, NEW t \in Threads, SetFlags(t)
  PROVE  Counts'
<1> DEFINE s == Here(t)
           found == table[s].ptr = th[t].ptr
           last == found \/ table[s].ptr = Empty \/ th[t].i + 1 = HtSize
<1>1. th[t].pc = "flags" /\ UNCHANGED <<bvmm, t1, t2>> /\ th[t] \in Thread /\ th[t].ptr \in Ptrs
  BY CallType DEF SetFlags, At, Calls, WithPtr
<1>2. s \in Slots
  BY <1>1, HereType
<1>3. PICK kv \in BOOLEAN : table' = IF found THEN [table EXCEPT ![s].kv = kv] ELSE table
  BY DEF SetFlags
<1>4. \A x \in Slots : table'[x].ptr = table[x].ptr /\ table'[x].size = table[x].size
  BY <1>2, <1>3 DEF TypeInv, Slot
<1>5. th[t].ptr \in Mapped <=> th[t].ptr \notin Dev
  BY <1>1, ShimConstants DEF Mapped, Ptrs
<1>6. /\ \A v \in Threads : v # t => th'[v] = th[v]
      /\ \/ th'[t].pc = "idle" /\ th[t].ptr \in Dev
         \/ /\ th'[t].pc = "flags" \/ (th'[t].pc = "count" /\ th[t].ptr \notin Dev)
            /\ th'[t].ptr = th[t].ptr /\ th'[t].size = th[t].size
  <2>1. CASE last /\ th[t].ptr \in Dev
    <3>1. Rest(t)
      BY <2>1 DEF SetFlags, Return
    <3> QED BY <2>1, <3>1, RestNow DEF Idle
  <2>2. CASE ~(last /\ th[t].ptr \in Dev)
    <3> DEFINE r == IF last THEN [th[t] EXCEPT !.pc = "count", !.i = 0] ELSE [th[t] EXCEPT !.i = @ + 1]
    <3>1. /\ r.pc = "flags" \/ (r.pc = "count" /\ th[t].ptr \notin Dev)
          /\ r.ptr = th[t].ptr /\ r.size = th[t].size
      BY <1>1, <2>2 DEF Thread
    <3>2. th' = [th EXCEPT ![t] = r]
      BY <2>2 DEF SetFlags
    <3> HIDE DEF r
    <3>3. th'[t] = r /\ \A v \in Threads : v # t => th'[v] = th[v]
      BY <3>2 DEF TypeInv
    <3> QED BY <3>1, <3>3
  <2> QED BY <2>1, <2>2
<1> HIDE DEF s, found, last
<1>7. \A x \in Slots : table[x].ptr \in Mapped => (Uncounted(x)' <=> Uncounted(x))
  BY <1>1, <1>4, <1>5, <1>6 DEF Uncounted
<1>8. T2Entries' = T2Entries /\ T1Entries' = T1Entries
  BY <1>4, <1>7 DEF T2Entries, T1Entries
<1>9. LateSizes'
  <2>1. \A v \in Threads : th'[v].pc = "count" => th'[v].ptr \in Mapped
    BY <1>5, <1>6 DEF Counts, LateSizes
  <2>2. \A v \in Threads : Late(v)' => Late(v) /\ th'[v].ptr = th[v].ptr /\ th'[v].size = th[v].size
    BY <1>1, <1>6 DEF Late
  <2> QED BY <1>4, <2>1, <2>2 DEF Counts, LateSizes
<1>10. Total(T2Entries)' = Total(T2Entries) + 0 /\ Total(bvmm)' = Total(bvmm) + 0
       /\ Total(T1Entries)' = Total(T1Entries) + 0
  BY <1>1, <1>8, SumsType
<1>11. /\ T2Calls[t] = 0 /\ T1Calls[t] = 0 /\ Reserved[t] = 0
       /\ T2Calls'[t] = 0 /\ T1Calls'[t] = 0 /\ Reserved'[t] = 0
  BY <1>1, <1>6 DEF T2Calls, T1Calls, Reserved, InHand
<1>12. T2Calls'[t] = T2Calls[t] - 0 - 0 /\ T1Calls'[t] = T1Calls[t] - 0 /\ Reserved'[t] <= Reserved[t] - 0
  BY <1>11
<1> QED BY <1>1, <1>6, <1>9, <1>10, <1>12, CountsMoved

LEMMA CountT2Counts ==
  ASSUME NEW m, Fits(m), TypeInv, TypeInv', Tidy, Counts, NEW t \in Threads, CountT2(t)
  PROVE  Counts'
<1> DEFINE p == th[t].ptr
           n == th[t].size
<1>1. /\ th[t].pc = "count" /\ UNCHANGED <<table, bvmm, t1>> /\ t2' = Add(t2, n) /\ n \in Nat
      /\ p \in Mapped /\ p \in Ptrs /\ Enters(t) /\ Late(t)
  BY CallType DEF CountT2, At, WithPtr, Enters, Counts, LateSizes, Late
<1>2. /\ Light(th'[t]) /\ th'[t] = Idle /\ \A v \in Threads : v # t => th'[v] = th[v]
  BY RestNow DEF CountT2, Return
<1>3. PICK s \in Slots : table[s].ptr = p
  BY <1>1 DEF Tidy, OneUser, HasSlot
<1>4. Live(s) /\ \A x \in Slots : x # s => table[x].ptr # p
  BY <1>1, <1>3, ShimConstants DEF Tidy, OnePlace, Live
<1>5. \A v \in Threads : v # t /\ Late(v) => th[v].ptr # p
  BY <1>1 DEF Tidy, OneUser, Enters, Late
<1>6. table[s].size = n
  BY <1>1, <1>3 DEF Counts, LateSizes
<1>7. \A v \in Threads : Late(v)' <=> v # t /\ Late(v)
  BY <1>2 DEF Late, Idle
<1>8. \A x \in Slots : x # s => (Uncounted(x)' <=> Uncounted(x))
  BY <1>1, <1>2, <1>4, <1>7 DEF Uncounted, Late
<1>9. Uncounted(s) /\ ~Uncounted(s)'
  BY <1>1, <1>2, <1>3, <1>5, <1>7 DEF Uncounted, Late
<1>10. T2Entries[s] = 0 /\ T2Entries'[s] = n
  BY <1>1, <1>3, <1>6, <1>9 DEF T2Entries
<1>11. T1Entries' = T1Entries /\ \A x \in Slots : x # s => T2Entries'[x] = T2Entries[x] /\ T1Entries'[x] = T1Entries[x]
  BY <1>1, <1>8 DEF T2Entries, T1Entries
<1>12. Total(T2Entries)' + T2Entries[s] = Total(T2Entries) + T2Entries'[s]
  BY <1>11, EntriesChange
<1>13. T2Calls[t] = 0 /\ T1Calls[t] = 0 /\ Reserved[t] = 0
  BY <1>1 DEF T2Calls, T1Calls, Reserved, InHand
<1>14. T2Calls'[t] = 0 /\ T1Calls'[t] = 0 /\ Reserved'[t] = 0
  BY <1>2, LightCallNext
<1>15. /\ Total(T2Calls)' + T2Calls[t] = Total(T2Calls) + T2Calls'[t]
       /\ Total(T1Calls)' + T1Calls[t] = Total(T1Calls) + T1Calls'[t]
       /\ Total(Reserved)' + Reserved[t] = Total(Reserved) + Reserved'[t]
  BY <1>2, CallsChange
<1>16. /\ Total(T2Entries) \in Nat /\ Total(bvmm) \in Nat /\ Total(T2Calls) \in Nat
       /\ Total(T1Calls) \in Nat /\ Total(Reserved) \in Nat /\ t2 \in 0 .. Word - 1
  BY SumsType
<1>17. /\ Total(T2Entries)' \in Nat /\ Total(T2Calls)' \in Nat
       /\ Total(T1Calls)' \in Nat /\ Total(Reserved)' \in Nat
       /\ Total(T2Entries)' + Total(bvmm)' + Total(T2Calls)' < Word
  BY SumsTypeNext
<1>18. /\ Total(T2Calls)' = Total(T2Calls) /\ Total(T1Calls)' = Total(T1Calls)
       /\ Total(Reserved)' = Total(Reserved) /\ Total(T2Entries)' = Total(T2Entries) + n
  BY <1>10, <1>12, <1>13, <1>14, <1>15, <1>16, <1>17
<1>19. Total(bvmm)' = Total(bvmm) /\ Total(T1Entries)' = Total(T1Entries)
  BY <1>1, <1>11
<1>20. t2' = Total(T2Entries)' + Total(bvmm)' + Total(T2Calls)'
  <2>1. t2 = Total(T2Entries) + Total(bvmm) + Total(T2Calls)
    BY DEF Counts
  <2>2. t2 + n < Word
    BY <1>1, <1>16, <1>17, <1>18, <1>19, <2>1
  <2>3. t2' = t2 + n
    BY <1>1, <1>16, <2>2, AddExact
  <2> QED BY <1>1, <1>16, <1>18, <1>19, <2>1, <2>3
<1>21. LateSizes'
  <2>1. \A v \in Threads : th'[v].pc = "count" => th'[v].ptr \in Mapped
    BY <1>2 DEF Counts, LateSizes, Idle
  <2> QED BY <1>1, <1>2, <1>7, <2>1 DEF Counts, LateSizes
<1> QED BY <1>1, <1>18, <1>19, <1>20, <1>21 DEF Counts

LEMMA HtRemoveCounts ==
  ASSUME NEW m, Fits(m), TypeInv, TypeInv', Tidy, Counts, NEW t \in Threads, HtRemove(t)
  PROVE  Counts'
<1> DEFINE s == Here(t)
           p == th[t].ptr
<1>1. th[t].pc = "remove" /\ UNCHANGED <<bvmm, t1, t2>> /\ th[t] \in Thread /\ p \in Ptrs /\ Enters(t)
      /\ Light(th[t])
  BY CallType DEF HtRemove, At, Calls, WithPtr, Enters, Light
<1>2. s \in Slots
  BY <1>1, HereType
<1>3. CASE table[s].ptr # p
  <2>1. table' = table
    BY <1>3 DEF HtRemove
  <2>2. CASE OnOr(t, "realfree")
    <3>1. (th'[t].pc = "realfree" \/ th'[t].pc = "remove") /\ th' = [th EXCEPT ![t] = th'[t]]
      BY <1>1, <2>2, OnOrNow
    <3>2. Light(th'[t])
      BY <3>1 DEF Light
    <3> QED BY <1>1, <2>1, <3>1, <3>2, CountsLight
  <2>3. CASE th' = [th EXCEPT ![t].pc = "realfree", ![t].i = 0]
    <3> DEFINE r == [th[t] EXCEPT !.pc = "realfree", !.i = 0]
    <3>1. Light(r)
      BY <1>1 DEF Thread, Light
    <3>2. th' = [th EXCEPT ![t] = r]
      BY <2>3
    <3> HIDE DEF r
    <3> QED BY <1>1, <2>1, <3>1, <3>2, CountsLight
  <2> QED BY <1>3, <2>2, <2>3 DEF HtRemove
<1>4. CASE table[s].ptr = p
  <2> DEFINE n == table[s].size
             r == [th[t] EXCEPT !.pc = "release", !.i = 0, !.size = n]
  <2>1. table' = [table EXCEPT ![s].ptr = Tombstone, ![s].size = 0] /\ th' = [th EXCEPT ![t] = r]
    BY <1>4 DEF HtRemove, Removed
  <2>2. r.pc = "release" /\ r.ptr = p /\ r.size = n
    BY <1>1 DEF Thread
  <2> HIDE DEF r
  <2>3. th'[t] = r /\ \A v \in Threads : v # t => th'[v] = th[v]
    BY <2>1 DEF TypeInv
  <2>4. /\ table'[s].ptr = Tombstone /\ \A x \in Slots : x # s => table'[x] = table[x]
        /\ n \in Nat
    BY <1>2, <2>1 DEF TypeInv, Slot
  <2>5. \A v \in Threads : Late(v) => th[v].ptr # p
    BY <1>1 DEF Tidy, OneUser, Enters, Late
  <2>6. \A v \in Threads : (Late(v)' <=> Late(v)) /\ (Late(v) => v # t /\ th'[v] = th[v])
    BY <1>1, <2>2, <2>3 DEF Late
  <2>7. p \in Mapped <=> p \notin Dev
    BY <1>1, ShimConstants DEF Mapped, Ptrs
  <2>8. Tombstone \notin Mapped /\ Tombstone \notin Dev
    BY ShimConstants DEF Mapped
  <2> HIDE DEF s, p
  <2>9. /\ T2Entries[s] = IF p \in Mapped THEN n ELSE 0
        /\ T1Entries[s] = IF p \in Dev THEN n ELSE 0
    BY <1>2, <1>4, <2>5 DEF T2Entries, T1Entries, Uncounted, Late
  <2>10. T2Entries'[s] = 0 /\ T1Entries'[s] = 0
    BY <1>2, <2>4, <2>8 DEF T2Entries, T1Entries
  <2>11. \A x \in Slots : x # s => T2Entries'[x] = T2Entries[x] /\ T1Entries'[x] = T1Entries[x]
    <3>1. \A x \in Slots : x # s => (Uncounted(x)' <=> Uncounted(x))
      BY <2>4, <2>6 DEF Uncounted, Late
    <3> QED BY <2>4, <3>1 DEF T2Entries, T1Entries
  <2>12. /\ Total(T2Entries)' + T2Entries[s] = Total(T2Entries) + T2Entries'[s]
         /\ Total(T1Entries)' + T1Entries[s] = Total(T1Entries) + T1Entries'[s]
    BY <1>2, <2>11, EntriesChange
  <2>13. /\ Total(T2Entries)' \in Nat /\ Total(T1Entries)' \in Nat /\ Total(T2Entries) \in Nat
         /\ Total(T1Entries) \in Nat /\ Total(bvmm) \in Nat
    BY SumsType, SumsTypeNext
  <2>14. T2Calls[t] = 0 /\ T1Calls[t] = 0 /\ Reserved[t] = 0
    BY <1>1, LightCall
  <2>15. /\ T2Calls'[t] = T2Entries[s] /\ T1Calls'[t] = T1Entries[s] /\ Reserved'[t] = 0
    BY <2>2, <2>3, <2>9 DEF T2Calls, T1Calls, Reserved, InHand
  <2>16. T2Entries[s] \in Nat /\ T1Entries[s] \in Nat
    BY <2>4, <2>9
  <2> DEFINE e2 == -T2Entries[s]
             e1 == -T1Entries[s]
  <2>17. /\ e2 \in Int /\ e1 \in Int
         /\ Total(T2Entries)' = Total(T2Entries) + e2 /\ Total(T1Entries)' = Total(T1Entries) + e1
         /\ Total(bvmm)' = Total(bvmm) + 0
    BY <1>1, <2>10, <2>12, <2>13, <2>16
  <2>18. /\ T2Calls'[t] = T2Calls[t] - e2 - 0 /\ T1Calls'[t] = T1Calls[t] - e1
         /\ Reserved'[t] <= Reserved[t] - 0
    BY <2>14, <2>15, <2>16
  <2>19. LateSizes'
    <3>1. \A v \in Threads : th'[v].pc = "count" => th'[v].ptr \in Mapped
      BY <2>2, <2>3 DEF Counts, LateSizes
    <3>2. ASSUME NEW v \in Threads, NEW x \in Slots, Late(v)', table'[x].ptr = th'[v].ptr
          PROVE  table'[x].size = th'[v].size
      <4>1. Late(v) /\ th'[v] = th[v] /\ th[v].ptr \in Ptrs
        BY <2>6, <3>2, CallType DEF Late, WithPtr
      <4>2. x # s /\ table'[x] = table[x]
        BY <2>4, <3>2, <4>1, ShimConstants
      <4> QED BY <3>2, <4>1, <4>2 DEF Counts, LateSizes
    <3> QED BY <3>1, <3>2 DEF LateSizes
  <2> HIDE DEF e2, e1, n
  <2> QED BY <1>1, <2>3, <2>17, <2>18, <2>19, CountsMoved
<1> QED BY <1>3, <1>4

LEMMA CountsStep ==
  ASSUME NEW m, Fits(m), TypeInv, TypeInv', RegionInv, TableInv, CountInv, NEW t \in Threads,
         MallocStep(t) \/ ReclaimStep(t) \/ FreeStep(t)
  PROVE  CountInv'
<1> SUFFICES ASSUME reclaims' = 0 PROVE Counts'
  BY DEF CountInv
<1>1. ASSUME reclaims' = reclaims PROVE Counts'
  <2>1. Tidy /\ Counts
    BY <1>1 DEF TableInv, CountInv
  <2>2. th[t].pc \notin {"scan", "evict", "evicted", "charge", "flush", "flushed", "realfree"}
    BY <2>1 DEF Tidy, Quiet
  <2>3. CASE MallocStep(t)
    <3>1. CASE \/ MallocOnCard(t) \/ MallocOverflow(t) \/ Overflow(t) \/ AllocPool(t) \/ AllocPinned(t)
               \/ PathB(t) \/ AllocHostReg(t)
      BY <2>1, <3>1, MallocOnCardCounts, MallocOverflowCounts, OverflowCounts, AllocPoolCounts,
         AllocPinnedCounts, PathBCounts, AllocHostRegCounts
    <3>2. CASE ReserveBlackwell(t) \/ AllocZeroCopy(t) \/ ReleaseReserved(t) \/ Failed(t)
      BY <2>1, <3>2, ReserveBlackwellCounts, AllocZeroCopyCounts, ReleaseReservedCounts, FailedCounts
    <3>3. CASE HtInsert(t) \/ TableFull(t) \/ SetFlags(t) \/ CountT2(t)
      BY <2>1, <3>3, HtInsertCounts, TableFullCounts, SetFlagsCounts, CountT2Counts
    <3> QED BY <2>3, <3>1, <3>2, <3>3 DEF MallocStep
  <2>4. CASE ReclaimStep(t)
    <3>1. Oom(t)
      BY <2>2, <2>4 DEF ReclaimStep, Scan, Evict, Evicting, Evicted, Charge, EvictDone, Flush, Flushed, At
    <3> QED BY <1>1, <2>1, <3>1, OomCounts
  <2>5. CASE FreeStep(t)
    BY <2>1, <2>5, FreeCounts, UnmapCounts, HtRemoveCounts, ReleaseCounts, UncountCounts,
       RealFreeCounts DEF FreeStep
  <2> QED BY <2>3, <2>4, <2>5
<1>2. reclaims' = reclaims \/ reclaims' = reclaims + 1
  <2>1. CASE MallocStep(t)
    BY <2>1 DEF MallocStep, MallocOnCard, MallocOverflow, Overflow, AllocPool, AllocPinned, PathB,
       AllocHostReg, ReserveBlackwell, AllocZeroCopy, ReleaseReserved, HtInsert, TableFull,
       SetFlags, CountT2, Failed
  <2>2. CASE ReclaimStep(t)
    BY <2>2 DEF ReclaimStep, Oom, Scan, Evict, Evicted, Charge, EvictDone, Flush, Flushed
  <2>3. CASE FreeStep(t)
    BY <2>3 DEF FreeStep, Free, Unmap, HtRemove, Release, Uncount, RealFree
  <2> QED BY <2>1, <2>2, <2>3
<1>3. reclaims \in Nat
  BY DEF TypeInv
<1> QED BY <1>1, <1>2, <1>3

LEMMA TotalZero ==
  ASSUME NEW S, NEW f, DOMAIN f = S, \A x \in S : f[x] = 0
  PROVE  Total(f) = 0
<1>1. \A x \in S : {x} \X (1 .. f[x]) = {}
  OBVIOUS
<1>2. PagesOf(S, f) = {}
  BY <1>1 DEF PagesOf
<1> QED BY <1>2, FS_EmptySet DEF Total, PagesOf

LEMMA CountsInit == ASSUME Init PROVE CountInv
<1>1. /\ \A t \in Threads : th[t] = Idle
      /\ \A s \in Slots : table[s].ptr = Empty
      /\ bvmm = [h \in Host |-> 0] /\ t1 = 0 /\ t2 = 0
  BY DEF Init
<1>2. Empty \notin Mapped /\ Empty \notin Dev
  BY ShimConstants DEF Mapped
<1>3. /\ \A s \in Slots : T2Entries[s] = 0
      /\ \A s \in Slots : T1Entries[s] = 0
      /\ DOMAIN T2Entries = Slots /\ DOMAIN T1Entries = Slots
  BY <1>1, <1>2 DEF T2Entries, T1Entries
<1>4. /\ \A t \in Threads : T2Calls[t] = 0
      /\ \A t \in Threads : T1Calls[t] = 0
      /\ \A t \in Threads : Reserved[t] = 0
      /\ DOMAIN T2Calls = Threads /\ DOMAIN T1Calls = Threads /\ DOMAIN Reserved = Threads
  BY <1>1 DEF T2Calls, T1Calls, Reserved, InHand, Idle
<1>5. Total(T2Entries) = 0 /\ Total(T1Entries) = 0
  BY <1>3, TotalZero
<1>6. Total(T2Calls) = 0 /\ Total(T1Calls) = 0 /\ Total(Reserved) = 0
  BY <1>4, TotalZero
<1>7. Total(bvmm) = 0
  BY <1>1, TotalZero
<1>8. LateSizes
  BY <1>1 DEF LateSizes, Late, Idle
<1> QED BY <1>1, <1>5, <1>6, <1>7, <1>8, ShimConstants DEF CountInv, Counts

\* The invariant that the counters rest on: they say what the tables hold, an entry has the
\* size that its call will count, and what is reserved fits the cap with what is given out.
THEOREM CountersInvariance ==
  ASSUME NEW m, Fits(m)
  PROVE  Spec => [](ShimInv /\ TableInv /\ CountInv)
<1>1. Init => CountInv
  BY CountsInit
<1>2. ShimInv /\ ShimInv' /\ TableInv /\ CountInv /\ [Next]_vars => CountInv'
  <2> SUFFICES ASSUME ShimInv, ShimInv', TableInv, CountInv, [Next]_vars PROVE CountInv'
    OBVIOUS
  <2>1. ASSUME NEW t \in Threads, MallocStep(t) \/ ReclaimStep(t) \/ FreeStep(t) PROVE CountInv'
    BY <2>1, CountsStep DEF ShimInv
  <2>2. CASE UNCHANGED vars
    <3>1. /\ T2Entries' = T2Entries /\ T1Entries' = T1Entries /\ bvmm' = bvmm
          /\ T2Calls' = T2Calls /\ T1Calls' = T1Calls /\ Reserved' = Reserved
      BY <2>2 DEF vars, T2Entries, T1Entries, T2Calls, T1Calls, Reserved, Uncounted, InHand
    <3>2. LateSizes' <=> LateSizes
      BY <2>2 DEF vars, LateSizes, Late
    <3>3. t1' = t1 /\ t2' = t2 /\ reclaims' = reclaims
      BY <2>2 DEF vars
    <3> QED BY <3>1, <3>2, <3>3 DEF CountInv, Counts
  <2> QED BY <2>1, <2>2 DEF Next
<1> QED BY <1>1, <1>2, TableInvariance, PTL DEF Spec

\* As long as nothing was evicted, both counters are exactly what the tables hold and the
\* calls under way have reserved or not taken back, and on a Blackwell card the pages given
\* out fit the cap: for any threads that race for the rest of it, if all the memory that
\* the tables could ever name does not overflow a counter.
THEOREM CountersAreKept ==
  ASSUME NEW m, Fits(m)
  PROVE  Spec => []CountersKept
<1>1. ShimInv /\ CountInv => CountersKept
  <2> SUFFICES ASSUME ShimInv, CountInv, reclaims = 0 PROVE Counts /\ Total(bvmm) <= Cap
    BY DEF CountersKept, Counts
  <2>1. Counts
    BY DEF CountInv
  <2>2. Reserved \in [Threads -> 0 .. m] /\ bvmm \in [Host -> 0 .. m]
    BY NumbersType DEF ShimInv
  <2>3. Total(Reserved) \in Nat /\ Total(bvmm) \in Nat
    <3>1. T2Entries \in [Slots -> 0 .. m]
      BY NumbersType DEF ShimInv
    <3> QED BY <2>2, <3>1, SumsFit
  <2>4. Total(bvmm) + Total(Reserved) <= Cap
    BY <2>1 DEF Counts
  <2> QED BY <2>1, <2>3, <2>4, ShimConstants
<1> QED BY <1>1, CountersInvariance, PTL

=============================================================================
