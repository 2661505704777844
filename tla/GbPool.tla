-------------------------------- MODULE GbPool --------------------------------
(***************************************************************************)
(* The pre-registered slab of the CUDA shim (gb_pool_alloc, gb_pool_free in *)
(* greenboost_cuda_shim.c): operators on its four size-class free lists.    *)
(* A list sorted by offset is a set of segments here, and a call, which     *)
(* holds the pool's lock throughout, one operator.  Offsets and sizes are   *)
(* in pages of 4 KB, so the rounding to 256 bytes does nothing.             *)
(***************************************************************************)
EXTENDS Integers, FiniteSets

CONSTANT
  ClassMax   \* gb_pool_sc_max: the segments that each class's list has room for

Classes == 0 .. 3

ASSUME PoolAssumption == ClassMax \in [Classes -> Nat]

Segment(off, sz) == [off |-> off, sz |-> sz]

\* 4 KB, 64 KB and 4 MB are the limits between the classes.
Class(sz) == IF sz <= 1 THEN 0 ELSE IF sz <= 16 THEN 1 ELSE IF sz <= 1024 THEN 2 ELSE 3

Units(s) == s.off .. s.off + s.sz - 1

FreeUnits(free) == UNION {Units(s) : s \in UNION {free[c] : c \in Classes}}

\* The segments that end where s begins, and those that begin where it ends.
Left(list, s) == {u \in list : u.off + u.sz = s.off}
Right(list, s) == {u \in list : s.off + s.sz = u.off}

Joined(list, s) ==
  LET start == IF Left(list, s) = {} THEN s.off ELSE (CHOOSE u \in Left(list, s) : TRUE).off
      end == IF Right(list, s) = {} THEN s.off + s.sz
             ELSE LET u == CHOOSE v \in Right(list, s) : TRUE IN u.off + u.sz
  IN Segment(start, end - start)

\* The list with s, joined with its neighbours there.
Coalesced(list, s) == (list \ (Left(list, s) \cup Right(list, s))) \cup {Joined(list, s)}

\* s goes into the list of class c; a list that is full passes it on to the next class,
\* the last one drops it.
Room(free, c) == {d \in c .. 3 : Cardinality(free[d]) < ClassMax[d]}

ScInsert(free, c, s) ==
  IF Room(free, c) = {} THEN free
  ELSE LET d == CHOOSE x \in Room(free, c) : \A y \in Room(free, c) : x <= y
       IN [free EXCEPT ![d] = Coalesced(@, s)]

\* The classes in which a request finds a segment, from its own class upwards.
Serving(free, sz) == {c \in Class(sz) .. 3 : \E s \in free[c] : s.sz >= sz}

\* The best fit in the lowest of those classes, the first one of its size.
Chosen(free, sz) ==
  LET c == CHOOSE x \in Serving(free, sz) : \A y \in Serving(free, sz) : x <= y
      fit == {s \in free[c] : s.sz >= sz}
  IN [class |-> c,
      seg |-> CHOOSE s \in fit : \A u \in fit :
                s.sz < u.sz \/ (s.sz = u.sz /\ s.off <= u.off)]

\* The free lists after `sz` pages were cut off the chosen segment; the rest stays in
\* the list, or moves to that of its own size.
PoolAlloc(free, sz) ==
  LET c == Chosen(free, sz).class
      s == Chosen(free, sz).seg
      rest == Segment(s.off + sz, s.sz - sz)
      cut == [free EXCEPT ![c] = @ \ {s}]
  IN IF rest.sz = 0 THEN cut
     ELSE IF Class(rest.sz) < c THEN ScInsert(cut, Class(rest.sz), rest)
     ELSE [cut EXCEPT ![c] = @ \cup {rest}]

PoolFree(free, off, sz) == ScInsert(free, Class(sz), Segment(off, sz))

\* gb_pool_init, called if a pool is configured: one segment, in the last list whatever its
\* size.
PoolInit(units) == [c \in Classes |-> IF c = 3 /\ units > 0 THEN {Segment(0, units)} ELSE {}]
=============================================================================
