------------------------------- MODULE GbPages -------------------------------
(***************************************************************************)
(* The KV page pool of the serving engine (gllm/memory_manager.py and       *)
(* id_allocator.py) as operators on one record:                             *)
(*                                                                          *)
(*   free   the FIFO of free page ids                IDAllocator.free_ids   *)
(*   ref    the holders of each page                 page_ref_num           *)
(*   p2h    the prefix hash a page was given         page2hash              *)
(*   h2p    the page a lookup of a hash returns      hash2page              *)
(*                                                                          *)
(* A chained hash stands for the token prefix it was computed from, so two  *)
(* prefixes never collide; the canary that guards against collisions of     *)
(* Python's hash() is therefore left out.                                   *)
(***************************************************************************)
EXTENDS Naturals, Sequences

CONSTANTS
  NumPages,   \* num_pages
  NoHash      \* page2hash = 0: the page is not in the prefix cache

Pages == 0 .. NumPages - 1

ASSUME PagesAssumption == NumPages \in Nat \ {0}

EmptyPool ==
  [free |-> [i \in 1 .. NumPages |-> i - 1],
   ref  |-> [p \in Pages |-> 0],
   p2h  |-> [p \in Pages |-> NoHash],
   h2p  |-> [h \in {} |-> 0]]

-----------------------------------------------------------------------------
(* Maps and queues. *)

Unbind(f, h) == [g \in DOMAIN f \ {h} |-> f[g]]

Bind(f, h, p) == [g \in DOMAIN f \cup {h} |-> IF g = h THEN p ELSE f[g]]

\* OrderedDict.pop(id, None): the element leaves, the order of the rest stays.
Without(s, p) ==
  IF \E i \in 1 .. Len(s) : s[i] = p
  THEN LET k == CHOOSE i \in 1 .. Len(s) : s[i] = p
       IN  [i \in 1 .. Len(s) - 1 |-> IF i < k THEN s[i] ELSE s[i + 1]]
  ELSE s

-----------------------------------------------------------------------------
(* PrefixSegment. *)

\* allocate: the oldest free page is taken; the entry of the hash it had is
\* deleted, even when another page has taken that hash over since.
Mint(pool, h) ==
  LET p == Head(pool.free)
      h2p == Unbind(pool.h2p, pool.p2h[p])
  IN  [free |-> Tail(pool.free),
       ref  |-> [pool.ref EXCEPT ![p] = @ + 1],
       p2h  |-> [pool.p2h EXCEPT ![p] = h],
       h2p  |-> IF h = NoHash THEN h2p ELSE Bind(h2p, h, p)]

\* has_computed on a hit: the page leaves the free list if it is there.
Share(pool, p) ==
  [pool EXCEPT !.free = Without(@, p), !.ref[p] = @ + 1]

\* Faulty: the page goes back while another sequence still holds it.
DropAtOnce(pool, p) ==
  [pool EXCEPT !.ref[p] = @ - 1,
               !.free = IF \E i \in 1 .. Len(@) : @[i] = p THEN @ ELSE Append(@, p)]

\* free: the last holder puts the page at the back; its hash stays.
Drop(pool, p) ==
  [pool EXCEPT !.ref[p] = @ - 1,
               !.free = IF pool.ref[p] = 1 THEN Append(@, p) ELSE @]

\* Faulty: the hash of a page replaces that of the page that has it already.
RegisterAlways(pool, p, h) ==
  [pool EXCEPT !.h2p = Bind(@, h, p)]

\* update: a hash that is cached already keeps the page it has.
Register(pool, p, h) ==
  IF h \in DOMAIN pool.h2p
  THEN pool
  ELSE [pool EXCEPT !.p2h[p] = h, !.h2p = Bind(@, h, p)]
==============================================================================
