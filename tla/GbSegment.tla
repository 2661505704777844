------------------------------ MODULE GbSegment ------------------------------
(***************************************************************************)
(* PrefixSegment under the calls of PrefixMemoryManager: sequences that     *)
(* share prefixes look pages up, allocate, complete and free them, one call *)
(* of the segment per step.  The scheduler's own loops (which sequence runs *)
(* when, and how many pages at once) are in GbScheduler; here a sequence    *)
(* may make its next call at any time.                                      *)
(***************************************************************************)
EXTENDS GbPages, FiniteSets

CONSTANTS
  Seqs,     \* sequences (requests) that may be in the engine
  Hashes,   \* chained page hashes
  Chain,    \* Chain[q][i]: the hash of the first i pages of q's tokens
  Start     \* Start[q]: the full pages of q's prompt

\* A chained hash fixes the number of pages it covers and the hashes before it.
ASSUME ChainAssumption ==
  /\ IsFiniteSet(Seqs)
  /\ NoHash \notin Hashes
  /\ Chain \in [Seqs -> Seq(Hashes)]
  /\ \A q, r \in Seqs : \A i \in 1 .. Len(Chain[q]), j \in 1 .. Len(Chain[r]) :
        Chain[q][i] = Chain[r][j] => i = j
  /\ Start \in [Seqs -> Nat]
  /\ \A q \in Seqs : Start[q] <= Len(Chain[q])

VARIABLES
  pool,      \* the segment
  table,     \* page_table of each sequence
  looking,   \* still in the loop of pre_allocate_computed_page
  full,      \* complete pages of token_ids
  freed      \* pages of the table that MemoryManager.free has given back

vars == <<pool, table, looking, full, freed>>

\* No other sequence is in the loop of MemoryManager.free: one thread does it all.
Idle(q) == \A r \in Seqs \ {q} : freed[r] = 0

\* The index at which the next page of q goes.
NextIndex(q) == Len(table[q]) + 1

\* The hash of the next page is in the hash table.
Cached(q) ==
  /\ NextIndex(q) <= full[q]
  /\ Chain[q][NextIndex(q)] \in DOMAIN pool.h2p

\* has_computed, called for one prefix length after another until a miss.
HasComputed(q) ==
  /\ Idle(q) /\ freed[q] = 0 /\ looking[q]
  /\ Cached(q)
  /\ LET p == pool.h2p[Chain[q][NextIndex(q)]]
     IN  /\ pool' = Share(pool, p)
         /\ table' = [table EXCEPT ![q] = Append(@, p)]
  /\ UNCHANGED <<looking, full, freed>>

\* Faulty: the page of the unfinished tail is registered too.
HashForTail(q, i) == IF i <= Len(Chain[q]) THEN Chain[q][i] ELSE NoHash

\* allocate(seq, n) for a page whose tokens are all known, else allocate().
HashFor(q, i) == IF i <= full[q] THEN Chain[q][i] ELSE NoHash

\* pre_allocate_page, one page: at most one page beyond the complete ones.
Allocate(q) ==
  /\ Idle(q) /\ freed[q] = 0
  /\ pool.free # <<>>
  /\ NextIndex(q) <= full[q] + 1
  /\ ~(looking[q] /\ Cached(q))
  /\ pool' = Mint(pool, HashFor(q, NextIndex(q)))
  /\ table' = [table EXCEPT ![q] = Append(@, Head(pool.free))]
  /\ looking' = [looking EXCEPT ![q] = FALSE]
  /\ UNCHANGED <<full, freed>>

\* A sampled token completes the next page: register_decode_boundary, which
\* passes over a page that the (preempted) sequence no longer has.
CompletePage(q) ==
  /\ Idle(q) /\ freed[q] = 0 /\ ~looking[q]
  /\ full[q] < Len(Chain[q])
  /\ full' = [full EXCEPT ![q] = @ + 1]
  /\ pool' = IF full[q] < Len(table[q])
             THEN Register(pool, table[q][full[q] + 1], Chain[q][full[q] + 1])
             ELSE pool
  /\ UNCHANGED <<table, looking, freed>>

\* MemoryManager.free, one round of its loop over page_table.
FreePage(q) ==
  /\ Idle(q) /\ freed[q] < Len(table[q])
  /\ pool' = Drop(pool, table[q][freed[q] + 1])
  /\ freed' = [freed EXCEPT ![q] = @ + 1]
  /\ UNCHANGED <<table, looking, full>>

\* After the loop: preempt() keeps the tokens and empties the table; a sequence
\* that finished or was aborted is dropped and its prompt may come again.
Leave(q) ==
  /\ Idle(q) /\ freed[q] = Len(table[q])
  /\ table' = [table EXCEPT ![q] = <<>>]
  /\ looking' = [looking EXCEPT ![q] = TRUE]
  /\ freed' = [freed EXCEPT ![q] = 0]
  /\ \/ full' = full
     \/ full' = [full EXCEPT ![q] = Start[q]]
  /\ UNCHANGED pool

Init ==
  /\ pool = EmptyPool
  /\ table = [q \in Seqs |-> <<>>]
  /\ looking = [q \in Seqs |-> TRUE]
  /\ full = Start
  /\ freed = [q \in Seqs |-> 0]

Next ==
  \E q \in Seqs :
    \/ HasComputed(q)
    \/ Allocate(q)
    \/ CompletePage(q)
    \/ FreePage(q)
    \/ Leave(q)

Spec == Init /\ [][Next]_vars

-----------------------------------------------------------------------------
(* Properties. *)

\* The part of the table that has not been given back.
Holds(q, p) == \E i \in freed[q] + 1 .. Len(table[q]) : table[q][i] = p

Holders(p) == {q \in Seqs : Holds(q, p)}

TypeOK ==
  /\ pool.free \in Seq(Pages)
  /\ pool.ref \in [Pages -> Nat]
  /\ pool.p2h \in [Pages -> Hashes \cup {NoHash}]
  /\ DOMAIN pool.h2p \subseteq Hashes
  /\ pool.h2p \in [DOMAIN pool.h2p -> Pages]
  /\ pool = [free |-> pool.free, ref |-> pool.ref, p2h |-> pool.p2h, h2p |-> pool.h2p]
  /\ table \in [Seqs -> Seq(Pages)]
  /\ looking \in [Seqs -> BOOLEAN]
  /\ full \in [Seqs -> Nat]
  /\ freed \in [Seqs -> Nat]
  /\ \A q \in Seqs : freed[q] <= Len(table[q]) /\ full[q] <= Len(Chain[q])

\* page_ref_num is the number of sequences whose page table has the page, over
\* every interleaving of hits, allocations, frees and preemptions: neither the
\* assertion of free() nor a leak is possible.
RefsCountHolders == \A p \in Pages : pool.ref[p] = Cardinality(Holders(p))

\* The free list has every page that nobody holds, once, and no other page.
FreeIffUnheld ==
  /\ \A p \in Pages : pool.ref[p] = 0 <=> \E i \in 1 .. Len(pool.free) : pool.free[i] = p
  /\ \A i, j \in 1 .. Len(pool.free) : pool.free[i] = pool.free[j] => i = j

\* A lookup never returns a page that has since been given another prefix.
CacheEntriesAgree == \A h \in DOMAIN pool.h2p : pool.p2h[pool.h2p[h]] = h

\* A page in the i-th place of a page table is not in the cache or is cached
\* under the hash of the first i pages of that very sequence: sharing never
\* puts one prompt's KV under another's.
OwnPrefixOnly ==
  \A q \in Seqs : \A i \in freed[q] + 1 .. Len(table[q]) :
    pool.p2h[table[q][i]] # NoHash =>
      i <= full[q] /\ pool.p2h[table[q][i]] = Chain[q][i]

\* What the segment keeps about its pages is right together: the counts are the
\* holders, the free list is what nobody holds, and no cache entry is stale, over
\* every interleaving of lookups, allocations, frees and preemptions.
PoolExact == TypeOK /\ RefsCountHolders /\ FreeIffUnheld /\ CacheEntriesAgree

-----------------------------------------------------------------------------
(* What the segment promises: GbPageOwners without free list, counts and     *)
(* hash table. *)

Owners == INSTANCE GbPageOwners WITH
  owners <- [p \in Pages |-> Holders(p)],
  prefix <- pool.p2h

\* The segment implements the abstract ownership of pages.
ImplementsOwners == Owners!Spec
==============================================================================
