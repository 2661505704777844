-------------------------------- MODULE GbShim --------------------------------
(***************************************************************************)
(* The allocation tables of the CUDA shim (greenboost_cuda_shim.c).  The    *)
(* threads of a process call cudaMalloc and cudaFree (or cuMemAlloc_v2 and  *)
(* cuMemFree_v2, which do the same); a request goes to the card (T1), or to *)
(* host RAM (T2): a region of the pre-registered pool or pages registered   *)
(* for it, found again through the hash table gb_htable; on a Blackwell     *)
(* card always registered pages, found through gb_bvmm_ht.  When all is     *)
(* full one thread evicts KV cache, and then flushes the other entries.     *)
(*                                                                          *)
(* gb_htable is probed one slot at a time under one of a few locks, so each *)
(* probe is a step; so are each atomic access to a counter and each call of *)
(* the pool or the driver that other threads can fall between.  Sizes are   *)
(* in pages of 4 KB.  There is no feeder (GbFabric) and no front-load       *)
(* split; ht_peek_flags, whose result only feeds statistics, is left out,   *)
(* and readings of free memory may say anything.                            *)
(***************************************************************************)
EXTENDS GbPool, FiniteSetsExt

CONSTANTS
  Threads,
  NoThread,
  Dev,          \* device pointers the driver may give out
  Host,         \* pages of host RAM that may be registered, by device pointer
  Registered,   \* bound: those of them that paths A and B get
  PoolUnits,    \* gb_pool_configured_bytes
  HtSize,       \* HT_SIZE
  HtLocks,      \* HT_LOCKS
  Hash,         \* ht_hash: pointer -> slot
  Empty,        \* the pointer of a slot never used
  Tombstone,    \* HT_TOMBSTONE
  Sizes,        \* the sizes asked for
  Cap,          \* gb_effective_t2_cap
  Mid,          \* gb_effective_t2_mid
  Word,         \* 2^64
  MaxHeld,      \* bound: the pointers with which the program asks for more after a reclaim
  MaxReclaims   \* bound: the passes of the OOM path that find something to evict

Pool == 0 .. PoolUnits - 1
Ptrs == Pool \cup Dev \cup Host
Mapped == Pool \cup Host            \* the entries with a mapped_ptr
Slots == 0 .. HtSize - 1
Locks == 0 .. HtLocks - 1

ASSUME ShimAssumption ==
  /\ IsFiniteSet(Threads) /\ NoThread \notin Threads
  /\ PoolUnits \in Nat /\ HtSize \in Nat \ {0} /\ HtLocks \in Nat \ {0}
  /\ Registered \subseteq Host /\ Dev \cap Host = {} /\ (Dev \cup Host) \cap Nat = {}
  /\ {Empty, Tombstone} \cap Ptrs = {} /\ Empty # Tombstone
  /\ Hash \in [Ptrs -> Slots]
  /\ Sizes \subseteq Nat \ {0}
  /\ Cap \in Nat /\ Mid \in Nat /\ Word \in Nat \ {0}
  /\ MaxHeld \in Nat /\ MaxReclaims \in Nat

VARIABLES
  blackwell, \* gb_cc_major >= 12
  table,     \* gb_htable
  lock,      \* ht_locks; only held from one step to the next where the pool is called under it
  free,      \* gb_t2_reg_pool
  bvmm,      \* gb_bvmm_ht: pointer -> size, 0 when it has no entry
  real,      \* the pointers that the driver has given out and not taken back
  t1,        \* g_local_t1_alloc_bytes
  t2,        \* gb_t2_overflow_bytes
  oom,       \* oom_in_progress
  held,      \* pointer -> how often the program has got it and not freed it
  th,        \* thread -> where it stands in a call
  reclaims   \* history: the passes of the OOM path so far

vars == <<blackwell, table, lock, free, bvmm, real, t1, t2, oom, held, th, reclaims>>

Slot == [ptr : Ptrs \cup {Empty, Tombstone}, size : Nat, kv : BOOLEAN]

\* `try` counts the calls of gb_overflow_alloc; `todo`, `freed` and `batch` are the
\* candidates, the bytes freed and the regions to madvise of an eviction.
Idle == [pc |-> "idle", ptr |-> Empty, size |-> 0, i |-> 0, try |-> 0,
         todo |-> {}, freed |-> 0, due |-> 0, batch |-> {}]

Pcs == {"idle", "overflow", "pool", "pinned", "pathb", "hostreg", "revert", "zerocopy",
        "insert", "full", "flags", "count", "failed",
        "oom", "scan", "evict", "evicted", "charge", "flush", "flushed",
        "remove", "release", "uncount", "unmap", "realfree"}

TypeOK ==
  /\ blackwell \in BOOLEAN /\ oom \in BOOLEAN
  /\ table \in [Slots -> Slot]
  /\ lock \in [Locks -> Threads \cup {NoThread}]
  /\ free \in [Classes -> SUBSET [off : Pool, sz : 1 .. PoolUnits]]
  /\ bvmm \in [Host -> Sizes \cup {0}]
  /\ real \subseteq Dev \cup Host
  /\ t1 \in 0 .. Word - 1 /\ t2 \in 0 .. Word - 1
  /\ held \in [Ptrs -> Nat]
  /\ reclaims \in 0 .. MaxReclaims
  /\ \A t \in Threads :
       /\ th[t].pc \in Pcs /\ th[t].ptr \in Ptrs \cup {Empty}
       /\ th[t].size \in Sizes \cup {0} /\ th[t].i \in Slots /\ th[t].try \in 0 .. 3
       /\ th[t].todo \subseteq Slots /\ th[t].freed \in Nat /\ th[t].due \in Nat
       /\ th[t].batch \subseteq [off : Pool, sz : Sizes]

Init ==
  /\ blackwell \in BOOLEAN
  /\ table = [s \in Slots |-> [ptr |-> Empty, size |-> 0, kv |-> FALSE]]
  /\ lock = [l \in Locks |-> NoThread]
  /\ free = PoolInit(PoolUnits)
  /\ bvmm = [h \in Host |-> 0]
  /\ real = {}
  /\ t1 = 0 /\ t2 = 0
  /\ oom = FALSE
  /\ held = [p \in Ptrs |-> 0]
  /\ th = [t \in Threads |-> Idle]
  /\ reclaims = 0

At(t, pc) == th[t].pc = pc
To(t, pc) == th' = [th EXCEPT ![t].pc = pc]
Rest(t) == th' = [th EXCEPT ![t] = Idle]

\* The next slot of a probe or of a walk over the table; after the last one, `pc`.
OnOr(t, pc) ==
  IF th[t].i + 1 = HtSize
  THEN th' = [th EXCEPT ![t].pc = pc, ![t].i = 0]
  ELSE th' = [th EXCEPT ![t].i = @ + 1]

Here(t) == (Hash[th[t].ptr] + th[t].i) % HtSize   \* the slot a probe is at
LockOf(s) == s % HtLocks
Unlocked(s) == lock[LockOf(s)] = NoThread
Live(s) == table[s].ptr \notin {Empty, Tombstone}

Add(x, n) == (x + n) % Word
Sub(x, n) == (x + Word - (n % Word)) % Word

\* A call of cudaMalloc hands its pointer to the program; the one that had reclaimed
\* memory lets the next thread do so.
Return(t, p) ==
  /\ held' = [held EXCEPT ![p] = @ + 1]
  /\ oom' = IF th[t].try = 3 THEN FALSE ELSE oom
  /\ Rest(t)
InBvmm(p) == p \in Host /\ bvmm[p] # 0
-----------------------------------------------------------------------------
(* cudaMalloc *)

\* After a reclaim the program asks for more only when it has little.
AsksForMore == reclaims > 0 => MapThenSumSet(LAMBDA p : held[p], Ptrs) <= MaxHeld

\* There is room on the card: the speculative count, the driver's allocation.
MallocOnCard(t) ==
  /\ At(t, "idle") /\ AsksForMore
  /\ \E sz \in Sizes, d \in Dev \ real :
       /\ real' = real \cup {d}
       /\ t1' = Add(t1, sz)
       /\ th' = [th EXCEPT ![t] = [Idle EXCEPT !.pc = "insert", !.ptr = d, !.size = sz]]
  /\ UNCHANGED <<blackwell, table, lock, free, bvmm, t2, oom, held, reclaims>>

\* gb_needs_overflow says no, or the driver has no memory and the count is taken back.
\* A large request does not try T2 first when little of it is left.
MallocOverflow(t) ==
  /\ At(t, "idle") /\ AsksForMore
  /\ \E sz \in Sizes, try \in {1} \cup (IF t2 >= Mid THEN {2} ELSE {}) :
       th' = [th EXCEPT ![t] = [Idle EXCEPT !.pc = "overflow", !.size = sz, !.try = try]]
  /\ UNCHANGED <<blackwell, table, lock, free, bvmm, real, t1, t2, oom, held, reclaims>>

Over(t) == t2 + th[t].size > Cap

\* Where no MemAvailable guard refuses, the cap decides between the pool and path B.
Overflow(t) ==
  /\ At(t, "overflow") /\ ~blackwell
  /\ \/ To(t, "failed")
     \/ th[t].size <= Cap /\ To(t, "pathb")
     \/ ~Over(t) /\ To(t, "pool")
  /\ UNCHANGED <<blackwell, table, lock, free, bvmm, real, t1, t2, oom, held, reclaims>>

AllocPool(t) ==
  /\ At(t, "pool")
  /\ IF Serving(free, th[t].size) # {}
     THEN /\ th' = [th EXCEPT ![t].pc = "insert", ![t].ptr = Chosen(free, th[t].size).seg.off]
          /\ free' = PoolAlloc(free, th[t].size)
     ELSE To(t, "pinned") /\ UNCHANGED free
  /\ UNCHANGED <<blackwell, table, lock, bvmm, real, t1, t2, oom, held, reclaims>>

\* mmap and cuMemHostRegister give pages with a device pointer.
Register(t) ==
  \E h \in Registered \ real :
    /\ real' = real \cup {h}
    /\ th' = [th EXCEPT ![t].pc = "insert", ![t].ptr = h]

\* Path A for one allocation, pinned by the kernel module.
AllocPinned(t) ==
  /\ At(t, "pinned")
  /\ \/ Register(t)
     \/ To(t, "pathb") /\ UNCHANGED real
     \/ To(t, "failed") /\ UNCHANGED real
  /\ UNCHANGED <<blackwell, table, lock, free, bvmm, t1, t2, oom, held, reclaims>>

PathB(t) ==
  /\ At(t, "pathb")
  /\ \/ To(t, "failed")
     \/ ~Over(t) /\ To(t, "hostreg")
  /\ UNCHANGED <<blackwell, table, lock, free, bvmm, real, t1, t2, oom, held, reclaims>>

AllocHostReg(t) ==
  /\ At(t, "hostreg")
  /\ \/ Register(t)
     \/ To(t, "failed") /\ UNCHANGED real
  /\ UNCHANGED <<blackwell, table, lock, free, bvmm, t1, t2, oom, held, reclaims>>

\* Faulty: what was reserved before is compared with the cap.
TryReserveFull(t) ==
  /\ t2' = Add(t2, th[t].size)
  /\ To(t, IF t2 >= Cap THEN "revert" ELSE "zerocopy")

\* gb_t2_try_reserve: the size is added before the sum is compared with the cap.
TryReserve(t) ==
  /\ t2' = Add(t2, th[t].size)
  /\ To(t, IF Over(t) THEN "revert" ELSE "zerocopy")

ReserveBlackwell(t) ==
  /\ At(t, "overflow") /\ blackwell
  /\ \/ TryReserve(t)
     \/ To(t, "failed") /\ UNCHANGED t2
  /\ UNCHANGED <<blackwell, table, lock, free, bvmm, real, t1, oom, held, reclaims>>

\* The pages are not known to anyone before they are in gb_bvmm_ht, under one lock.
AllocZeroCopy(t) ==
  /\ At(t, "zerocopy")
  /\ \/ \E h \in Host \ real :
          /\ real' = real \cup {h}
          /\ bvmm' = [bvmm EXCEPT ![h] = th[t].size]
          /\ Return(t, h)
     \/ To(t, "revert") /\ UNCHANGED <<real, bvmm, oom, held>>
  /\ UNCHANGED <<blackwell, table, lock, free, t1, t2, reclaims>>

ReleaseReserved(t) ==
  /\ At(t, "revert")
  /\ t2' = Sub(t2, th[t].size)
  /\ To(t, "failed")
  /\ UNCHANGED <<blackwell, table, lock, free, bvmm, real, t1, oom, held, reclaims>>

\* ht_insert takes the first slot that is free; it leaves the flags that are there.  A
\* request on the card is flagged only when it looks like KV cache.
HtInsert(t) ==
  /\ At(t, "insert") /\ Unlocked(Here(t))
  /\ IF Live(Here(t))
     THEN OnOr(t, "full") /\ UNCHANGED <<table, oom, held>>
     ELSE /\ table' = [table EXCEPT ![Here(t)].ptr = th[t].ptr, ![Here(t)].size = th[t].size]
          /\ \/ /\ th' = [th EXCEPT ![t].pc = "flags", ![t].i = 0]
                /\ UNCHANGED <<oom, held>>
             \/ th[t].ptr \in Dev /\ Return(t, th[t].ptr)
  /\ UNCHANGED <<blackwell, lock, free, bvmm, real, t1, t2, reclaims>>

\* The table is full: the allocation is given back.
TableFull(t) ==
  /\ At(t, "full")
  /\ free' = IF th[t].ptr \in Pool THEN PoolFree(free, th[t].ptr, th[t].size) ELSE free
  /\ real' = real \ {th[t].ptr}
  /\ IF th[t].ptr \in Dev THEN t1' = Sub(t1, th[t].size) /\ Rest(t)
     ELSE UNCHANGED t1 /\ th' = [th EXCEPT ![t].pc = "failed", ![t].ptr = Empty]
  /\ UNCHANGED <<blackwell, table, lock, bvmm, t2, oom, held, reclaims>>

\* ht_set_flags, with what gb_phase_classify makes of the request.
SetFlags(t) ==
  /\ At(t, "flags") /\ Unlocked(Here(t))
  /\ LET s == Here(t)
         found == table[s].ptr = th[t].ptr
         last == found \/ table[s].ptr = Empty \/ th[t].i + 1 = HtSize
     IN /\ \E kv \in IF th[t].ptr \in Dev THEN {TRUE} ELSE BOOLEAN :
             table' = IF found THEN [table EXCEPT ![s].kv = kv] ELSE table
        /\ IF last /\ th[t].ptr \in Dev THEN Return(t, th[t].ptr)
           ELSE /\ th' = IF last THEN [th EXCEPT ![t].pc = "count", ![t].i = 0]
                          ELSE [th EXCEPT ![t].i = @ + 1]
                /\ UNCHANGED <<oom, held>>
  /\ UNCHANGED <<blackwell, lock, free, bvmm, real, t1, t2, reclaims>>

CountT2(t) ==
  /\ At(t, "count")
  /\ t2' = Add(t2, th[t].size)
  /\ Return(t, th[t].ptr)
  /\ UNCHANGED <<blackwell, table, lock, free, bvmm, real, t1, reclaims>>

\* gb_overflow_alloc has failed: T2 is tried twice, and once more after the OOM path.
Failed(t) ==
  /\ At(t, "failed")
  /\ \/ th[t].try = 1 /\ th' = [th EXCEPT ![t].pc = "overflow", ![t].try = 2] /\ UNCHANGED oom
     \/ th[t].try = 2 /\ To(t, "oom") /\ UNCHANGED oom
     \/ th[t].try = 3 /\ Rest(t) /\ oom' = FALSE
  /\ UNCHANGED <<blackwell, table, lock, free, bvmm, real, t1, t2, held, reclaims>>
-----------------------------------------------------------------------------
(* The OOM path *)

\* Past the bound, a thread outside of the model is in the OOM path.
Oom(t) ==
  /\ At(t, "oom")
  /\ IF oom \/ reclaims = MaxReclaims
     THEN Rest(t) /\ UNCHANGED <<oom, reclaims>>
     ELSE oom' = TRUE /\ reclaims' = reclaims + 1 /\ To(t, "scan")
  /\ UNCHANGED <<blackwell, table, lock, free, bvmm, real, t1, t2, held>>

\* gb_htable_evict_kv_arc collects its candidates without a lock.
Scan(t) ==
  /\ At(t, "scan")
  /\ LET s == th[t].i
     IN th' = [th EXCEPT
          ![t].todo = IF Live(s) /\ table[s].kv THEN @ \cup {s} ELSE @,
          ![t].pc = IF s + 1 = HtSize THEN "evict" ELSE @,
          ![t].i = IF s + 1 = HtSize THEN 0 ELSE @ + 1]
  /\ UNCHANGED <<blackwell, table, lock, free, bvmm, real, t1, t2, oom, held, reclaims>>

\* The request and a tenth, rounded up to pages.
Target(t) == th[t].size + 1
Evicting(t) == At(t, "evict") /\ th[t].freed < Target(t) /\ th[t].todo # {}

\* Faulty: the lock is given back before the entry is buried.
GiveBackUnlocked(t, s) ==
  /\ lock' = [lock EXCEPT ![LockOf(s)] = NoThread]
  /\ free' = IF table[s].ptr \in Pool THEN PoolFree(free, table[s].ptr, table[s].size) ELSE free
  /\ real' = real \ ({table[s].ptr} \cap Host)

\* The memory of the entry in slot s goes back, under the lock of the slot.
GiveBack(t, s) ==
  /\ lock' = [lock EXCEPT ![LockOf(s)] = t]
  /\ free' = IF table[s].ptr \in Pool THEN PoolFree(free, table[s].ptr, table[s].size) ELSE free
  /\ real' = real \ ({table[s].ptr} \cap Host)

\* The size that the entry of a buried slot keeps is not read again; 0 stands for it.
Bury(s) ==
  /\ table' = [table EXCEPT ![s].ptr = Tombstone, ![s].size = 0]
  /\ lock' = [lock EXCEPT ![LockOf(s)] = NoThread]

\* The oldest candidate, of the coldest set: any one here.  It is looked at again.
Victim(s) == Live(s) /\ table[s].kv

Evict(t) ==
  /\ Evicting(t)
  /\ \E s \in th[t].todo :
       /\ Unlocked(s)
       /\ IF Victim(s)
          THEN /\ GiveBack(t, s)
               /\ th' = [th EXCEPT ![t].pc = "evicted", ![t].i = s, ![t].todo = @ \ {s},
                    ![t].batch = IF table[s].ptr \in Pool
                                 THEN @ \cup {Segment(table[s].ptr, table[s].size)} ELSE @]
          ELSE th' = [th EXCEPT ![t].todo = @ \ {s}] /\ UNCHANGED <<lock, free, real>>
  /\ UNCHANGED <<blackwell, table, bvmm, t1, t2, oom, held, reclaims>>

Evicted(t) ==
  /\ At(t, "evicted")
  /\ Bury(th[t].i)
  /\ th' = [th EXCEPT ![t].pc = "charge", ![t].i = 0,
              ![t].freed = @ + table[th[t].i].size, ![t].due = table[th[t].i].size]
  /\ UNCHANGED <<blackwell, free, bvmm, real, t1, t2, oom, held, reclaims>>

\* The counter goes down by a page less than was freed, wherever it was.
Charge(t) ==
  /\ At(t, "charge")
  /\ t2' = Sub(t2, IF th[t].due < 2 THEN 0 ELSE th[t].due - 1)
  /\ th' = [th EXCEPT ![t].pc = "evict", ![t].due = 0]
  /\ UNCHANGED <<blackwell, table, lock, free, bvmm, real, t1, oom, held, reclaims>>

Retry(t) == th' = [th EXCEPT ![t] =
                     [Idle EXCEPT !.pc = "overflow", !.size = th[t].size, !.try = 3]]

\* The regions of the batch are madvised; if they are too few, all else is flushed.
EvictDone(t) ==
  /\ At(t, "evict") /\ ~Evicting(t)
  /\ IF th[t].freed < Target(t)
     THEN th' = [th EXCEPT ![t].pc = "flush", ![t].todo = {}, ![t].freed = 0, ![t].batch = {}]
     ELSE Retry(t)
  /\ UNCHANGED <<blackwell, table, lock, free, bvmm, real, t1, t2, oom, held, reclaims>>

FlushOn(t) == IF th[t].i + 1 = HtSize THEN Retry(t)
              ELSE th' = [th EXCEPT ![t].pc = "flush", ![t].i = @ + 1]

\* gb_htable_flush(1): every entry that is not KV cache.
Flush(t) ==
  /\ At(t, "flush") /\ Unlocked(th[t].i)
  /\ IF Live(th[t].i) /\ ~table[th[t].i].kv
     THEN GiveBack(t, th[t].i) /\ To(t, "flushed")
     ELSE FlushOn(t) /\ UNCHANGED <<lock, free, real>>
  /\ UNCHANGED <<blackwell, table, bvmm, t1, t2, oom, held, reclaims>>

Flushed(t) ==
  /\ At(t, "flushed")
  /\ Bury(th[t].i)
  /\ FlushOn(t)
  /\ UNCHANGED <<blackwell, free, bvmm, real, t1, t2, oom, held, reclaims>>
-----------------------------------------------------------------------------
(* cudaFree *)

\* gb_bvmm_free_dispatch looks for the pointer before gb_htable is searched.
Free(t, p) ==
  /\ At(t, "idle") /\ held[p] > 0
  /\ held' = [held EXCEPT ![p] = @ - 1]
  /\ IF InBvmm(p)
     THEN /\ bvmm' = [bvmm EXCEPT ![p] = 0]
          /\ th' = [th EXCEPT ![t] = [Idle EXCEPT !.pc = "unmap", !.ptr = p, !.size = bvmm[p]]]
     ELSE /\ UNCHANGED bvmm
          /\ th' = [th EXCEPT ![t] = [Idle EXCEPT !.pc = "remove", !.ptr = p]]
  /\ UNCHANGED <<blackwell, table, lock, free, real, t1, t2, oom, reclaims>>

Unmap(t) ==
  /\ At(t, "unmap")
  /\ real' = real \ {th[t].ptr}
  /\ To(t, "uncount")
  /\ UNCHANGED <<blackwell, table, lock, free, bvmm, t1, t2, oom, held, reclaims>>

\* Faulty: the slot becomes an empty one.
RemovedEmpty(s) == [table EXCEPT ![s].ptr = Empty, ![s].size = 0]

\* What ht_remove leaves in the slot; the flags stay.
Removed(s) == [table EXCEPT ![s].ptr = Tombstone, ![s].size = 0]

HtRemove(t) ==
  /\ At(t, "remove") /\ Unlocked(Here(t))
  /\ LET s == Here(t)
     IN IF table[s].ptr = th[t].ptr
        THEN /\ table' = Removed(s)
             /\ th' = [th EXCEPT ![t].pc = "release", ![t].i = 0, ![t].size = table[s].size]
        ELSE /\ UNCHANGED table
             /\ IF table[s].ptr = Empty
                THEN th' = [th EXCEPT ![t].pc = "realfree", ![t].i = 0]
                ELSE OnOr(t, "realfree")
  /\ UNCHANGED <<blackwell, lock, free, bvmm, real, t1, t2, oom, held, reclaims>>

Release(t) ==
  /\ At(t, "release")
  /\ free' = IF th[t].ptr \in Pool THEN PoolFree(free, th[t].ptr, th[t].size) ELSE free
  /\ real' = real \ {th[t].ptr}
  /\ IF th[t].ptr \in Dev THEN t1' = Sub(t1, th[t].size) /\ Rest(t)
     ELSE UNCHANGED t1 /\ To(t, "uncount")
  /\ UNCHANGED <<blackwell, table, lock, bvmm, t2, oom, held, reclaims>>

Uncount(t) ==
  /\ At(t, "uncount")
  /\ t2' = Sub(t2, th[t].size)
  /\ Rest(t)
  /\ UNCHANGED <<blackwell, table, lock, free, bvmm, real, t1, oom, held, reclaims>>

\* A pointer in no table goes to the driver, which refuses the ones that are not its own.
RealFree(t) ==
  /\ At(t, "realfree")
  /\ real' = real \ ({th[t].ptr} \cap Dev)
  /\ Rest(t)
  /\ UNCHANGED <<blackwell, table, lock, free, bvmm, t1, t2, oom, held, reclaims>>

MallocStep(t) ==
  \/ MallocOnCard(t) \/ MallocOverflow(t)
  \/ Overflow(t) \/ AllocPool(t) \/ AllocPinned(t) \/ PathB(t) \/ AllocHostReg(t)
  \/ ReserveBlackwell(t) \/ AllocZeroCopy(t) \/ ReleaseReserved(t)
  \/ HtInsert(t) \/ TableFull(t) \/ SetFlags(t) \/ CountT2(t) \/ Failed(t)

ReclaimStep(t) ==
  \/ Oom(t) \/ Scan(t) \/ Evict(t) \/ Evicted(t) \/ Charge(t) \/ EvictDone(t)
  \/ Flush(t) \/ Flushed(t)

FreeStep(t) ==
  \/ \E p \in Ptrs : Free(t, p)
  \/ Unmap(t) \/ HtRemove(t) \/ Release(t) \/ Uncount(t) \/ RealFree(t)

Next == \E t \in Threads : MallocStep(t) \/ ReclaimStep(t) \/ FreeStep(t)

Spec == Init /\ [][Next]_vars
-----------------------------------------------------------------------------
(* Properties *)

\* The sum of the numbers that f gives to its domain, counted.
Total(f) == Cardinality(UNION {{x} \X (1 .. f[x]) : x \in DOMAIN f})

\* The slots whose entry owns its memory: an entry that is being evicted has given it
\* back already.
Doomed(s) == \E t \in Threads : th[t].pc \in {"evicted", "flushed"} /\ th[t].i = s
Entries == {s \in Slots : Live(s) /\ ~Doomed(s)}

\* Memory in the hands of a call: allocated and not entered yet, or taken out of the
\* table and not given back yet.
InHand(t) == th[t].pc \in {"insert", "full", "release"}

\* What has page u of the pool: segments of free lists, entries, calls.
Owners(u) ==
  Cardinality({s \in UNION {free[c] : c \in Classes} : u \in Units(s)})
  + Cardinality({s \in Entries : table[s].ptr \in Pool
                                    /\ u \in Units(Segment(table[s].ptr, table[s].size))})
  + Cardinality({t \in Threads : InHand(t) /\ th[t].ptr \in Pool
                                    /\ u \in Units(Segment(th[t].ptr, th[t].size))})

\* The pages that the counter of T2 has for the entries, all but those that their calls
\* have not counted yet; and for the calls, reserved or not taken back yet.
Uncounted(s) ==
  \E t \in Threads : th[t].pc \in {"flags", "count"} /\ th[t].ptr = table[s].ptr
T2Entries ==
  [s \in Slots |-> IF table[s].ptr \in Mapped /\ ~Uncounted(s) THEN table[s].size ELSE 0]
T2Calls ==
  [t \in Threads |-> IF \/ th[t].pc \in {"zerocopy", "revert", "uncount", "unmap"}
                        \/ th[t].pc = "release" /\ th[t].ptr \in Mapped
                     THEN th[t].size ELSE 0]

\* The same for the card.
T1Entries == [s \in Slots |-> IF table[s].ptr \in Dev THEN table[s].size ELSE 0]
T1Calls == [t \in Threads |-> IF InHand(t) /\ th[t].ptr \in Dev THEN th[t].size ELSE 0]

\* The call has entered p and not returned it, or is freeing it.
Entered(t, p) == th[t].ptr = p /\ th[t].pc \in {"flags", "count", "remove"}

\* ht_remove finds p: no probe for it ends at an empty slot before.
Found(p) ==
  \E n \in Slots :
    /\ table[(Hash[p] + n) % HtSize].ptr = p
    /\ \A m \in 0 .. n - 1 : table[(Hash[p] + m) % HtSize].ptr # Empty

\* As long as nothing was evicted, every pointer that the program has is in one table,
\* once for each time it got it, where the free that it will make finds it: through any
\* mix of calls, shared probe chains, tombstones used again and a full table.
TableExact ==
  reclaims = 0 =>
    \A p \in Ptrs :
      /\ held[p] > 0 => InBvmm(p) \/ Found(p)
      /\ held[p] + Cardinality({t \in Threads : Entered(t, p)})
           = Cardinality({s \in Slots : table[s].ptr = p}) + (IF InBvmm(p) THEN 1 ELSE 0)

\* No page of the pool is in two free segments, entries or calls, and none is lost if
\* the list of the large ones cannot be full: also while entries of live pointers are
\* evicted and flushed under other calls, their regions are handed out again, and their
\* old owners free them.
RegionsExact ==
  \A u \in Pool :
    /\ Owners(u) <= 1
    /\ PoolUnits <= ClassMax[3] => Owners(u) = 1

\* As long as nothing was evicted, both counters say what the tables hold, with the calls
\* under way; so on a Blackwell card the pages of host RAM that are given out fit the cap,
\* although requests race for the rest of it ("neither blows past the cap").
CountersKept ==
  reclaims = 0 =>
    /\ t2 = Total(T2Entries) + Total(bvmm) + Total(T2Calls)
    /\ t1 = Total(T1Entries) + Total(T1Calls)
    /\ blackwell => Total(bvmm) <= Cap

\* "Non-racy: called immediately after ht_insert in the same thread, before the pointer
\* escapes": the flags of an entry that ht_set_flags has not come to are nobody else's.
FlagsOwn ==
  \A t \in Threads : At(t, "flags") =>
    \A s \in Slots : table[s].ptr = th[t].ptr => ~table[s].kv

\* "Called single-threaded ..., so no concurrent writers exist": when entries are
\* flushed, the program has no pointer to them.
FlushedNotHeld ==
  \A t \in Threads : At(t, "flushed") => held[table[th[t].i].ptr] = 0

\* "prevents over-pinning": the cap holds on the other cards too.
CapKeptByPool == ~blackwell /\ reclaims = 0 => t2 <= Cap

\* The counter that an eviction takes from has what is taken.
T2NeverWraps == \A t \in Threads : At(t, "charge") => th[t].due - 1 <= t2

\* The regions that are madvised at the end of an eviction are still free.
MadviseOwn ==
  \A t \in Threads : At(t, "evict") /\ ~Evicting(t) =>
    \A s \in th[t].batch : Units(s) \subseteq FreeUnits(free)

\* The size classes "eliminate cross-class fragmentation": a pool that is free serves
\* the largest request.
EmptyPoolServes ==
  FreeUnits(free) = Pool => \A sz \in Sizes : sz <= PoolUnits => Serving(free, sz) # {}
=============================================================================
