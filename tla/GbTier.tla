-------------------------------- MODULE GbTier --------------------------------
(***************************************************************************)
(* The tiered buffers of the kernel module greenboost.c.  A buffer lives in *)
(* RAM (tier 2) or, after an eviction, in the T3 backing file; the driver   *)
(* evicts cold buffers (the watchdog, the worker of evict_wq, the EVICT     *)
(* ioctl) and reads one back when an importer maps it.  Every buffer is one *)
(* unit large and allocated once; hugepage buffers, which stay in RAM, are  *)
(* left out.  The reference count, tier_lock and active_mappings are read   *)
(* off the threads that hold them.                                          *)
(*                                                                          *)
(* What a thread does under lru_lock, or between two points that no other   *)
(* thread can tell apart, is one step; what it reads without a lock and     *)
(* uses later is two.  Where the C code reaches undefined behaviour the     *)
(* model records it in `fault` and stops.                                   *)
(***************************************************************************)
EXTENDS Integers, FiniteSets

CONSTANTS
  Bufs,      \* buffers
  Kv,        \* the buffers allocated with GB_ALLOC_KV_CACHE
  Pin,       \* the buffers made by PIN_USER_PTR
  Evictors,  \* threads that evict
  Workers,   \* the one that runs evict_wq, an ordered workqueue
  Sweepers,  \* the one that is the watchdog
  Callers,   \* the ones that may be in the EVICT ioctl
  Importers, \* importers of the DMA-BUFs; each has one mapping at a time
  NoBuf,
  T2Max,     \* virtual_vram_gb
  T3Max,     \* nvme_pool_gb
  FileMax,   \* t3_file_max; 0 is disk-limited
  Wrap,      \* 2^64
  Advices,   \* the madvise advices used
  Failing,   \* bound: the writes to the file that may fail
  Overtaken, \* bound: whether EVICT may account a buffer staged since it looked
  NoOne      \* a region of the file without data

\* HOT and COLD move the node; the advice on sessions only orders the victims.
Advice == {"move", "prefer", "freeze"}

ASSUME TierAssumption ==
  /\ IsFiniteSet(Bufs) /\ Kv \subseteq Bufs /\ Pin \subseteq Bufs
  /\ NoBuf \notin Bufs /\ NoOne \notin Bufs
  /\ IsFiniteSet(Evictors)
  /\ Workers \subseteq Evictors /\ Sweepers \subseteq Evictors /\ Callers \subseteq Evictors
  /\ T2Max \in Nat /\ T3Max \in Nat /\ FileMax \in Nat /\ Wrap \in Nat \ {0}
  /\ Advices \subseteq Advice
  /\ Failing \in {"none", "last", "any"} /\ Overtaken \in BOOLEAN

VARIABLES
  buf,     \* struct gb_buf: see Buffer
  work,    \* the buffers of the queued gb_evict_work items
  ev,      \* evictor -> where it stands, its buffer and its file offset
  im,      \* importer -> where it stands and its buffer
  pool,    \* pool_allocated
  nvme,    \* nvme_allocated
  kvt2,    \* kv_t2_bytes
  next,    \* t3_next_offset
  file,    \* region of the backing file -> the buffer whose pages it holds
  fault    \* what went wrong, or "none"

vars == <<buf, work, ev, im, pool, nvme, kvt2, next, file, fault>>

\* `life`: "t2" and "t3" are allocations whose tier is decided, "raw" is on the LRU
\* without a dmabuf yet.  `frozen` stands for t1_priority too, `fd` says that user
\* space holds the buffer open.
Buffer == [life : {"none", "t2", "t3", "raw", "live", "gone"}, tier : {2, 3},
           ondisk : BOOLEAN, pages : BOOLEAN, lru : BOOLEAN, frozen : BOOLEAN,
           fd : BOOLEAN, off : Nat]

Unborn == [life |-> "none", tier |-> 2, ondisk |-> FALSE, pages |-> FALSE,
           lru |-> FALSE, frozen |-> FALSE, fd |-> FALSE, off |-> 0]

EvictorIdle == [pc |-> "idle", b |-> NoBuf, off |-> 0]
ImporterIdle == [pc |-> "idle", b |-> NoBuf]

EvictorState == {EvictorIdle} \cup
  [pc : {"chosen", "staged", "write", "check", "free", "undo"}, b : Bufs, off : Nat]
ImporterState == {ImporterIdle} \cup
  [pc : {"lock", "read", "publish", "add", "built", "dma"}, b : Bufs]

Faults == {"none",
           "list",      \* a node was added to a list that it was on already
           "null",      \* the pages of a buffer without pages were used
           "unpinned"}  \* get_dma_buf on no dmabuf, or on one with no reference left

\* The references to b's dmabuf are the descriptor's and the working threads'.
Referenced(b) ==
  \/ buf[b].fd
  \/ b \in work
  \/ \E e \in Evictors : ev[e].b = b
  \/ \E m \in Importers : im[m].b = b

\* get_dma_buf(b) takes a reference that keeps b.
Pinnable(b) == buf[b].life = "live" /\ Referenced(b)

\* The buffers when b's record has become r.
Put(b, r) == [buf EXCEPT ![b] = r]

Fail(f) ==
  /\ fault' = f
  /\ UNCHANGED <<buf, work, ev, im, pool, nvme, kvt2, next, file>>

\* tier_lock of b is held by an importer that is reading it back.
Locked(b) == \E m \in Importers : im[m].b = b /\ im[m].pc \in {"read", "publish", "add"}

\* active_mappings of b.
Mappings(b) == Cardinality({m \in Importers : im[m].b = b /\ im[m].pc = "dma"})

KvSize(b) == IF b \in Kv THEN 1 ELSE 0

\* The counter is clamped at zero where a KV buffer leaves tier 2.
KvLess(b) == IF KvSize(b) < kvt2 THEN kvt2 - KvSize(b) ELSE 0

-----------------------------------------------------------------------------
(* Staging: a candidate leaves the LRU and its size moves from T2 to T3.  The
   place in the list, the heat, the session priority and the priority hint order
   the candidates and exempt none: a victim is any eligible buffer. *)

Eligible(c) ==
  /\ buf[c].lru /\ buf[c].tier = 2
  /\ c \notin Kv /\ ~buf[c].frozen

\* Faulty: the tier is left for the end of the eviction.
StagedUntiered(c) == Put(c, [buf[c] EXCEPT !.lru = FALSE])

Staged(c) == Put(c, [buf[c] EXCEPT !.tier = 3, !.lru = FALSE])

-----------------------------------------------------------------------------
(* Allocation.  An allocation of the model is its own thread. *)

\* T2 has room by the counter read at the start.
Admit(b) ==
  /\ buf[b].life = "none" /\ b \notin Pin
  /\ pool + 1 <= T2Max
  /\ buf' = Put(b, [buf[b] EXCEPT !.life = "t2"])
  /\ UNCHANGED <<work, ev, im, pool, nvme, kvt2, next, file, fault>>

SpillAllowed == T3Max > 0 /\ nvme + 1 <= T3Max

\* T2 is full and a victim c is handed to the worker: the counters move at once.
AdmitEvicting(b, c) ==
  /\ buf[b].life = "none" /\ b \notin Kv \cup Pin
  /\ pool + 1 > T2Max
  /\ Eligible(c)
  /\ IF Pinnable(c)
     THEN /\ buf' = [Staged(c) EXCEPT ![b].life =
                       IF pool <= T2Max THEN "t2" ELSE IF SpillAllowed THEN "t3" ELSE "none"]
          /\ work' = work \cup {c}
          /\ pool' = pool - 1 /\ nvme' = nvme + 1
          /\ UNCHANGED <<ev, im, kvt2, next, file, fault>>
     ELSE Fail("unpinned")

\* Nothing to evict, or no memory for the work item: the T3 safety net.
Spill(b) ==
  /\ buf[b].life = "none" /\ b \notin Kv \cup Pin
  /\ pool + 1 > T2Max
  /\ SpillAllowed
  /\ buf' = Put(b, [buf[b] EXCEPT !.life = "t3"])
  /\ UNCHANGED <<work, ev, im, pool, nvme, kvt2, next, file, fault>>

\* gb_pin_user_buf computes t2_max - t2_used in unsigned arithmetic.
PinUser(b) ==
  /\ buf[b].life = "none" /\ b \in Pin
  /\ 1 <= T2Max /\ (T2Max - pool) % Wrap >= 1
  /\ buf' = Put(b, [buf[b] EXCEPT !.life = "t2"])
  /\ UNCHANGED <<work, ev, im, pool, nvme, kvt2, next, file, fault>>

\* Faulty: KV buffers are not frozen.
AddBufferUnfrozen(b) ==
  /\ buf[b].life = "t2"
  /\ buf' = Put(b, [buf[b] EXCEPT !.life = "raw", !.pages = TRUE, !.lru = TRUE])
  /\ pool' = pool + 1
  /\ kvt2' = kvt2 + KvSize(b)
  /\ UNCHANGED <<work, ev, im, nvme, next, file, fault>>

\* The pages are there; the buffer is counted and put on the LRU.  A KV buffer is
\* frozen in T2 unless it is pinned user memory.
AddBuffer(b) ==
  /\ buf[b].life \in {"t2", "t3"}
  /\ LET t3 == buf[b].life = "t3"
     IN  /\ buf' = Put(b, [buf[b] EXCEPT !.life = "raw", !.tier = IF t3 THEN 3 ELSE 2,
                                        !.pages = TRUE, !.lru = TRUE,
                                        !.frozen = ~t3 /\ b \in Kv \ Pin])
         /\ pool' = IF t3 THEN pool ELSE pool + 1
         /\ nvme' = IF t3 THEN nvme + 1 ELSE nvme
         /\ kvt2' = IF t3 THEN kvt2 ELSE kvt2 + KvSize(b)
  /\ UNCHANGED <<work, ev, im, next, file, fault>>

\* dma_buf_export, the IDR and the descriptor.
Export(b) ==
  /\ buf[b].life = "raw"
  /\ buf' = Put(b, [buf[b] EXCEPT !.life = "live", !.fd = TRUE])
  /\ UNCHANGED <<work, ev, im, pool, nvme, kvt2, next, file, fault>>

\* Faulty: the counter of the tier the buffer was born in.
UncountPool(b) == pool' = pool - 1 /\ kvt2' = KvLess(b) /\ UNCHANGED nvme

\* What the error path of the export and gb_release have in common.
Uncount(b) ==
  IF buf[b].tier = 3
  THEN nvme' = nvme - 1 /\ UNCHANGED <<pool, kvt2>>
  ELSE pool' = pool - 1 /\ kvt2' = KvLess(b) /\ UNCHANGED nvme

Freed(b) == Put(b, [Unborn EXCEPT !.life = "gone"])

ExportFails(b) ==
  /\ buf[b].life = "raw"
  /\ Uncount(b)
  /\ buf' = Freed(b)
  /\ UNCHANGED <<work, ev, im, next, file, fault>>

Close(b) ==
  /\ buf[b].life = "live" /\ buf[b].fd
  /\ buf' = Put(b, [buf[b] EXCEPT !.fd = FALSE])
  /\ UNCHANGED <<work, ev, im, pool, nvme, kvt2, next, file, fault>>

\* gb_release runs some time after the last reference went: until then b is still
\* on the LRU and in the IDR.
Release(b) ==
  /\ buf[b].life = "live" /\ ~Referenced(b)
  /\ Uncount(b)
  /\ file' = IF buf[b].ondisk THEN [file EXCEPT ![buf[b].off] = NoOne] ELSE file
  /\ buf' = Freed(b)
  /\ UNCHANGED <<work, ev, im, next, fault>>

-----------------------------------------------------------------------------
(* Eviction *)

At(e, pc) == ev[e].pc = pc
EvGoto(e, pc) == ev' = [ev EXCEPT ![e].pc = pc]

\* GB_IOCTL_EVICT finds b through the IDR and sees that it may be evicted.
EvictChoose(e, b) ==
  /\ At(e, "idle") /\ e \in Callers /\ buf[b].life = "live"
  /\ IF Referenced(b)
     THEN /\ ~buf[b].frozen /\ buf[b].tier = 2
          /\ ev' = [ev EXCEPT ![e] = [pc |-> "chosen", b |-> b, off |-> 0]]
          /\ UNCHANGED <<buf, work, im, pool, nvme, kvt2, next, file, fault>>
     ELSE Fail("unpinned")

\* ... and accounts it without looking again.
EvictAccount(e) ==
  /\ At(e, "chosen")
  /\ Overtaken \/ buf[ev[e].b].tier = 2
  /\ buf' = Staged(ev[e].b)
  /\ pool' = pool - 1 /\ nvme' = nvme + 1 /\ kvt2' = KvLess(ev[e].b)
  /\ EvGoto(e, "staged")
  /\ UNCHANGED <<work, im, next, file, fault>>

\* gb_auto_evict_cold, under memory pressure, which is not state of the driver.
Sweep(e, c) ==
  /\ At(e, "idle") /\ e \in Sweepers /\ Eligible(c)
  /\ IF Pinnable(c)
     THEN /\ buf' = Staged(c)
          /\ pool' = pool - 1 /\ nvme' = nvme + 1
          /\ ev' = [ev EXCEPT ![e] = [pc |-> "staged", b |-> c, off |-> 0]]
          /\ UNCHANGED <<work, im, kvt2, next, file, fault>>
     ELSE Fail("unpinned")

\* gb_evict_work_fn rolls back at once when the module is shutting down.
WorkStart(e, c) ==
  /\ At(e, "idle") /\ e \in Workers /\ c \in work
  /\ work' = work \ {c}
  /\ \E pc \in {"staged", "undo"} :
       ev' = [ev EXCEPT ![e] = [pc |-> pc, b |-> c, off |-> 0]]
  /\ UNCHANGED <<buf, im, pool, nvme, kvt2, next, file, fault>>

\* Faulty: the region is not reserved.
ReserveKeep(e) ==
  /\ At(e, "staged")
  /\ FileMax = 0 \/ next + 1 <= FileMax
  /\ ev' = [ev EXCEPT ![e].pc = "write", ![e].off = next]
  /\ UNCHANGED <<buf, work, im, pool, nvme, kvt2, next, file, fault>>

\* gb_t3_evict_buf takes the next region of the file, under t3_file_lock.
Reserve(e) ==
  /\ At(e, "staged")
  /\ FileMax = 0 \/ next + 1 <= FileMax
  /\ next' = next + 1
  /\ ev' = [ev EXCEPT ![e].pc = "write", ![e].off = next]
  /\ UNCHANGED <<buf, work, im, pool, nvme, kvt2, file, fault>>

FileFull(e) ==
  /\ At(e, "staged")
  /\ FileMax > 0 /\ next + 1 > FileMax
  /\ EvGoto(e, "undo")
  /\ UNCHANGED <<buf, work, im, pool, nvme, kvt2, next, file, fault>>

WriteFile(e) ==
  /\ At(e, "write")
  /\ LET b == ev[e].b
     IN  IF buf[b].pages
         THEN /\ file' = [o \in DOMAIN file \cup {ev[e].off} |->
                            IF o = ev[e].off THEN b ELSE file[o]]
              /\ EvGoto(e, "check")
              /\ UNCHANGED <<buf, work, im, pool, nvme, kvt2, next, fault>>
         ELSE Fail("null")

\* A write fails: what was written is punched out and the pointer goes back by the
\* size, even when another eviction has reserved the next region meanwhile.
WriteFails(e) ==
  /\ At(e, "write") /\ buf[ev[e].b].pages
  /\ Failing = "any" \/ (Failing = "last" /\ next = ev[e].off + 1)
  /\ next' = next - 1
  /\ EvGoto(e, "undo")
  /\ UNCHANGED <<buf, work, im, pool, nvme, kvt2, file, fault>>

\* Refused with -EBUSY when b is mapped or has an unsignalled fence, which an
\* importer may have set at any time.  The region stays taken.
CheckBusy(e) ==
  /\ At(e, "check")
  /\ EvGoto(e, "undo")
  /\ UNCHANGED <<buf, work, im, pool, nvme, kvt2, next, file, fault>>

CheckFree(e) ==
  /\ At(e, "check") /\ Mappings(ev[e].b) = 0
  /\ EvGoto(e, "free")
  /\ UNCHANGED <<buf, work, im, pool, nvme, kvt2, next, file, fault>>

\* Under tier_lock; then dma_buf_put.
FreePages(e) ==
  /\ At(e, "free") /\ ~Locked(ev[e].b)
  /\ LET b == ev[e].b
     IN  IF buf[b].pages
         THEN /\ buf' = Put(b, [buf[b] EXCEPT !.pages = FALSE, !.ondisk = TRUE,
                                              !.off = ev[e].off])
              /\ ev' = [ev EXCEPT ![e] = EvictorIdle]
              /\ UNCHANGED <<work, im, pool, nvme, kvt2, next, file, fault>>
         ELSE Fail("null")

\* The roll back that follows every failure, and dma_buf_put.
Undo(e) ==
  /\ At(e, "undo")
  /\ LET b == ev[e].b
     IN  IF buf[b].lru
         THEN Fail("list")
         ELSE /\ buf' = Put(b, [buf[b] EXCEPT !.tier = 2, !.lru = TRUE])
              /\ pool' = pool + 1 /\ nvme' = nvme - 1 /\ kvt2' = kvt2 + KvSize(b)
              /\ ev' = [ev EXCEPT ![e] = EvictorIdle]
              /\ UNCHANGED <<work, im, next, file, fault>>

-----------------------------------------------------------------------------
(* Mapping: gb_map_dma_buf, gb_t3_promote_buf, gb_unmap_dma_buf *)

ImGoto(m, pc) == im' = [im EXCEPT ![m].pc = pc]
Quiet == UNCHANGED <<work, ev, pool, nvme, kvt2, next, file, fault>>

Attach(m, b) ==
  /\ im[m].pc = "idle" /\ buf[b].life = "live" /\ buf[b].fd
  /\ im' = [im EXCEPT ![m] = [pc |-> "lock", b |-> b]]
  /\ UNCHANGED buf /\ Quiet

\* Under tier_lock: a buffer in RAM gets its sg_table at once.
MapLock(m) ==
  /\ im[m].pc = "lock" /\ ~Locked(im[m].b)
  /\ LET b == im[m].b
     IN  IF buf[b].ondisk \/ buf[b].pages
         THEN /\ ImGoto(m, IF buf[b].ondisk THEN "read" ELSE "built")
              /\ UNCHANGED buf /\ Quiet
         ELSE Fail("null")

\* No memory, or the file cannot be read; or the sg_table or the DMA addresses
\* cannot be had.
MapFails(m) ==
  /\ im[m].pc \in {"read", "built"}
  /\ im' = [im EXCEPT ![m] = ImporterIdle]
  /\ UNCHANGED buf /\ Quiet

\* Fresh pages are filled from the file and the hole is punched.
PromoteRead(m) ==
  /\ im[m].pc = "read"
  /\ LET b == im[m].b
     IN  /\ buf' = Put(b, [buf[b] EXCEPT !.pages = TRUE])
         /\ file' = [file EXCEPT ![buf[b].off] = NoOne]
  /\ ImGoto(m, "publish")
  /\ UNCHANGED <<work, ev, pool, nvme, kvt2, next, fault>>

PromotePublish(m) ==
  /\ im[m].pc = "publish"
  /\ LET b == im[m].b
     IN  /\ pool' = pool + 1 /\ nvme' = nvme - 1 /\ kvt2' = kvt2 + KvSize(b)
         /\ buf' = Put(b, [buf[b] EXCEPT !.tier = 2, !.ondisk = FALSE])
  /\ ImGoto(m, "add")
  /\ UNCHANGED <<work, ev, next, file, fault>>

\* The LRU's turn, and the end of tier_lock.
PromoteAdd(m) ==
  /\ im[m].pc = "add"
  /\ LET b == im[m].b
     IN  IF buf[b].lru
         THEN Fail("list")
         ELSE /\ buf' = Put(b, [buf[b] EXCEPT !.lru = TRUE])
              /\ ImGoto(m, "built")
              /\ Quiet

\* Only now is the mapping counted.
Mapped(m) ==
  /\ im[m].pc = "built"
  /\ ImGoto(m, "dma")
  /\ UNCHANGED buf /\ Quiet

Unmap(m) ==
  /\ im[m].pc = "dma"
  /\ im' = [im EXCEPT ![m] = ImporterIdle]
  /\ UNCHANGED buf /\ Quiet

-----------------------------------------------------------------------------
(* GB_IOCTL_MADVISE; the ioctls on a session and the gaming mode move buffers of
   tier 2 the same way. *)

Advised(b, a) ==
  Put(b, [buf[b] EXCEPT !.lru = @ \/ a \in {"move", "prefer"},
                        !.frozen = @ \/ a \in {"freeze", "prefer"}])

Madvise(b, a) ==
  /\ buf[b].life = "live"
  /\ IF Referenced(b)
     THEN /\ buf' = Advised(b, a)
          /\ UNCHANGED im /\ Quiet
     ELSE Fail("unpinned")

-----------------------------------------------------------------------------
Init ==
  /\ buf = [b \in Bufs |-> Unborn]
  /\ work = {}
  /\ ev = [e \in Evictors |-> EvictorIdle]
  /\ im = [m \in Importers |-> ImporterIdle]
  /\ pool = 0 /\ nvme = 0 /\ kvt2 = 0 /\ next = 0
  /\ file = [o \in {} |-> NoOne]
  /\ fault = "none"

Allocate(b) ==
  \/ Admit(b) \/ (\E c \in Bufs : AdmitEvicting(b, c)) \/ Spill(b) \/ PinUser(b)
  \/ AddBuffer(b) \/ Export(b) \/ ExportFails(b) \/ Close(b) \/ Release(b)

Evict(e) ==
  \/ \E b \in Bufs : EvictChoose(e, b) \/ Sweep(e, b) \/ WorkStart(e, b)
  \/ EvictAccount(e) \/ Reserve(e) \/ FileFull(e) \/ WriteFile(e) \/ WriteFails(e)
  \/ CheckBusy(e) \/ CheckFree(e) \/ FreePages(e) \/ Undo(e)

Import(m) ==
  \/ \E b \in Bufs : Attach(m, b)
  \/ MapLock(m) \/ MapFails(m) \/ PromoteRead(m) \/ PromotePublish(m) \/ PromoteAdd(m)
  \/ Mapped(m) \/ Unmap(m)

Next ==
  /\ fault = "none"
  /\ \/ \E b \in Bufs : Allocate(b) \/ \E a \in Advices : Madvise(b, a)
     \/ \E e \in Evictors : Evict(e)
     \/ \E m \in Importers : Import(m)

Spec == Init /\ [][Next]_vars

-----------------------------------------------------------------------------
(* Properties *)

TypeOK ==
  /\ buf \in [Bufs -> Buffer]
  /\ work \subseteq Bufs
  /\ ev \in [Evictors -> EvictorState]
  /\ im \in [Importers -> ImporterState]
  /\ pool \in Int /\ nvme \in Int /\ kvt2 \in Nat /\ next \in Nat
  /\ DOMAIN file \subseteq Nat /\ file \in [DOMAIN file -> Bufs \cup {NoOne}]
  /\ fault \in Faults

Counted(tier) == {b \in Bufs : buf[b].life \in {"raw", "live"} /\ buf[b].tier = tier}

\* "bytes currently pinned (T2)", "bytes currently evicted to T3": whatever staging,
\* roll backs, promotions, failed exports and releases overlap, the two pool counters
\* and the KV counter are those of the buffers' tiers.  An EVICT that was overtaken
\* breaks it: see the findings.
AccountsMatch ==
  /\ pool = Cardinality(Counted(2))
  /\ nvme = Cardinality(Counted(3))
  /\ kvt2 = Cardinality(Counted(2) \cap Kv)

\* A buffer on disk can be read back: its region still holds its own pages, not
\* those of a buffer evicted later nor a hole that another release punched.  So it is
\* as long as the writes that fail are the last to have reserved (Failing).
OnDiskReadable ==
  \A b \in Bufs :
    buf[b].ondisk /\ ~buf[b].pages =>
      buf[b].off \in DOMAIN file /\ file[buf[b].off] = b

\* No buffer of tier 2 is lost to the evictors: it is on the LRU, or an importer is
\* about to put it there, whatever failures and roll backs it went through.
EvictableListed ==
  \A b \in Bufs :
    buf[b].life \in {"raw", "live"} /\ buf[b].tier = 2 =>
      buf[b].lru \/ \E m \in Importers : im[m].b = b /\ im[m].pc = "add"

\* Both: every buffer is counted in its tier, and where the evictors find it.
TiersExact == AccountsMatch /\ EvictableListed

\* An eviction and a promotion of one buffer never meet with its pages gone, and no
\* two evictions do: no thread uses the pages of a buffer that has none.
PagesThere == fault # "null"

\* Both: the pages of a buffer are where its tier says, in RAM or in the file, for everybody who uses them.
ContentsKept == PagesThere /\ OnDiskReadable

\* "KV cache must never reach T3": allocation, sweeps, EVICT and advice leave a KV
\* buffer in tier 2, unless it is pinned user memory, which is not frozen.
KvStaysInT2 ==
  \A b \in Kv \ Pin : buf[b].tier = 2 /\ ~buf[b].ondisk

\* "freeing them under hardware would corrupt the in-flight transfer": the pages of
\* an sg_table are not freed while the importer has it.  It does not hold: see the
\* findings.
TablesValid ==
  \A m \in Importers : im[m].pc \in {"built", "dma"} => buf[im[m].b].pages

\* t3_next_offset is a "bump allocator: next byte offset": no eviction writes to the
\* region of a buffer that is on disk.  It does not hold: see the findings.
RegionsDisjoint ==
  \A b \in Bufs, e \in Evictors :
    buf[b].ondisk /\ ev[e].b # b /\ ev[e].pc \in {"write", "check", "free"} =>
      ev[e].off # buf[b].off

\* "double LRU list_add_tail (which poisons the list)": no node is added twice.  It
\* does not hold: see the findings.
ListIntact == fault # "list"

\* "each accepted candidate is pinned with get_dma_buf": a reference is taken only
\* from a dmabuf that has one.  It does not hold: see the findings.
CandidatesPinned == fault # "unpinned"
=============================================================================
