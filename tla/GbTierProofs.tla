---------------------------- MODULE GbTierProofs ----------------------------
(***************************************************************************)
(* What is proved about the tiers, for any number of buffers, evictors and  *)
(* importers and any sizes of the pools and the file.  First the shapes of  *)
(* the variables and what each action does to each field of the buffer, the *)
(* evictor or the importer it moves; then one lemma for each part of the    *)
(* inductive invariant, with a step for each action that says what it cites *)
(* of the former; the theorems are at the end.                              *)
(***************************************************************************)
EXTENDS GbTier, FiniteSetTheorems, TLAPS

\* The threads that have taken a region of the file and not yet written it.
Writers == {e \in Evictors : ev[e].pc = "write"}

\* Every one of them has moved t3_next_offset, so that a failing one can move it back.
RegionsTaken == Cardinality(Writers) <= next

-----------------------------------------------------------------------------
(* The shapes of the variables. *)

\* A change of one buffer's record.
LEMMA PutOne ==
  ASSUME buf \in [Bufs -> Buffer], NEW b \in Bufs, NEW r \in Buffer
  PROVE  /\ Put(b, r) \in [Bufs -> Buffer]
         /\ Put(b, r)[b] = r
         /\ \A c \in Bufs \ {b} : Put(b, r)[c] = buf[c]
BY DEF Put

\* The changes of a record that the actions make.
LEMMA Records ==
  ASSUME NEW r \in Buffer
  PROVE  /\ \A l \in {"none", "t2", "t3"} : [r EXCEPT !.life = l] \in Buffer
         /\ \A t \in {2, 3}, f \in BOOLEAN :
              [r EXCEPT !.life = "raw", !.tier = t, !.pages = TRUE, !.lru = TRUE,
                       !.frozen = f]
                \in Buffer
         /\ [r EXCEPT !.life = "live", !.fd = TRUE] \in Buffer
         /\ [r EXCEPT !.fd = FALSE] \in Buffer
         /\ [r EXCEPT !.tier = 3, !.lru = FALSE] \in Buffer
         /\ \A i \in Nat : [r EXCEPT !.pages = FALSE, !.ondisk = TRUE, !.off = i] \in Buffer
         /\ [r EXCEPT !.tier = 2, !.lru = TRUE] \in Buffer
         /\ [r EXCEPT !.pages = TRUE] \in Buffer
         /\ [r EXCEPT !.tier = 2, !.ondisk = FALSE] \in Buffer
         /\ [r EXCEPT !.lru = TRUE] \in Buffer
         /\ \A x, y \in BOOLEAN : [r EXCEPT !.lru = @ \/ x, !.frozen = @ \/ y] \in Buffer
         /\ [Unborn EXCEPT !.life = "gone"] \in Buffer
BY DEF Buffer, Unborn

\* The moves of a thread that evicts.
LEMMA EvictorMoves ==
  ASSUME NEW x \in EvictorState
  PROVE  /\ x.pc # "idle" => x.b \in Bufs /\ x.off \in Nat
         /\ EvictorIdle \in EvictorState
         /\ \A l \in {"chosen", "staged", "undo"}, b \in Bufs :
              [pc |-> l, b |-> b, off |-> 0] \in EvictorState
         /\ x.pc # "idle" =>
              /\ \A l \in {"staged", "check", "free",
                       "undo"} : [x EXCEPT !.pc = l] \in EvictorState
              /\ \A i \in Nat : [x EXCEPT !.pc = "write", !.off = i] \in EvictorState
<1> DEFINE Busy == [pc : {"chosen", "staged", "write", "check", "free", "undo"},
                    b : Bufs, off : Nat]
<1>1. EvictorState = {EvictorIdle} \cup Busy /\ EvictorIdle.pc = "idle"
  BY DEF EvictorState, EvictorIdle
<1>2. \A l \in {"chosen", "staged", "undo"}, b \in Bufs : [pc |-> l, b |-> b,
         off |-> 0] \in Busy
  OBVIOUS
<1>3. ASSUME x.pc # "idle"
      PROVE  /\ x.b \in Bufs /\ x.off \in Nat
             /\ \A l \in {"staged", "check", "free", "undo"} : [x EXCEPT !.pc = l] \in Busy
             /\ \A i \in Nat : [x EXCEPT !.pc = "write", !.off = i] \in Busy
  <2>1. x \in Busy
    BY <1>1, <1>3
  <2> QED BY <2>1
<1> HIDE DEF Busy
<1> QED BY <1>1, <1>2, <1>3

\* The moves of an importer.
LEMMA ImporterMoves ==
  ASSUME NEW x \in ImporterState
  PROVE  /\ x.pc # "idle" => x.b \in Bufs
         /\ ImporterIdle \in ImporterState
         /\ \A b \in Bufs : [pc |-> "lock", b |-> b] \in ImporterState
         /\ x.pc # "idle" =>
              \A l \in {"read", "publish", "add", "built", "dma"} :
                [x EXCEPT !.pc = l] \in ImporterState
BY DEF ImporterState, ImporterIdle

\* The counters stay numbers.
LEMMA Counters ==
  ASSUME TypeOK, NEW b \in Bufs
  PROVE  /\ KvLess(b) \in Nat /\ kvt2 + KvSize(b) \in Nat
         /\ Uncount(b) => pool' \in Int /\ nvme' \in Int /\ kvt2' \in Nat
BY DEF TypeOK, KvLess, KvSize, Uncount

\* A hole punched in the file.
LEMMA FileUpdate ==
  ASSUME TypeOK, NEW i
  PROVE  /\ DOMAIN [file EXCEPT ![i] = NoOne] = DOMAIN file
         /\ [file EXCEPT ![i] = NoOne] \in [DOMAIN file -> Bufs \cup {NoOne}]
BY DEF TypeOK

\* Every action keeps the shapes, the bump pointer's sign included.
LEMMA TypeInvariance == TypeOK /\ RegionsTaken /\ [Next]_vars => TypeOK'
<1> SUFFICES ASSUME TypeOK, RegionsTaken, [Next]_vars PROVE TypeOK'
  OBVIOUS
<1> USE TierAssumption DEF TypeOK
<1>1. ASSUME NEW b \in Bufs, Allocate(b) PROVE TypeOK'
  <2>1. CASE Admit(b) BY <2>1, PutOne, Records DEF Admit
  <2>2. ASSUME NEW c \in Bufs, AdmitEvicting(b, c) PROVE TypeOK'
    <3>1. CASE Pinnable(c)
      <4> DEFINE l == IF pool <= T2Max THEN "t2" ELSE IF SpillAllowed THEN "t3" ELSE "none"
      <4>1. Staged(c) \in [Bufs -> Buffer] /\ Staged(c)[b] = buf[b]
        <5>1. [buf[c] EXCEPT !.tier = 3, !.lru = FALSE] \in Buffer /\ b # c
          BY <2>2, <3>1, Records DEF AdmitEvicting, Pinnable
        <5> QED BY <5>1, PutOne DEF Staged
      <4>2. [buf[b] EXCEPT !.life = l] \in Buffer
        BY DEF Buffer
      <4>3. buf' \in [Bufs -> Buffer]
        BY <2>2, <3>1, <4>1, <4>2 DEF AdmitEvicting
      <4> QED BY <2>2, <3>1, <4>3 DEF AdmitEvicting
    <3>2. CASE ~Pinnable(c)
      BY <2>2, <3>2 DEF AdmitEvicting, Fail, Faults
    <3> QED BY <3>1, <3>2
  <2>3. CASE Spill(b) BY <2>3, PutOne, Records DEF Spill
  <2>4. CASE PinUser(b) BY <2>4, PutOne, Records DEF PinUser
  <2>5. CASE AddBuffer(b)
    <3>1. buf' \in [Bufs -> Buffer]
      BY <2>5, PutOne, Records DEF AddBuffer
    <3> QED BY <2>5, <3>1, Counters DEF AddBuffer
  <2>6. CASE Export(b) BY <2>6, PutOne, Records DEF Export
  <2>7. CASE ExportFails(b)
    <3>1. buf' \in [Bufs -> Buffer]
      BY <2>7, PutOne, Records DEF ExportFails, Freed
    <3> QED BY <2>7, <3>1, Counters DEF ExportFails
  <2>8. CASE Close(b) BY <2>8, PutOne, Records DEF Close
  <2>9. CASE Release(b)
    <3>1. buf' \in [Bufs -> Buffer]
      BY <2>9, PutOne, Records DEF Release, Freed
    <3>2. DOMAIN file' \subseteq Nat /\ file' \in [DOMAIN file' -> Bufs \cup {NoOne}]
      BY <2>9, FileUpdate DEF Release
    <3> QED BY <2>9, <3>1, <3>2, Counters DEF Release
  <2> QED BY <1>1, <2>1, <2>2, <2>3, <2>4, <2>5, <2>6, <2>7, <2>8, <2>9 DEF Allocate
<1>2. ASSUME NEW b \in Bufs, NEW a \in Advices, Madvise(b, a) PROVE TypeOK'
  <2>1. CASE Referenced(b)
    <3>1. buf' \in [Bufs -> Buffer]
      <4> DEFINE x == a \in {"move", "prefer"}
                 y == a \in {"freeze", "prefer"}
      <4>1. x \in BOOLEAN /\ y \in BOOLEAN
        OBVIOUS
      <4>2. [buf[b] EXCEPT !.lru = @ \/ x, !.frozen = @ \/ y] \in Buffer
        BY <4>1, Records
      <4> QED BY <1>2, <2>1, <4>2, PutOne DEF Madvise, Advised
    <3> QED BY <1>2, <2>1, <3>1 DEF Madvise, Quiet
  <2>2. CASE ~Referenced(b)
    BY <1>2, <2>2 DEF Madvise, Fail, Faults
  <2> QED BY <2>1, <2>2
<1>3. ASSUME NEW e \in Evictors, Evict(e) PROVE TypeOK'
  <2> USE DEF At, EvGoto
  <2>1. ASSUME NEW b \in Bufs, EvictChoose(e, b) PROVE TypeOK'
    BY <2>1, EvictorMoves DEF EvictChoose, Fail, Faults
  <2>2. CASE EvictAccount(e)
    <3>1. ev[e].b \in Bufs
      BY <2>2, EvictorMoves DEF EvictAccount
    <3>2. buf' \in [Bufs -> Buffer]
      BY <2>2, <3>1, PutOne, Records DEF EvictAccount, Staged
    <3>3. ev' \in [Evictors -> EvictorState]
      BY <2>2, EvictorMoves DEF EvictAccount
    <3> QED BY <2>2, <3>1, <3>2, <3>3, Counters DEF EvictAccount
  <2>3. ASSUME NEW b \in Bufs, Sweep(e, b) PROVE TypeOK'
    <3>1. CASE Pinnable(b)
      <4>1. buf' \in [Bufs -> Buffer]
        <5>1. buf' = Put(b, [buf[b] EXCEPT !.tier = 3, !.lru = FALSE])
          BY <2>3, <3>1 DEF Sweep, Staged
        <5> QED BY <5>1, PutOne, Records
      <4>2. ev' \in [Evictors -> EvictorState]
        BY <2>3, <3>1, EvictorMoves DEF Sweep
      <4> QED BY <2>3, <3>1, <4>1, <4>2 DEF Sweep
    <3>2. CASE ~Pinnable(b)
      BY <2>3, <3>2 DEF Sweep, Fail, Faults
    <3> QED BY <3>1, <3>2
  <2>4. ASSUME NEW b \in Bufs, WorkStart(e, b) PROVE TypeOK'
    <3>1. ev' \in [Evictors -> EvictorState]
      <4>1. PICK pc \in {"staged", "undo"} :
               ev' = [ev EXCEPT ![e] = [pc |-> pc, b |-> b, off |-> 0]]
        BY <2>4 DEF WorkStart
      <4> QED BY <4>1, EvictorMoves
    <3> QED BY <2>4, <3>1 DEF WorkStart
  <2>5. CASE Reserve(e)
    <3>1. ev' \in [Evictors -> EvictorState]
      BY <2>5, EvictorMoves DEF Reserve
    <3> QED BY <2>5, <3>1 DEF Reserve
  <2>6. CASE FileFull(e) BY <2>6, EvictorMoves DEF FileFull
  <2>7. CASE WriteFile(e)
    <3>1. ev[e].b \in Bufs /\ ev[e].off \in Nat
      BY <2>7, EvictorMoves DEF WriteFile
    <3>2. DOMAIN file' \subseteq Nat /\ file' \in [DOMAIN file' -> Bufs \cup {NoOne}]
      BY <2>7, <3>1 DEF WriteFile, Fail
    <3>3. ev' \in [Evictors -> EvictorState]
      <4>1. ev' = ev \/ ev' = [ev EXCEPT ![e].pc = "check"]
        BY <2>7 DEF WriteFile, Fail
      <4>2. [ev[e] EXCEPT !.pc = "check"] \in EvictorState
        BY <2>7, EvictorMoves DEF WriteFile
      <4> QED BY <4>1, <4>2
    <3> QED BY <2>7, <3>2, <3>3 DEF WriteFile, Fail, Faults
  <2>8. CASE WriteFails(e)
    <3>1. next >= 1
      <4>1. IsFiniteSet(Writers)
        BY FS_Subset DEF Writers
      <4>2. Writers # {}
        BY <2>8 DEF WriteFails, Writers
      <4> QED BY <4>1, <4>2, FS_EmptySet, FS_CardinalityType DEF RegionsTaken
    <3>2. ev' \in [Evictors -> EvictorState]
      BY <2>8, EvictorMoves DEF WriteFails
    <3> QED BY <2>8, <3>1, <3>2 DEF WriteFails
  <2>9. CASE CheckBusy(e) BY <2>9, EvictorMoves DEF CheckBusy
  <2>10. CASE CheckFree(e) BY <2>10, EvictorMoves DEF CheckFree
  <2>11. CASE FreePages(e)
    <3>1. ev[e].b \in Bufs /\ ev[e].off \in Nat
      BY <2>11, EvictorMoves DEF FreePages
    <3>2. buf' \in [Bufs -> Buffer]
      <4> DEFINE b == ev[e].b
      <4>1. \/ buf' = buf
            \/ buf' = Put(b, [buf[b] EXCEPT !.pages = FALSE, !.ondisk = TRUE,
                     !.off = ev[e].off])
        BY <2>11 DEF FreePages, Fail
      <4>2. [buf[b] EXCEPT !.pages = FALSE, !.ondisk = TRUE, !.off = ev[e].off] \in Buffer
        BY <3>1, Records
      <4> QED BY <3>1, <4>1, <4>2, PutOne
    <3>3. ev' \in [Evictors -> EvictorState]
      BY <2>11, EvictorMoves DEF FreePages, Fail
    <3> QED BY <2>11, <3>2, <3>3 DEF FreePages, Fail, Faults
  <2>12. CASE Undo(e)
    <3>1. ev[e].b \in Bufs
      BY <2>12, EvictorMoves DEF Undo
    <3>2. CASE buf[ev[e].b].lru
      BY <2>12, <3>2 DEF Undo, Fail, Faults
    <3>3. CASE ~buf[ev[e].b].lru
      <4>1. buf' \in [Bufs -> Buffer]
        <5>1. buf' = Put(ev[e].b, [buf[ev[e].b] EXCEPT !.tier = 2, !.lru = TRUE])
          BY <2>12, <3>3 DEF Undo
        <5> QED BY <3>1, <5>1, PutOne, Records
      <4>2. ev' \in [Evictors -> EvictorState]
        BY <2>12, <3>3, EvictorMoves DEF Undo
      <4> QED BY <2>12, <3>1, <3>3, <4>1, <4>2, Counters DEF Undo
    <3> QED BY <3>2, <3>3
  <2> QED BY <1>3, <2>1, <2>2, <2>3, <2>4, <2>5, <2>6, <2>7, <2>8, <2>9, <2>10, <2>11,
             <2>12 DEF Evict
<1>4. ASSUME NEW m \in Importers, Import(m) PROVE TypeOK'
  <2> USE ImporterMoves DEF ImGoto, Quiet
  <2>1. ASSUME NEW b \in Bufs, Attach(m, b) PROVE TypeOK'
    BY <2>1 DEF Attach
  <2>2. CASE MapLock(m)
    <3>1. im' \in [Importers -> ImporterState]
      <4>1. \/ im' = im
            \/ \E l \in {"read", "built"} : im' = [im EXCEPT ![m].pc = l]
        BY <2>2 DEF MapLock, Fail
      <4>2. \A l \in {"read", "built"} : [im[m] EXCEPT !.pc = l] \in ImporterState
        BY <2>2 DEF MapLock
      <4> QED BY <4>1, <4>2
    <3> QED BY <2>2, <3>1 DEF MapLock, Fail, Faults
  <2>3. CASE MapFails(m) BY <2>3 DEF MapFails
  <2>4. CASE PromoteRead(m)
    <3>1. im[m].b \in Bufs
      BY <2>4 DEF PromoteRead
    <3>2. buf' \in [Bufs -> Buffer]
      BY <2>4, <3>1, PutOne, Records DEF PromoteRead
    <3>3. DOMAIN file' \subseteq Nat /\ file' \in [DOMAIN file' -> Bufs \cup {NoOne}]
      BY <2>4, FileUpdate DEF PromoteRead
    <3> QED BY <2>4, <3>2, <3>3 DEF PromoteRead
  <2>5. CASE PromotePublish(m)
    <3>1. im[m].b \in Bufs
      BY <2>5 DEF PromotePublish
    <3>2. buf' \in [Bufs -> Buffer]
      BY <2>5, <3>1, PutOne, Records DEF PromotePublish
    <3>3. im' \in [Importers -> ImporterState]
      BY <2>5 DEF PromotePublish
    <3>4. pool' \in Int /\ nvme' \in Int /\ kvt2' \in Nat
      BY <2>5, <3>1, Counters DEF PromotePublish
    <3> QED BY <2>5, <3>2, <3>3, <3>4 DEF PromotePublish
  <2>6. CASE PromoteAdd(m)
    <3>1. im[m].b \in Bufs
      BY <2>6 DEF PromoteAdd
    <3>2. CASE buf[im[m].b].lru
      BY <2>6, <3>2 DEF PromoteAdd, Fail, Faults
    <3>3. CASE ~buf[im[m].b].lru
      <4>1. buf' \in [Bufs -> Buffer]
        <5>1. buf' = Put(im[m].b, [buf[im[m].b] EXCEPT !.lru = TRUE])
          BY <2>6, <3>3 DEF PromoteAdd
        <5> QED BY <3>1, <5>1, PutOne, Records
      <4>2. im' \in [Importers -> ImporterState]
        <5>1. im' = [im EXCEPT ![m].pc = "built"] /\ im[m].pc # "idle"
          BY <2>6, <3>3 DEF PromoteAdd
        <5> QED BY <5>1
      <4> QED BY <2>6, <3>3, <4>1, <4>2 DEF PromoteAdd
    <3> QED BY <3>2, <3>3
  <2>7. CASE Mapped(m) BY <2>7 DEF Mapped
  <2>8. CASE Unmap(m) BY <2>8 DEF Unmap
  <2> QED BY <1>4, <2>1, <2>2, <2>3, <2>4, <2>5, <2>6, <2>7, <2>8 DEF Import
<1>5. CASE UNCHANGED vars
  BY <1>5 DEF vars
<1> QED BY <1>1, <1>2, <1>3, <1>4, <1>5 DEF Next

-----------------------------------------------------------------------------
(* What the actions do, field by field. *)

\* In the next state the fields of b are these; the other buffers are as before.
BufIs(b, life, tier, ondisk, pages, lru, frozen, off) ==
  /\ buf'[b].life = life /\ buf'[b].tier = tier /\ buf'[b].off = off
  /\ (buf'[b].ondisk <=> ondisk) /\ (buf'[b].pages <=> pages)
  /\ (buf'[b].lru <=> lru) /\ (buf'[b].frozen <=> frozen)
  /\ \A c \in Bufs \ {b} : buf'[c] = buf[c]

\* The same of an evictor ...
EvIs(e, pc, b, off) ==
  /\ ev'[e].pc = pc /\ ev'[e].b = b /\ ev'[e].off = off
  /\ \A d \in Evictors \ {e} : ev'[d] = ev[d]

\* ... and of an importer.
ImIs(m, pc, b) ==
  /\ im'[m].pc = pc /\ im'[m].b = b
  /\ \A n \in Importers \ {m} : im'[n] = im[n]

\* A step that only records a fault.
Failed == UNCHANGED <<buf, work, ev, im, pool, nvme, kvt2, next, file>>

\* Writing a record writes its fields.
LEMMA PutIs ==
  ASSUME TypeOK, NEW b \in Bufs, NEW r \in Buffer, buf' = Put(b, r)
  PROVE  BufIs(b, r.life, r.tier, r.ondisk, r.pages, r.lru, r.frozen, r.off)
BY PutOne DEF TypeOK, BufIs

-----------------------------------------------------------------------------
(* Allocation. *)

\* Room in T2: the tier of b is decided.
LEMMA AdmitEffect ==
  ASSUME TypeOK, NEW b \in Bufs, Admit(b) \/ PinUser(b)
  PROVE  /\ buf[b].life = "none"
         /\ BufIs(b, "t2", buf[b].tier, buf[b].ondisk, buf[b].pages, buf[b].lru,
                  buf[b].frozen, buf[b].off)
         /\ UNCHANGED <<work, ev, im, pool, nvme, kvt2, next, file>>
<1>1. buf[b].life = "none"
  BY EvictorMoves, ImporterMoves DEF Admit, PinUser, TypeOK
<1>2. BufIs(b, "t2", buf[b].tier, buf[b].ondisk, buf[b].pages, buf[b].lru, buf[b].frozen,
         buf[b].off)
  <2>1. buf' = Put(b, [buf[b] EXCEPT !.life = "t2"])
    BY <1>1 DEF Admit, PinUser
  <2>2. [buf[b] EXCEPT !.life = "t2"] \in Buffer /\ buf[b] \in Buffer
    BY <1>1, Records DEF TypeOK
  <2> QED BY <1>1, <2>1, <2>2, PutIs DEF Buffer
<1> QED BY <1>1, <1>2 DEF Admit, PinUser

\* The T3 safety net decides the other tier, never for a KV buffer.
LEMMA SpillEffect ==
  ASSUME TypeOK, NEW b \in Bufs, Spill(b)
  PROVE  /\ buf[b].life = "none"
         /\ b \notin Kv
         /\ BufIs(b, "t3", buf[b].tier, buf[b].ondisk, buf[b].pages, buf[b].lru,
                  buf[b].frozen, buf[b].off)
         /\ UNCHANGED <<work, ev, im, pool, nvme, kvt2, next, file>>
<1>1. buf[b].life = "none" /\ b \notin Kv
  BY EvictorMoves, ImporterMoves DEF Spill, TypeOK
<1>2. BufIs(b, "t3", buf[b].tier, buf[b].ondisk, buf[b].pages, buf[b].lru, buf[b].frozen,
         buf[b].off)
  <2>1. buf' = Put(b, [buf[b] EXCEPT !.life = "t3"])
    BY <1>1 DEF Spill
  <2>2. [buf[b] EXCEPT !.life = "t3"] \in Buffer /\ buf[b] \in Buffer
    BY <1>1, Records DEF TypeOK
  <2> QED BY <1>1, <2>1, <2>2, PutIs DEF Buffer
<1> QED BY <1>1, <1>2 DEF Spill

\* A T2 buffer gets its pages and its place; a KV buffer is frozen.
LEMMA AddBuffer2 ==
  ASSUME TypeOK, NEW b \in Bufs, AddBuffer(b), buf[b].life = "t2"
  PROVE  /\ BufIs(b, "raw", 2, buf[b].ondisk, TRUE, TRUE, (b \in Kv \ Pin), buf[b].off)
         /\ UNCHANGED <<work, ev, im, next, file>>
<1>1. BufIs(b, "raw", 2, buf[b].ondisk, TRUE, TRUE, (b \in Kv \ Pin), buf[b].off)
  <2> DEFINE r == [buf[b] EXCEPT !.life = "raw", !.tier = 2, !.pages = TRUE, !.lru = TRUE,
                              !.frozen = b \in Kv \ Pin]
  <2>1. buf' = Put(b, r)
    BY DEF AddBuffer
  <2>2. r \in Buffer /\ buf[b] \in Buffer
    <3>1. buf[b] \in Buffer /\ (b \in Kv \ Pin) \in BOOLEAN
      BY DEF TypeOK
    <3> QED BY <3>1, Records
  <2>3. /\ r.life = "raw" /\ r.tier = 2 /\ r.ondisk = buf[b].ondisk /\ r.pages = TRUE
        /\ r.lru = TRUE /\ r.frozen = (b \in Kv \ Pin) /\ r.off = buf[b].off
    BY <2>2 DEF Buffer
  <2>4. BufIs(b, r.life, r.tier, r.ondisk, r.pages, r.lru, r.frozen, r.off)
    BY <2>1, <2>2, PutIs
  <2> HIDE DEF r
  <2> QED BY <2>3, <2>4
<1> QED BY <1>1 DEF AddBuffer

\* A T3 buffer gets its pages and its place, unfrozen.
LEMMA AddBuffer3 ==
  ASSUME TypeOK, NEW b \in Bufs, AddBuffer(b), buf[b].life # "t2"
  PROVE  /\ buf[b].life = "t3"
         /\ BufIs(b, "raw", 3, buf[b].ondisk, TRUE, TRUE, FALSE, buf[b].off)
         /\ UNCHANGED <<work, ev, im, next, file>>
<1>1. buf[b].life = "t3"
  BY EvictorMoves, ImporterMoves DEF AddBuffer, TypeOK
<1>2. BufIs(b, "raw", 3, buf[b].ondisk, TRUE, TRUE, FALSE, buf[b].off)
  <2> DEFINE r == [buf[b] EXCEPT !.life = "raw", !.tier = 3, !.pages = TRUE, !.lru = TRUE,
                              !.frozen = FALSE]
  <2>1. buf' = Put(b, r)
    BY <1>1 DEF AddBuffer
  <2>2. r \in Buffer /\ buf[b] \in Buffer
    BY <1>1, Records DEF TypeOK
  <2>3. /\ r.life = "raw" /\ r.tier = 3 /\ r.ondisk = buf[b].ondisk /\ r.pages = TRUE
        /\ r.lru = TRUE /\ r.frozen = FALSE /\ r.off = buf[b].off
    BY <2>2 DEF Buffer
  <2>4. BufIs(b, r.life, r.tier, r.ondisk, r.pages, r.lru, r.frozen, r.off)
    BY <1>1, <2>1, <2>2, PutIs
  <2> HIDE DEF r
  <2> QED BY <2>3, <2>4
<1> QED BY <1>1, <1>2 DEF AddBuffer

\* b becomes live.
LEMMA ExportEffect ==
  ASSUME TypeOK, NEW b \in Bufs, Export(b)
  PROVE  /\ buf[b].life = "raw"
         /\ BufIs(b, "live", buf[b].tier, buf[b].ondisk, buf[b].pages, buf[b].lru,
                  buf[b].frozen, buf[b].off)
         /\ UNCHANGED <<work, ev, im, pool, nvme, kvt2, next, file>>
<1>1. buf[b].life = "raw"
  BY EvictorMoves, ImporterMoves DEF Export, TypeOK
<1>2. BufIs(b, "live", buf[b].tier, buf[b].ondisk, buf[b].pages, buf[b].lru, buf[b].frozen,
         buf[b].off)
  <2> DEFINE r == [buf[b] EXCEPT !.life = "live", !.fd = TRUE]
  <2>1. buf' = Put(b, r)
    BY <1>1 DEF Export
  <2>2. r \in Buffer /\ buf[b] \in Buffer
    BY <1>1, Records DEF TypeOK
  <2>3. /\ r.life = "live" /\ r.tier = buf[b].tier /\ r.ondisk = buf[b].ondisk
        /\ r.pages = buf[b].pages
        /\ r.lru = buf[b].lru /\ r.frozen = buf[b].frozen /\ r.off = buf[b].off
    BY <2>2 DEF Buffer
  <2>4. BufIs(b, r.life, r.tier, r.ondisk, r.pages, r.lru, r.frozen, r.off)
    BY <1>1, <2>1, <2>2, PutIs
  <2> HIDE DEF r
  <2> QED BY <2>3, <2>4
<1> QED BY <1>1, <1>2 DEF Export

\* b is freed before it was live.
LEMMA ExportFailsEffect ==
  ASSUME TypeOK, NEW b \in Bufs, ExportFails(b)
  PROVE  /\ buf[b].life = "raw"
         /\ BufIs(b, "gone", 2, FALSE, FALSE, FALSE, FALSE, 0)
         /\ UNCHANGED <<work, ev, im, next, file>>
<1>1. buf[b].life = "raw"
  BY EvictorMoves, ImporterMoves DEF ExportFails, Freed, TypeOK
<1>2. BufIs(b, "gone", 2, FALSE, FALSE, FALSE, FALSE, 0)
  <2> DEFINE r == [Unborn EXCEPT !.life = "gone"]
  <2>1. buf' = Put(b, r)
    BY <1>1 DEF ExportFails, Freed
  <2>2. r \in Buffer /\ buf[b] \in Buffer
    BY <1>1, Records DEF TypeOK
  <2>3. /\ r.life = "gone" /\ r.tier = 2 /\ r.ondisk = FALSE /\ r.pages = FALSE
        /\ r.lru = FALSE /\ r.frozen = FALSE /\ r.off = 0
    BY <2>2 DEF Buffer, Unborn
  <2>4. BufIs(b, r.life, r.tier, r.ondisk, r.pages, r.lru, r.frozen, r.off)
    BY <1>1, <2>1, <2>2, PutIs
  <2> HIDE DEF r
  <2> QED BY <2>3, <2>4
<1> QED BY <1>1, <1>2 DEF ExportFails, Freed

\* The descriptor goes, and nothing else.
LEMMA CloseEffect ==
  ASSUME TypeOK, NEW b \in Bufs, Close(b)
  PROVE  /\ buf[b].life = "live"
         /\ BufIs(b, buf[b].life, buf[b].tier, buf[b].ondisk, buf[b].pages, buf[b].lru,
                  buf[b].frozen, buf[b].off)
         /\ UNCHANGED <<work, ev, im, pool, nvme, kvt2, next, file>>
<1>1. buf[b].life = "live"
  BY EvictorMoves, ImporterMoves DEF Close, TypeOK
<1>2. BufIs(b, buf[b].life, buf[b].tier, buf[b].ondisk, buf[b].pages, buf[b].lru,
         buf[b].frozen, buf[b].off)
  <2>1. buf' = Put(b, [buf[b] EXCEPT !.fd = FALSE])
    BY <1>1 DEF Close
  <2>2. [buf[b] EXCEPT !.fd = FALSE] \in Buffer /\ buf[b] \in Buffer
    BY <1>1, Records DEF TypeOK
  <2> QED BY <1>1, <2>1, <2>2, PutIs DEF Buffer
<1> QED BY <1>1, <1>2 DEF Close

\* b is freed when no thread refers to it.
LEMMA ReleaseEffect ==
  ASSUME TypeOK, NEW b \in Bufs, Release(b)
  PROVE  /\ buf[b].life = "live"
         /\ ~Referenced(b)
         /\ BufIs(b, "gone", 2, FALSE, FALSE, FALSE, FALSE, 0)
         /\ UNCHANGED <<work, ev, im, next>>
<1>1. buf[b].life = "live" /\ ~Referenced(b)
  BY EvictorMoves, ImporterMoves DEF Release, Freed, TypeOK
<1>2. BufIs(b, "gone", 2, FALSE, FALSE, FALSE, FALSE, 0)
  <2> DEFINE r == [Unborn EXCEPT !.life = "gone"]
  <2>1. buf' = Put(b, r)
    BY <1>1 DEF Release, Freed
  <2>2. r \in Buffer /\ buf[b] \in Buffer
    BY <1>1, Records DEF TypeOK
  <2>3. /\ r.life = "gone" /\ r.tier = 2 /\ r.ondisk = FALSE /\ r.pages = FALSE
        /\ r.lru = FALSE /\ r.frozen = FALSE /\ r.off = 0
    BY <2>2 DEF Buffer, Unborn
  <2>4. BufIs(b, r.life, r.tier, r.ondisk, r.pages, r.lru, r.frozen, r.off)
    BY <1>1, <2>1, <2>2, PutIs
  <2> HIDE DEF r
  <2> QED BY <2>3, <2>4
<1> QED BY <1>1, <1>2 DEF Release, Freed

-----------------------------------------------------------------------------
(* Eviction. *)

\* EVICT picks a live buffer that is not frozen.
LEMMA ChooseEffect ==
  ASSUME TypeOK, NEW e \in Evictors, NEW b \in Bufs, EvictChoose(e, b), Referenced(b)
  PROVE  /\ ev[e].pc = "idle"
         /\ buf[b].life = "live"
         /\ ~buf[b].frozen
         /\ EvIs(e, "chosen", b, 0)
         /\ UNCHANGED <<buf, work, im, pool, nvme, kvt2, next, file>>
<1>1. /\ ev[e].pc = "idle"
      /\ buf[b].life = "live"
      /\ ~buf[b].frozen
  BY EvictorMoves, ImporterMoves DEF EvictChoose, At, TypeOK
<1>2. EvIs(e, "chosen", b, 0)
  BY <1>1 DEF EvictChoose, At, EvIs, TypeOK, EvictorState, EvictorIdle
<1> QED BY <1>1, <1>2 DEF EvictChoose, At

\* ... and stages it.
LEMMA AccountEffect ==
  ASSUME TypeOK, NEW e \in Evictors, EvictAccount(e)
  PROVE  /\ ev[e].pc = "chosen"
         /\ ev[e].b \in Bufs
         /\ Overtaken \/ buf[ev[e].b].tier = 2
         /\ BufIs(ev[e].b, buf[ev[e].b].life, 3, buf[ev[e].b].ondisk, buf[ev[e].b].pages,
                  FALSE, buf[ev[e].b].frozen, buf[ev[e].b].off)
         /\ EvIs(e, "staged", ev[e].b, ev[e].off)
         /\ UNCHANGED <<work, im, next, file>>
<1>1. /\ ev[e].pc = "chosen"
      /\ ev[e].b \in Bufs
      /\ Overtaken \/ buf[ev[e].b].tier = 2
  BY EvictorMoves, ImporterMoves DEF EvictAccount, At, EvGoto, Staged, TypeOK
<1>2. BufIs(ev[e].b, buf[ev[e].b].life, 3, buf[ev[e].b].ondisk, buf[ev[e].b].pages, FALSE,
         buf[ev[e].b].frozen, buf[ev[e].b].off)
  <2> DEFINE r == [buf[ev[e].b] EXCEPT !.tier = 3, !.lru = FALSE]
  <2>1. buf' = Put(ev[e].b, r)
    BY <1>1 DEF EvictAccount, At, EvGoto, Staged
  <2>2. r \in Buffer /\ buf[ev[e].b] \in Buffer
    BY <1>1, Records DEF TypeOK
  <2>3. /\ r.life = buf[ev[e].b].life /\ r.tier = 3 /\ r.ondisk = buf[ev[e].b].ondisk
        /\ r.pages = buf[ev[e].b].pages
        /\ r.lru = FALSE /\ r.frozen = buf[ev[e].b].frozen /\ r.off = buf[ev[e].b].off
    BY <2>2 DEF Buffer
  <2>4. BufIs(ev[e].b, r.life, r.tier, r.ondisk, r.pages, r.lru, r.frozen, r.off)
    BY <1>1, <2>1, <2>2, PutIs
  <2> HIDE DEF r
  <2> QED BY <2>3, <2>4
<1>3. EvIs(e, "staged", ev[e].b, ev[e].off)
  BY <1>1 DEF EvictAccount, At, EvGoto, Staged, EvIs, TypeOK, EvictorState, EvictorIdle
<1> QED BY <1>1, <1>2, <1>3 DEF EvictAccount, At, EvGoto, Staged

\* The watchdog stages an eligible live buffer.
LEMMA SweepEffect ==
  ASSUME TypeOK, NEW e \in Evictors, NEW b \in Bufs, Sweep(e, b), Pinnable(b)
  PROVE  /\ ev[e].pc = "idle"
         /\ Eligible(b)
         /\ buf[b].life = "live"
         /\ BufIs(b, buf[b].life, 3, buf[b].ondisk, buf[b].pages, FALSE, buf[b].frozen,
                  buf[b].off)
         /\ EvIs(e, "staged", b, 0)
         /\ UNCHANGED <<work, im, next, file>>
<1>1. /\ ev[e].pc = "idle"
      /\ Eligible(b)
      /\ buf[b].life = "live"
  BY EvictorMoves, ImporterMoves DEF Sweep, At, Staged, Pinnable, TypeOK
<1>2. BufIs(b, buf[b].life, 3, buf[b].ondisk, buf[b].pages, FALSE, buf[b].frozen,
         buf[b].off)
  <2> DEFINE r == [buf[b] EXCEPT !.tier = 3, !.lru = FALSE]
  <2>1. buf' = Put(b, r)
    BY <1>1 DEF Sweep, At, Staged, Pinnable
  <2>2. r \in Buffer /\ buf[b] \in Buffer
    BY <1>1, Records DEF TypeOK
  <2>3. /\ r.life = buf[b].life /\ r.tier = 3 /\ r.ondisk = buf[b].ondisk
        /\ r.pages = buf[b].pages
        /\ r.lru = FALSE /\ r.frozen = buf[b].frozen /\ r.off = buf[b].off
    BY <2>2 DEF Buffer
  <2>4. BufIs(b, r.life, r.tier, r.ondisk, r.pages, r.lru, r.frozen, r.off)
    BY <1>1, <2>1, <2>2, PutIs
  <2> HIDE DEF r
  <2> QED BY <2>3, <2>4
<1>3. EvIs(e, "staged", b, 0)
  BY <1>1 DEF Sweep, At, Staged, Pinnable, EvIs, TypeOK, EvictorState, EvictorIdle
<1> QED BY <1>1, <1>2, <1>3 DEF Sweep, At, Staged, Pinnable

\* The evictor's region is the next one.
LEMMA ReserveEffect ==
  ASSUME TypeOK, NEW e \in Evictors, Reserve(e)
  PROVE  /\ ev[e].pc = "staged"
         /\ EvIs(e, "write", ev[e].b, next)
         /\ UNCHANGED <<buf, work, im, pool, nvme, kvt2, file>>
<1>1. ev[e].pc = "staged"
  BY EvictorMoves, ImporterMoves DEF Reserve, At, TypeOK
<1>2. EvIs(e, "write", ev[e].b, next)
  BY <1>1 DEF Reserve, At, EvIs, TypeOK, EvictorState, EvictorIdle
<1> QED BY <1>1, <1>2 DEF Reserve, At

\* A full file and a busy buffer lead to the roll back.
LEMMA ToUndo ==
  ASSUME TypeOK, NEW e \in Evictors, FileFull(e) \/ CheckBusy(e)
  PROVE  /\ ev[e].pc \in {"staged", "check"}
         /\ EvIs(e, "undo", ev[e].b, ev[e].off)
         /\ UNCHANGED <<buf, work, im, pool, nvme, kvt2, next, file>>
<1>1. ev[e].pc \in {"staged", "check"}
  BY EvictorMoves, ImporterMoves DEF FileFull, CheckBusy, At, EvGoto, TypeOK
<1>2. EvIs(e, "undo", ev[e].b, ev[e].off)
  BY <1>1 DEF FileFull, CheckBusy, At, EvGoto, EvIs, TypeOK, EvictorState, EvictorIdle
<1> QED BY <1>1, <1>2 DEF FileFull, CheckBusy, At, EvGoto

\* The pages of a writer are there.
LEMMA WriteEffect ==
  ASSUME TypeOK, NEW e \in Evictors, WriteFile(e), buf[ev[e].b].pages
  PROVE  /\ ev[e].pc = "write"
         /\ EvIs(e, "check", ev[e].b, ev[e].off)
         /\ UNCHANGED <<buf, work, im, pool, nvme, kvt2, next>>
<1>1. ev[e].pc = "write"
  BY EvictorMoves, ImporterMoves DEF WriteFile, At, EvGoto, TypeOK
<1>2. EvIs(e, "check", ev[e].b, ev[e].off)
  BY <1>1 DEF WriteFile, At, EvGoto, EvIs, TypeOK, EvictorState, EvictorIdle
<1> QED BY <1>1, <1>2 DEF WriteFile, At, EvGoto

\* A failed write leads to the roll back.
LEMMA WriteFailsEffect ==
  ASSUME TypeOK, NEW e \in Evictors, WriteFails(e)
  PROVE  /\ ev[e].pc = "write"
         /\ Failing = "any" \/ next = ev[e].off + 1
         /\ EvIs(e, "undo", ev[e].b, ev[e].off)
         /\ UNCHANGED <<buf, work, im, pool, nvme, kvt2, file>>
<1>1. ev[e].pc = "write" /\ (Failing = "any" \/ next = ev[e].off + 1)
  BY EvictorMoves, ImporterMoves DEF WriteFails, At, EvGoto, TypeOK
<1>2. EvIs(e, "undo", ev[e].b, ev[e].off)
  BY <1>1 DEF WriteFails, At, EvGoto, EvIs, TypeOK, EvictorState, EvictorIdle
<1> QED BY <1>1, <1>2 DEF WriteFails, At, EvGoto

\* A buffer that nobody maps will be freed.
LEMMA CheckFreeEffect ==
  ASSUME TypeOK, NEW e \in Evictors, CheckFree(e)
  PROVE  /\ ev[e].pc = "check"
         /\ EvIs(e, "free", ev[e].b, ev[e].off)
         /\ UNCHANGED <<buf, work, im, pool, nvme, kvt2, next, file>>
<1>1. ev[e].pc = "check"
  BY EvictorMoves, ImporterMoves DEF CheckFree, At, EvGoto, TypeOK
<1>2. EvIs(e, "free", ev[e].b, ev[e].off)
  BY <1>1 DEF CheckFree, At, EvGoto, EvIs, TypeOK, EvictorState, EvictorIdle
<1> QED BY <1>1, <1>2 DEF CheckFree, At, EvGoto

\* The pages go, and the region becomes that of the buffer.
LEMMA FreeEffect ==
  ASSUME TypeOK, NEW e \in Evictors, FreePages(e), buf[ev[e].b].pages
  PROVE  /\ ev[e].pc = "free"
         /\ ev[e].b \in Bufs /\ ev[e].off \in Nat
         /\ ~Locked(ev[e].b)
         /\ BufIs(ev[e].b, buf[ev[e].b].life, buf[ev[e].b].tier, TRUE, FALSE,
                  buf[ev[e].b].lru, buf[ev[e].b].frozen, ev[e].off)
         /\ EvIs(e, "idle", NoBuf, 0)
         /\ UNCHANGED <<work, im, pool, nvme, kvt2, next, file>>
<1>1. /\ ev[e].pc = "free"
      /\ ev[e].b \in Bufs /\ ev[e].off \in Nat
      /\ ~Locked(ev[e].b)
  BY EvictorMoves, ImporterMoves DEF FreePages, At, TypeOK
<1>2. BufIs(ev[e].b, buf[ev[e].b].life, buf[ev[e].b].tier, TRUE, FALSE, buf[ev[e].b].lru,
         buf[ev[e].b].frozen, ev[e].off)
  <2> DEFINE r == [buf[ev[e].b] EXCEPT !.pages = FALSE, !.ondisk = TRUE, !.off = ev[e].off]
  <2>1. buf' = Put(ev[e].b, r)
    BY <1>1 DEF FreePages, At
  <2>2. r \in Buffer /\ buf[ev[e].b] \in Buffer
    BY <1>1, Records DEF TypeOK
  <2>3. /\ r.life = buf[ev[e].b].life /\ r.tier = buf[ev[e].b].tier /\ r.ondisk = TRUE
        /\ r.pages = FALSE
        /\ r.lru = buf[ev[e].b].lru /\ r.frozen = buf[ev[e].b].frozen /\ r.off = ev[e].off
    BY <2>2 DEF Buffer
  <2>4. BufIs(ev[e].b, r.life, r.tier, r.ondisk, r.pages, r.lru, r.frozen, r.off)
    BY <1>1, <2>1, <2>2, PutIs
  <2> HIDE DEF r
  <2> QED BY <2>3, <2>4
<1>3. EvIs(e, "idle", NoBuf, 0)
  BY <1>1 DEF FreePages, At, EvIs, TypeOK, EvictorState, EvictorIdle
<1> QED BY <1>1, <1>2, <1>3 DEF FreePages, At

\* The buffer is back in tier 2 and on the LRU.
LEMMA UndoEffect ==
  ASSUME TypeOK, NEW e \in Evictors, Undo(e), ~buf[ev[e].b].lru
  PROVE  /\ ev[e].pc = "undo"
         /\ ev[e].b \in Bufs
         /\ BufIs(ev[e].b, buf[ev[e].b].life, 2, buf[ev[e].b].ondisk, buf[ev[e].b].pages,
                  TRUE, buf[ev[e].b].frozen, buf[ev[e].b].off)
         /\ EvIs(e, "idle", NoBuf, 0)
         /\ UNCHANGED <<work, im, next, file>>
<1>1. ev[e].pc = "undo" /\ ev[e].b \in Bufs
  BY EvictorMoves, ImporterMoves DEF Undo, At, TypeOK
<1>2. BufIs(ev[e].b, buf[ev[e].b].life, 2, buf[ev[e].b].ondisk, buf[ev[e].b].pages, TRUE,
         buf[ev[e].b].frozen, buf[ev[e].b].off)
  <2> DEFINE r == [buf[ev[e].b] EXCEPT !.tier = 2, !.lru = TRUE]
  <2>1. buf' = Put(ev[e].b, r)
    BY <1>1 DEF Undo, At
  <2>2. r \in Buffer /\ buf[ev[e].b] \in Buffer
    BY <1>1, Records DEF TypeOK
  <2>3. /\ r.life = buf[ev[e].b].life /\ r.tier = 2 /\ r.ondisk = buf[ev[e].b].ondisk
        /\ r.pages = buf[ev[e].b].pages
        /\ r.lru = TRUE /\ r.frozen = buf[ev[e].b].frozen /\ r.off = buf[ev[e].b].off
    BY <2>2 DEF Buffer
  <2>4. BufIs(ev[e].b, r.life, r.tier, r.ondisk, r.pages, r.lru, r.frozen, r.off)
    BY <1>1, <2>1, <2>2, PutIs
  <2> HIDE DEF r
  <2> QED BY <2>3, <2>4
<1>3. EvIs(e, "idle", NoBuf, 0)
  BY <1>1 DEF Undo, At, EvIs, TypeOK, EvictorState, EvictorIdle
<1> QED BY <1>1, <1>2, <1>3 DEF Undo, At

-----------------------------------------------------------------------------
(* Mapping. *)

\* An importer attaches to a live buffer.
LEMMA AttachEffect ==
  ASSUME TypeOK, NEW m \in Importers, NEW b \in Bufs, Attach(m, b)
  PROVE  /\ im[m].pc = "idle"
         /\ buf[b].life = "live"
         /\ ImIs(m, "lock", b)
         /\ UNCHANGED <<buf, work, ev, pool, nvme, kvt2, next, file>>
<1>1. im[m].pc = "idle" /\ buf[b].life = "live"
  BY EvictorMoves, ImporterMoves DEF Attach, Quiet, TypeOK
<1>2. ImIs(m, "lock", b)
  BY <1>1 DEF Attach, Quiet, ImIs, TypeOK, ImporterState, ImporterIdle
<1> QED BY <1>1, <1>2 DEF Attach, Quiet

\* An importer that fails or unmaps is idle again.
LEMMA MapFailsEffect ==
  ASSUME TypeOK, NEW m \in Importers, MapFails(m) \/ Unmap(m)
  PROVE  /\ im[m].pc \in {"read", "built", "dma"}
         /\ ImIs(m, "idle", NoBuf)
         /\ UNCHANGED <<buf, work, ev, pool, nvme, kvt2, next, file>>
<1>1. im[m].pc \in {"read", "built", "dma"}
  BY EvictorMoves, ImporterMoves DEF MapFails, Unmap, Quiet, TypeOK
<1>2. ImIs(m, "idle", NoBuf)
  BY <1>1 DEF MapFails, Unmap, Quiet, ImIs, TypeOK, ImporterState, ImporterIdle
<1> QED BY <1>1, <1>2 DEF MapFails, Unmap, Quiet

\* Fresh pages are filled from the file.
LEMMA ReadEffect ==
  ASSUME TypeOK, NEW m \in Importers, PromoteRead(m)
  PROVE  /\ im[m].pc = "read"
         /\ im[m].b \in Bufs
         /\ BufIs(im[m].b, buf[im[m].b].life, buf[im[m].b].tier, buf[im[m].b].ondisk, TRUE,
                  buf[im[m].b].lru, buf[im[m].b].frozen, buf[im[m].b].off)
         /\ ImIs(m, "publish", im[m].b)
         /\ UNCHANGED <<work, ev, pool, nvme, kvt2, next>>
<1>1. im[m].pc = "read" /\ im[m].b \in Bufs
  BY EvictorMoves, ImporterMoves DEF PromoteRead, ImGoto, TypeOK
<1>2. BufIs(im[m].b, buf[im[m].b].life, buf[im[m].b].tier, buf[im[m].b].ondisk, TRUE,
         buf[im[m].b].lru, buf[im[m].b].frozen, buf[im[m].b].off)
  <2> DEFINE r == [buf[im[m].b] EXCEPT !.pages = TRUE]
  <2>1. buf' = Put(im[m].b, r)
    BY <1>1 DEF PromoteRead, ImGoto
  <2>2. r \in Buffer /\ buf[im[m].b] \in Buffer
    BY <1>1, Records DEF TypeOK
  <2>3. /\ r.life = buf[im[m].b].life /\ r.tier = buf[im[m].b].tier
        /\ r.ondisk = buf[im[m].b].ondisk /\ r.pages = TRUE
        /\ r.lru = buf[im[m].b].lru /\ r.frozen = buf[im[m].b].frozen /\ r.off = buf[im[m].b].off
    BY <2>2 DEF Buffer
  <2>4. BufIs(im[m].b, r.life, r.tier, r.ondisk, r.pages, r.lru, r.frozen, r.off)
    BY <1>1, <2>1, <2>2, PutIs
  <2> HIDE DEF r
  <2> QED BY <2>3, <2>4
<1>3. ImIs(m, "publish", im[m].b)
  BY <1>1 DEF PromoteRead, ImGoto, ImIs, TypeOK, ImporterState, ImporterIdle
<1> QED BY <1>1, <1>2, <1>3 DEF PromoteRead, ImGoto

\* The buffer that was read back is of tier 2.
LEMMA PublishEffect ==
  ASSUME TypeOK, NEW m \in Importers, PromotePublish(m)
  PROVE  /\ im[m].pc = "publish"
         /\ im[m].b \in Bufs
         /\ BufIs(im[m].b, buf[im[m].b].life, 2, FALSE, buf[im[m].b].pages,
                  buf[im[m].b].lru, buf[im[m].b].frozen, buf[im[m].b].off)
         /\ ImIs(m, "add", im[m].b)
         /\ UNCHANGED <<work, ev, next, file>>
<1>1. im[m].pc = "publish" /\ im[m].b \in Bufs
  BY EvictorMoves, ImporterMoves DEF PromotePublish, ImGoto, TypeOK
<1>2. BufIs(im[m].b, buf[im[m].b].life, 2, FALSE, buf[im[m].b].pages, buf[im[m].b].lru,
         buf[im[m].b].frozen, buf[im[m].b].off)
  <2> DEFINE r == [buf[im[m].b] EXCEPT !.tier = 2, !.ondisk = FALSE]
  <2>1. buf' = Put(im[m].b, r)
    BY <1>1 DEF PromotePublish, ImGoto
  <2>2. r \in Buffer /\ buf[im[m].b] \in Buffer
    BY <1>1, Records DEF TypeOK
  <2>3. /\ r.life = buf[im[m].b].life /\ r.tier = 2 /\ r.ondisk = FALSE
        /\ r.pages = buf[im[m].b].pages
        /\ r.lru = buf[im[m].b].lru /\ r.frozen = buf[im[m].b].frozen /\ r.off = buf[im[m].b].off
    BY <2>2 DEF Buffer
  <2>4. BufIs(im[m].b, r.life, r.tier, r.ondisk, r.pages, r.lru, r.frozen, r.off)
    BY <1>1, <2>1, <2>2, PutIs
  <2> HIDE DEF r
  <2> QED BY <2>3, <2>4
<1>3. ImIs(m, "add", im[m].b)
  BY <1>1 DEF PromotePublish, ImGoto, ImIs, TypeOK, ImporterState, ImporterIdle
<1> QED BY <1>1, <1>2, <1>3 DEF PromotePublish, ImGoto

\* ... and goes back on the LRU.
LEMMA AddEffect ==
  ASSUME TypeOK, NEW m \in Importers, PromoteAdd(m), ~buf[im[m].b].lru
  PROVE  /\ im[m].pc = "add"
         /\ im[m].b \in Bufs
         /\ BufIs(im[m].b, buf[im[m].b].life, buf[im[m].b].tier, buf[im[m].b].ondisk,
                  buf[im[m].b].pages, TRUE, buf[im[m].b].frozen, buf[im[m].b].off)
         /\ ImIs(m, "built", im[m].b)
         /\ UNCHANGED <<work, ev, pool, nvme, kvt2, next, file>>
<1>1. im[m].pc = "add" /\ im[m].b \in Bufs
  BY EvictorMoves, ImporterMoves DEF PromoteAdd, ImGoto, Quiet, TypeOK
<1>2. BufIs(im[m].b, buf[im[m].b].life, buf[im[m].b].tier, buf[im[m].b].ondisk,
         buf[im[m].b].pages, TRUE, buf[im[m].b].frozen, buf[im[m].b].off)
  <2> DEFINE r == [buf[im[m].b] EXCEPT !.lru = TRUE]
  <2>1. buf' = Put(im[m].b, r)
    BY <1>1 DEF PromoteAdd, ImGoto, Quiet
  <2>2. r \in Buffer /\ buf[im[m].b] \in Buffer
    BY <1>1, Records DEF TypeOK
  <2>3. /\ r.life = buf[im[m].b].life /\ r.tier = buf[im[m].b].tier
        /\ r.ondisk = buf[im[m].b].ondisk /\ r.pages = buf[im[m].b].pages
        /\ r.lru = TRUE /\ r.frozen = buf[im[m].b].frozen /\ r.off = buf[im[m].b].off
    BY <2>2 DEF Buffer
  <2>4. BufIs(im[m].b, r.life, r.tier, r.ondisk, r.pages, r.lru, r.frozen, r.off)
    BY <1>1, <2>1, <2>2, PutIs
  <2> HIDE DEF r
  <2> QED BY <2>3, <2>4
<1>3. ImIs(m, "built", im[m].b)
  BY <1>1 DEF PromoteAdd, ImGoto, Quiet, ImIs, TypeOK, ImporterState, ImporterIdle
<1> QED BY <1>1, <1>2, <1>3 DEF PromoteAdd, ImGoto, Quiet

\* The mapping is counted.
LEMMA MappedEffect ==
  ASSUME TypeOK, NEW m \in Importers, Mapped(m)
  PROVE  /\ im[m].pc = "built"
         /\ ImIs(m, "dma", im[m].b)
         /\ UNCHANGED <<buf, work, ev, pool, nvme, kvt2, next, file>>
<1>1. im[m].pc = "built"
  BY EvictorMoves, ImporterMoves DEF Mapped, ImGoto, Quiet, TypeOK
<1>2. ImIs(m, "dma", im[m].b)
  BY <1>1 DEF Mapped, ImGoto, Quiet, ImIs, TypeOK, ImporterState, ImporterIdle
<1> QED BY <1>1, <1>2 DEF Mapped, ImGoto, Quiet

\* A buffer on disk is read back, another is mapped at once.
LEMMA LockEffect ==
  ASSUME TypeOK, NEW m \in Importers, MapLock(m), buf[im[m].b].ondisk \/ buf[im[m].b].pages
  PROVE  /\ im[m].pc = "lock" /\ ~Locked(im[m].b)
         /\ ImIs(m, IF buf[im[m].b].ondisk THEN "read" ELSE "built", im[m].b)
         /\ UNCHANGED <<buf, work, ev, pool, nvme, kvt2, next, file>>
<1>1. im' = [im EXCEPT ![m].pc = IF buf[im[m].b].ondisk THEN "read" ELSE "built"]
  BY DEF MapLock, ImGoto
<1>2. im[m].pc = "lock" /\ ~Locked(im[m].b)
  BY DEF MapLock
<1>3. ImIs(m, IF buf[im[m].b].ondisk THEN "read" ELSE "built", im[m].b)
  BY <1>1, <1>2 DEF ImIs, TypeOK, ImporterState, ImporterIdle
<1> QED BY <1>2, <1>3 DEF MapLock, Quiet

\* The worker takes an item over, to evict or, at shutdown, to undo.
LEMMA WorkEffect ==
  ASSUME TypeOK, NEW e \in Evictors, NEW b \in Bufs, WorkStart(e, b)
  PROVE  /\ ev[e].pc = "idle" /\ b \in work /\ work' = work \ {b}
         /\ EvIs(e, "staged", b, 0) \/ EvIs(e, "undo", b, 0)
         /\ UNCHANGED <<buf, im, pool, nvme, kvt2, next, file>>
<1>1. PICK pc \in {"staged", "undo"} : 
       ev' = [ev EXCEPT ![e] = [pc |-> pc, b |-> b, off |-> 0]]
  BY DEF WorkStart
<1>2. EvIs(e, pc, b, 0)
  BY <1>1 DEF EvIs, TypeOK
<1> QED BY <1>2 DEF WorkStart, At

\* Advice lists and freezes; it neither unlists nor thaws.
LEMMA AdviseEffect ==
  ASSUME TypeOK, NEW b \in Bufs, NEW a \in Advices, Madvise(b, a), Referenced(b)
  PROVE  /\ \E u, f \in BOOLEAN :
              /\ buf[b].lru => u
              /\ buf[b].frozen => f
              /\ BufIs(b, buf[b].life, buf[b].tier, buf[b].ondisk, buf[b].pages, u, f,
                       buf[b].off)
         /\ UNCHANGED <<work, ev, im, pool, nvme, kvt2, next, file>>
<1> DEFINE x == a \in {"move", "prefer"}
           y == a \in {"freeze", "prefer"}
           r == [buf[b] EXCEPT !.lru = @ \/ x, !.frozen = @ \/ y]
<1>1. buf' = Put(b, r)
  BY DEF Madvise, Advised
<1>2. buf[b] \in Buffer /\ x \in BOOLEAN /\ y \in BOOLEAN
  BY DEF TypeOK
<1>3. r \in Buffer
  BY <1>2, Records
<1>4. BufIs(b, r.life, r.tier, r.ondisk, r.pages, r.lru, r.frozen, r.off)
  BY <1>1, <1>3, PutIs
<1>5. /\ r.life = buf[b].life /\ r.tier = buf[b].tier /\ r.ondisk = buf[b].ondisk
      /\ r.pages = buf[b].pages /\ r.off = buf[b].off
      /\ r.lru = (buf[b].lru \/ x) /\ r.frozen = (buf[b].frozen \/ y)
      /\ r.lru \in BOOLEAN /\ r.frozen \in BOOLEAN
  BY <1>2, <1>3 DEF Buffer
<1>6. BufIs(b, buf[b].life, buf[b].tier, buf[b].ondisk, buf[b].pages, r.lru, r.frozen,
         buf[b].off)
  BY <1>4, <1>5
<1> HIDE DEF r
<1> QED BY <1>5, <1>6 DEF Madvise, Quiet

\* Allocation that evicts: b is decided and its victim c is staged for the worker.
LEMMA AdmitEvictingEffect ==
  ASSUME TypeOK, NEW b \in Bufs, NEW c \in Bufs, AdmitEvicting(b, c), Pinnable(c)
  PROVE  /\ buf[b].life = "none" /\ b \notin Kv /\ b # c
         /\ Eligible(c) /\ buf[c].life = "live"
         /\ buf'[b].life \in {"none", "t2", "t3"}
         /\ buf'[b].tier = buf[b].tier /\ (buf'[b].ondisk <=> buf[b].ondisk)
         /\ (buf'[b].pages <=> buf[b].pages) /\ (buf'[b].lru <=> buf[b].lru)
         /\ (buf'[b].frozen <=> buf[b].frozen) /\ buf'[b].off = buf[b].off
         /\ buf'[c].life = buf[c].life /\ buf'[c].tier = 3
         /\ (buf'[c].ondisk <=> buf[c].ondisk) /\ (buf'[c].pages <=> buf[c].pages)
         /\ ~buf'[c].lru /\ (buf'[c].frozen <=> buf[c].frozen) /\ buf'[c].off = buf[c].off
         /\ \A d \in Bufs \ {b, c} : buf'[d] = buf[d]
         /\ work' = work \cup {c}
         /\ UNCHANGED <<ev, im, next, file>>
<1> DEFINE l == IF pool <= T2Max THEN "t2" ELSE IF SpillAllowed THEN "t3" ELSE "none"
           s == [buf[c] EXCEPT !.tier = 3, !.lru = FALSE]
           r == [buf[b] EXCEPT !.life = l]
<1>1. buf[b] \in Buffer /\ buf[c] \in Buffer /\ b # c
  BY DEF TypeOK, AdmitEvicting, Pinnable
<1>2. s \in Buffer /\ r \in Buffer
  <2>1. l \in {"none", "t2", "t3"}
    OBVIOUS
  <2> QED BY <1>1, <2>1, Records
<1>3. Staged(c) \in [Bufs -> Buffer] /\ Staged(c)[c] = s
      /\ \A d \in Bufs \ {c} : Staged(c)[d] = buf[d]
  BY <1>2, PutOne DEF Staged, TypeOK
<1>4. buf' = [Staged(c) EXCEPT ![b].life = l]
  BY DEF AdmitEvicting
<1>5. buf'[b] = r /\ buf'[c] = s /\ \A d \in Bufs \ {b, c} : buf'[d] = buf[d]
  BY <1>1, <1>3, <1>4
<1>6. /\ r.life \in {"none", "t2", "t3"} /\ r.tier = buf[b].tier /\ r.ondisk = buf[b].ondisk
      /\ r.pages = buf[b].pages /\ r.lru = buf[b].lru
      /\ r.frozen = buf[b].frozen /\ r.off = buf[b].off
      /\ s.life = buf[c].life /\ s.tier = 3 /\ s.ondisk = buf[c].ondisk
      /\ s.pages = buf[c].pages /\ s.lru = FALSE /\ s.frozen = buf[c].frozen
      /\ s.off = buf[c].off
  BY <1>1 DEF Buffer
<1> HIDE DEF r, s
<1> QED BY <1>1, <1>5, <1>6 DEF AdmitEvicting, Pinnable

-----------------------------------------------------------------------------
(* Who may touch the pages of a buffer. *)

Owners == {"staged", "write", "check", "free", "undo"}
Promoting == {"read", "publish", "add"}

\* A buffer that a thread works on is there.
WorkedOnIsLive ==
  /\ \A b \in work : buf[b].life = "live"
  /\ \A e \in Evictors : ev[e].pc # "idle" => buf[ev[e].b].life = "live"
  /\ \A m \in Importers : im[m].pc # "idle" => buf[im[m].b].life = "live"

\* The pages are in RAM or in the file.
PagesSomewhere ==
  \A b \in Bufs :
    /\ buf[b].life \in {"raw", "live"} => buf[b].pages \/ buf[b].ondisk
    /\ buf[b].ondisk => buf[b].tier = 3 /\ buf[b].life = "live"

\* A buffer is staged once: its pages are there and its eviction has one owner.
StagedOnce ==
  /\ \A b \in work : buf[b].tier = 3 /\ buf[b].pages /\ ~buf[b].ondisk
  /\ \A e \in Evictors :
       ev[e].pc \in Owners =>
         /\ buf[ev[e].b].tier = 3 /\ buf[ev[e].b].pages /\ ~buf[ev[e].b].ondisk
         /\ ev[e].b \notin work
         /\ \A d \in Evictors : ev[d].pc \in Owners /\ ev[d].b = ev[e].b => d = e

\* A buffer is read back by the one importer that holds its tier_lock.
PromotedOnce ==
  \A m \in Importers :
    /\ im[m].pc = "read" => buf[im[m].b].ondisk /\ ~buf[im[m].b].pages
    /\ im[m].pc = "publish" => buf[im[m].b].ondisk /\ buf[im[m].b].pages
    /\ im[m].pc = "add" => ~buf[im[m].b].ondisk /\ buf[im[m].b].pages
    /\ im[m].pc \in Promoting =>
         \A n \in Importers : im[n].pc \in Promoting /\ im[n].b = im[m].b => n = m

\* A buffer that is in both places is being read back.
ReadBackByOne ==
  \A b \in Bufs : buf[b].ondisk /\ buf[b].pages =>
    \E m \in Importers : im[m].b = b /\ im[m].pc = "publish"

OwnInv == WorkedOnIsLive /\ PagesSomewhere /\ StagedOnce /\ PromotedOnce /\ ReadBackByOne

\* Every action keeps the ownership of the pages.
LEMMA OwnInvariance ==
  ASSUME ~Overtaken
  PROVE  TypeOK /\ OwnInv /\ [Next]_vars => OwnInv'
<1> SUFFICES ASSUME TypeOK, OwnInv, [Next]_vars PROVE OwnInv'
  OBVIOUS
<1> USE DEF OwnInv, WorkedOnIsLive, PagesSomewhere, StagedOnce, PromotedOnce,
         ReadBackByOne, Owners, Promoting
<1>0. /\ work \subseteq Bufs
      /\ \A e \in Evictors : ev[e].pc # "idle" => ev[e].b \in Bufs
      /\ \A m \in Importers : im[m].pc # "idle" => im[m].b \in Bufs
  BY EvictorMoves, ImporterMoves DEF TypeOK
<1>6. ASSUME Failed PROVE OwnInv'
  BY <1>6 DEF Failed
<1>1. ASSUME NEW b \in Bufs, Allocate(b) PROVE OwnInv'
  <2>1. CASE Admit(b)
    BY <2>1, AdmitEffect, <1>0 DEF BufIs, EvIs, ImIs
  <2>2. ASSUME NEW c \in Bufs, AdmitEvicting(b, c) PROVE OwnInv'
    <3>1. CASE Pinnable(c)
      BY <2>2, <3>1, AdmitEvictingEffect, <1>0 DEF BufIs, EvIs, ImIs, Eligible
    <3>2. CASE ~Pinnable(c)
      BY <2>2, <3>2, <1>6 DEF AdmitEvicting, Fail, Failed
    <3> QED BY <3>1, <3>2
  <2>3. CASE Spill(b)
    BY <2>3, SpillEffect, <1>0 DEF BufIs, EvIs, ImIs
  <2>4. CASE PinUser(b)
    BY <2>4, AdmitEffect, <1>0 DEF BufIs, EvIs, ImIs
  <2>5. CASE AddBuffer(b)
    <3>1. CASE buf[b].life = "t2"
      BY <2>5, <3>1, AddBuffer2, <1>0 DEF BufIs, EvIs, ImIs
    <3>2. CASE buf[b].life # "t2"
      BY <2>5, <3>2, AddBuffer3, <1>0 DEF BufIs, EvIs, ImIs
    <3> QED BY <3>1, <3>2
  <2>6. CASE Export(b)
    BY <2>6, ExportEffect, <1>0 DEF BufIs, EvIs, ImIs
  <2>7. CASE ExportFails(b)
    BY <2>7, ExportFailsEffect, <1>0 DEF BufIs, EvIs, ImIs
  <2>8. CASE Close(b)
    BY <2>8, CloseEffect, <1>0 DEF BufIs, EvIs, ImIs
  <2>9. CASE Release(b)
    BY <2>9, ReleaseEffect, <1>0 DEF BufIs, EvIs, ImIs, Referenced
  <2> QED BY <1>1, <2>1, <2>2, <2>3, <2>4, <2>5, <2>6, <2>7, <2>8, <2>9 DEF Allocate
<1>2. ASSUME NEW b \in Bufs, NEW a \in Advices, Madvise(b, a) PROVE OwnInv'
  <2>1. CASE Referenced(b)
    BY <1>2, <2>1, AdviseEffect, <1>0 DEF BufIs, EvIs, ImIs
  <2>2. CASE ~Referenced(b)
    BY <1>2, <2>2, <1>6 DEF Madvise, Fail, Failed
  <2> QED BY <2>1, <2>2
<1>3. ASSUME NEW e \in Evictors, Evict(e) PROVE OwnInv'
  <2>1. ASSUME NEW b \in Bufs, EvictChoose(e, b) PROVE OwnInv'
    <3>1. CASE Referenced(b)
      BY <2>1, <3>1, ChooseEffect, <1>0 DEF BufIs, EvIs, ImIs
    <3>2. CASE ~Referenced(b)
      BY <2>1, <3>2, <1>6 DEF EvictChoose, Fail, Failed
    <3> QED BY <3>1, <3>2
  <2>2. CASE EvictAccount(e)
    BY <2>2, AccountEffect, <1>0 DEF BufIs, EvIs, ImIs
  <2>3. ASSUME NEW b \in Bufs, Sweep(e, b) PROVE OwnInv'
    <3>1. CASE Pinnable(b)
      BY <2>3, <3>1, SweepEffect, <1>0 DEF BufIs, EvIs, ImIs, Eligible
    <3>2. CASE ~Pinnable(b)
      BY <2>3, <3>2, <1>6 DEF Sweep, Fail, Failed
    <3> QED BY <3>1, <3>2
  <2>4. ASSUME NEW b \in Bufs, WorkStart(e, b) PROVE OwnInv'
    BY <2>4, WorkEffect, <1>0 DEF BufIs, EvIs, ImIs
  <2>5. CASE Reserve(e)
    BY <2>5, ReserveEffect, <1>0 DEF BufIs, EvIs, ImIs
  <2>6. CASE FileFull(e)
    BY <2>6, ToUndo, <1>0 DEF BufIs, EvIs, ImIs
  <2>7. CASE WriteFile(e)
    <3>1. CASE buf[ev[e].b].pages
      BY <2>7, <3>1, WriteEffect, <1>0 DEF BufIs, EvIs, ImIs
    <3>2. CASE ~buf[ev[e].b].pages
      BY <2>7, <3>2, <1>6 DEF WriteFile, Fail, Failed
    <3> QED BY <3>1, <3>2
  <2>8. CASE WriteFails(e)
    BY <2>8, WriteFailsEffect, <1>0 DEF BufIs, EvIs, ImIs
  <2>9. CASE CheckBusy(e)
    BY <2>9, ToUndo, <1>0 DEF BufIs, EvIs, ImIs
  <2>10. CASE CheckFree(e)
    BY <2>10, CheckFreeEffect, <1>0 DEF BufIs, EvIs, ImIs
  <2>11. CASE FreePages(e)
    <3>1. CASE buf[ev[e].b].pages
      BY <2>11, <3>1, FreeEffect, <1>0 DEF BufIs, EvIs, ImIs, Locked
    <3>2. CASE ~buf[ev[e].b].pages
      BY <2>11, <3>2, <1>6 DEF FreePages, Fail, Failed
    <3> QED BY <3>1, <3>2
  <2>12. CASE Undo(e)
    <3>1. CASE ~buf[ev[e].b].lru
      BY <2>12, <3>1, UndoEffect, <1>0 DEF BufIs, EvIs, ImIs
    <3>2. CASE buf[ev[e].b].lru
      BY <2>12, <3>2, <1>6 DEF Undo, Fail, Failed
    <3> QED BY <3>1, <3>2
  <2> QED BY <1>3, <2>1, <2>2, <2>3, <2>4, <2>5, <2>6, <2>7, <2>8, <2>9, <2>10, <2>11,
           <2>12 DEF Evict
<1>4. ASSUME NEW m \in Importers, Import(m) PROVE OwnInv'
  <2>1. ASSUME NEW b \in Bufs, Attach(m, b) PROVE OwnInv'
    BY <2>1, AttachEffect, <1>0 DEF BufIs, EvIs, ImIs
  <2>2. CASE MapLock(m)
    <3>1. CASE buf[im[m].b].ondisk \/ buf[im[m].b].pages
      BY <2>2, <3>1, LockEffect, <1>0 DEF BufIs, EvIs, ImIs, Locked
    <3>2. CASE ~(buf[im[m].b].ondisk \/ buf[im[m].b].pages)
      BY <2>2, <3>2, <1>6 DEF MapLock, Fail, Failed
    <3> QED BY <3>1, <3>2
  <2>3. CASE MapFails(m)
    BY <2>3, MapFailsEffect, <1>0 DEF BufIs, EvIs, ImIs
  <2>4. CASE PromoteRead(m)
    BY <2>4, ReadEffect, <1>0 DEF BufIs, EvIs, ImIs
  <2>5. CASE PromotePublish(m)
    BY <2>5, PublishEffect, <1>0 DEF BufIs, EvIs, ImIs
  <2>6. CASE PromoteAdd(m)
    <3>1. CASE ~buf[im[m].b].lru
      BY <2>6, <3>1, AddEffect, <1>0 DEF BufIs, EvIs, ImIs
    <3>2. CASE buf[im[m].b].lru
      BY <2>6, <3>2, <1>6 DEF PromoteAdd, Fail, Failed
    <3> QED BY <3>1, <3>2
  <2>7. CASE Mapped(m)
    BY <2>7, MappedEffect, <1>0 DEF BufIs, EvIs, ImIs
  <2>8. CASE Unmap(m)
    BY <2>8, MapFailsEffect, <1>0 DEF BufIs, EvIs, ImIs
  <2> QED BY <1>4, <2>1, <2>2, <2>3, <2>4, <2>5, <2>6, <2>7, <2>8 DEF Import
<1>5. CASE UNCHANGED vars
  BY <1>5 DEF vars
<1> QED BY <1>1, <1>2, <1>3, <1>4, <1>5 DEF Next

-----------------------------------------------------------------------------
(* No action forgets a buffer of tier 2, or touches a KV buffer. *)

\* Whoever takes a buffer off the LRU changes its tier in the same step.
LEMMA ListedInvariance ==
  TypeOK /\ EvictableListed /\ [Next]_vars => EvictableListed'
<1> SUFFICES ASSUME TypeOK, EvictableListed, [Next]_vars PROVE EvictableListed'
  OBVIOUS
<1> USE DEF EvictableListed
<1>0. /\ work \subseteq Bufs
      /\ \A e \in Evictors : ev[e].pc # "idle" => ev[e].b \in Bufs
      /\ \A m \in Importers : im[m].pc # "idle" => im[m].b \in Bufs
  BY EvictorMoves, ImporterMoves DEF TypeOK
<1>6. ASSUME Failed PROVE EvictableListed'
  BY <1>6 DEF Failed
<1>1. ASSUME NEW b \in Bufs, Allocate(b) PROVE EvictableListed'
  <2>1. CASE Admit(b)
    BY <2>1, AdmitEffect, <1>0 DEF BufIs, EvIs, ImIs
  <2>2. ASSUME NEW c \in Bufs, AdmitEvicting(b, c) PROVE EvictableListed'
    <3>1. CASE Pinnable(c)
      BY <2>2, <3>1, AdmitEvictingEffect, <1>0 DEF BufIs, EvIs, ImIs, Eligible
    <3>2. CASE ~Pinnable(c)
      BY <2>2, <3>2, <1>6 DEF AdmitEvicting, Fail, Failed
    <3> QED BY <3>1, <3>2
  <2>3. CASE Spill(b)
    BY <2>3, SpillEffect, <1>0 DEF BufIs, EvIs, ImIs
  <2>4. CASE PinUser(b)
    BY <2>4, AdmitEffect, <1>0 DEF BufIs, EvIs, ImIs
  <2>5. CASE AddBuffer(b)
    <3>1. CASE buf[b].life = "t2"
      BY <2>5, <3>1, AddBuffer2, <1>0 DEF BufIs, EvIs, ImIs
    <3>2. CASE buf[b].life # "t2"
      BY <2>5, <3>2, AddBuffer3, <1>0 DEF BufIs, EvIs, ImIs
    <3> QED BY <3>1, <3>2
  <2>6. CASE Export(b)
    BY <2>6, ExportEffect, <1>0 DEF BufIs, EvIs, ImIs
  <2>7. CASE ExportFails(b)
    BY <2>7, ExportFailsEffect, <1>0 DEF BufIs, EvIs, ImIs
  <2>8. CASE Close(b)
    BY <2>8, CloseEffect, <1>0 DEF BufIs, EvIs, ImIs
  <2>9. CASE Release(b)
    BY <2>9, ReleaseEffect, <1>0 DEF BufIs, EvIs, ImIs, Referenced
  <2> QED BY <1>1, <2>1, <2>2, <2>3, <2>4, <2>5, <2>6, <2>7, <2>8, <2>9 DEF Allocate
<1>2. ASSUME NEW b \in Bufs, NEW a \in Advices, Madvise(b, a) PROVE EvictableListed'
  <2>1. CASE Referenced(b)
    BY <1>2, <2>1, AdviseEffect, <1>0 DEF BufIs, EvIs, ImIs
  <2>2. CASE ~Referenced(b)
    BY <1>2, <2>2, <1>6 DEF Madvise, Fail, Failed
  <2> QED BY <2>1, <2>2
<1>3. ASSUME NEW e \in Evictors, Evict(e) PROVE EvictableListed'
  <2>1. ASSUME NEW b \in Bufs, EvictChoose(e, b) PROVE EvictableListed'
    <3>1. CASE Referenced(b)
      BY <2>1, <3>1, ChooseEffect, <1>0 DEF BufIs, EvIs, ImIs
    <3>2. CASE ~Referenced(b)
      BY <2>1, <3>2, <1>6 DEF EvictChoose, Fail, Failed
    <3> QED BY <3>1, <3>2
  <2>2. CASE EvictAccount(e)
    BY <2>2, AccountEffect, <1>0 DEF BufIs, EvIs, ImIs
  <2>3. ASSUME NEW b \in Bufs, Sweep(e, b) PROVE EvictableListed'
    <3>1. CASE Pinnable(b)
      BY <2>3, <3>1, SweepEffect, <1>0 DEF BufIs, EvIs, ImIs, Eligible
    <3>2. CASE ~Pinnable(b)
      BY <2>3, <3>2, <1>6 DEF Sweep, Fail, Failed
    <3> QED BY <3>1, <3>2
  <2>4. ASSUME NEW b \in Bufs, WorkStart(e, b) PROVE EvictableListed'
    BY <2>4, WorkEffect, <1>0 DEF BufIs, EvIs, ImIs
  <2>5. CASE Reserve(e)
    BY <2>5, ReserveEffect, <1>0 DEF BufIs, EvIs, ImIs
  <2>6. CASE FileFull(e)
    BY <2>6, ToUndo, <1>0 DEF BufIs, EvIs, ImIs
  <2>7. CASE WriteFile(e)
    <3>1. CASE buf[ev[e].b].pages
      BY <2>7, <3>1, WriteEffect, <1>0 DEF BufIs, EvIs, ImIs
    <3>2. CASE ~buf[ev[e].b].pages
      BY <2>7, <3>2, <1>6 DEF WriteFile, Fail, Failed
    <3> QED BY <3>1, <3>2
  <2>8. CASE WriteFails(e)
    BY <2>8, WriteFailsEffect, <1>0 DEF BufIs, EvIs, ImIs
  <2>9. CASE CheckBusy(e)
    BY <2>9, ToUndo, <1>0 DEF BufIs, EvIs, ImIs
  <2>10. CASE CheckFree(e)
    BY <2>10, CheckFreeEffect, <1>0 DEF BufIs, EvIs, ImIs
  <2>11. CASE FreePages(e)
    <3>1. CASE buf[ev[e].b].pages
      BY <2>11, <3>1, FreeEffect, <1>0 DEF BufIs, EvIs, ImIs, Locked
    <3>2. CASE ~buf[ev[e].b].pages
      BY <2>11, <3>2, <1>6 DEF FreePages, Fail, Failed
    <3> QED BY <3>1, <3>2
  <2>12. CASE Undo(e)
    <3>1. CASE ~buf[ev[e].b].lru
      BY <2>12, <3>1, UndoEffect, <1>0 DEF BufIs, EvIs, ImIs
    <3>2. CASE buf[ev[e].b].lru
      BY <2>12, <3>2, <1>6 DEF Undo, Fail, Failed
    <3> QED BY <3>1, <3>2
  <2> QED BY <1>3, <2>1, <2>2, <2>3, <2>4, <2>5, <2>6, <2>7, <2>8, <2>9, <2>10, <2>11,
           <2>12 DEF Evict
<1>4. ASSUME NEW m \in Importers, Import(m) PROVE EvictableListed'
  <2>1. ASSUME NEW b \in Bufs, Attach(m, b) PROVE EvictableListed'
    BY <2>1, AttachEffect, <1>0 DEF BufIs, EvIs, ImIs
  <2>2. CASE MapLock(m)
    <3>1. CASE buf[im[m].b].ondisk \/ buf[im[m].b].pages
      BY <2>2, <3>1, LockEffect, <1>0 DEF BufIs, EvIs, ImIs, Locked
    <3>2. CASE ~(buf[im[m].b].ondisk \/ buf[im[m].b].pages)
      BY <2>2, <3>2, <1>6 DEF MapLock, Fail, Failed
    <3> QED BY <3>1, <3>2
  <2>3. CASE MapFails(m)
    BY <2>3, MapFailsEffect, <1>0 DEF BufIs, EvIs, ImIs
  <2>4. CASE PromoteRead(m)
    BY <2>4, ReadEffect, <1>0 DEF BufIs, EvIs, ImIs
  <2>5. CASE PromotePublish(m)
    BY <2>5, PublishEffect, <1>0 DEF BufIs, EvIs, ImIs
  <2>6. CASE PromoteAdd(m)
    <3>1. CASE ~buf[im[m].b].lru
      BY <2>6, <3>1, AddEffect, <1>0 DEF BufIs, EvIs, ImIs
    <3>2. CASE buf[im[m].b].lru
      BY <2>6, <3>2, <1>6 DEF PromoteAdd, Fail, Failed
    <3> QED BY <3>1, <3>2
  <2>7. CASE Mapped(m)
    BY <2>7, MappedEffect, <1>0 DEF BufIs, EvIs, ImIs
  <2>8. CASE Unmap(m)
    BY <2>8, MapFailsEffect, <1>0 DEF BufIs, EvIs, ImIs
  <2> QED BY <1>4, <2>1, <2>2, <2>3, <2>4, <2>5, <2>6, <2>7, <2>8 DEF Import
<1>5. CASE UNCHANGED vars
  BY <1>5 DEF vars
<1> QED BY <1>1, <1>2, <1>3, <1>4, <1>5 DEF Next

\* A KV buffer is frozen before its descriptor is there, so that no eviction picks it.
KvFrozen ==
  \A b \in Kv \ Pin :
    /\ buf[b].tier = 2 /\ ~buf[b].ondisk /\ buf[b].life # "t3"
    /\ buf[b].life \in {"raw", "live"} => buf[b].frozen
    /\ b \notin work
    /\ \A e \in Evictors : ev[e].pc # "idle" => ev[e].b # b

\* Every action keeps the KV buffers frozen and in RAM.
LEMMA KvInvariance ==
  TypeOK /\ KvFrozen /\ [Next]_vars => KvFrozen'
<1> SUFFICES ASSUME TypeOK, KvFrozen, [Next]_vars PROVE KvFrozen'
  OBVIOUS
<1> USE DEF KvFrozen
<1>0. /\ work \subseteq Bufs /\ Kv \subseteq Bufs
      /\ \A e \in Evictors : ev[e].pc # "idle" => ev[e].b \in Bufs
      /\ \A m \in Importers : im[m].pc # "idle" => im[m].b \in Bufs
  BY EvictorMoves, ImporterMoves, TierAssumption DEF TypeOK
<1>6. ASSUME Failed PROVE KvFrozen'
  BY <1>6 DEF Failed
<1>1. ASSUME NEW b \in Bufs, Allocate(b) PROVE KvFrozen'
  <2>1. CASE Admit(b)
    BY <2>1, AdmitEffect, <1>0 DEF BufIs, EvIs, ImIs
  <2>2. ASSUME NEW c \in Bufs, AdmitEvicting(b, c) PROVE KvFrozen'
    <3>1. CASE Pinnable(c)
      BY <2>2, <3>1, AdmitEvictingEffect, <1>0 DEF BufIs, EvIs, ImIs, Eligible
    <3>2. CASE ~Pinnable(c)
      BY <2>2, <3>2, <1>6 DEF AdmitEvicting, Fail, Failed
    <3> QED BY <3>1, <3>2
  <2>3. CASE Spill(b)
    BY <2>3, SpillEffect, <1>0 DEF BufIs, EvIs, ImIs
  <2>4. CASE PinUser(b)
    BY <2>4, AdmitEffect, <1>0 DEF BufIs, EvIs, ImIs
  <2>5. CASE AddBuffer(b)
    <3>1. CASE buf[b].life = "t2"
      BY <2>5, <3>1, AddBuffer2, <1>0 DEF BufIs, EvIs, ImIs
    <3>2. CASE buf[b].life # "t2"
      BY <2>5, <3>2, AddBuffer3, <1>0 DEF BufIs, EvIs, ImIs
    <3> QED BY <3>1, <3>2
  <2>6. CASE Export(b)
    BY <2>6, ExportEffect, <1>0 DEF BufIs, EvIs, ImIs
  <2>7. CASE ExportFails(b)
    BY <2>7, ExportFailsEffect, <1>0 DEF BufIs, EvIs, ImIs
  <2>8. CASE Close(b)
    BY <2>8, CloseEffect, <1>0 DEF BufIs, EvIs, ImIs
  <2>9. CASE Release(b)
    BY <2>9, ReleaseEffect, <1>0 DEF BufIs, EvIs, ImIs, Referenced
  <2> QED BY <1>1, <2>1, <2>2, <2>3, <2>4, <2>5, <2>6, <2>7, <2>8, <2>9 DEF Allocate
<1>2. ASSUME NEW b \in Bufs, NEW a \in Advices, Madvise(b, a) PROVE KvFrozen'
  <2>1. CASE Referenced(b)
    BY <1>2, <2>1, AdviseEffect, <1>0 DEF BufIs, EvIs, ImIs
  <2>2. CASE ~Referenced(b)
    BY <1>2, <2>2, <1>6 DEF Madvise, Fail, Failed
  <2> QED BY <2>1, <2>2
<1>3. ASSUME NEW e \in Evictors, Evict(e) PROVE KvFrozen'
  <2>1. ASSUME NEW b \in Bufs, EvictChoose(e, b) PROVE KvFrozen'
    <3>1. CASE Referenced(b)
      BY <2>1, <3>1, ChooseEffect, <1>0 DEF BufIs, EvIs, ImIs
    <3>2. CASE ~Referenced(b)
      BY <2>1, <3>2, <1>6 DEF EvictChoose, Fail, Failed
    <3> QED BY <3>1, <3>2
  <2>2. CASE EvictAccount(e)
    BY <2>2, AccountEffect, <1>0 DEF BufIs, EvIs, ImIs
  <2>3. ASSUME NEW b \in Bufs, Sweep(e, b) PROVE KvFrozen'
    <3>1. CASE Pinnable(b)
      BY <2>3, <3>1, SweepEffect, <1>0 DEF BufIs, EvIs, ImIs, Eligible
    <3>2. CASE ~Pinnable(b)
      BY <2>3, <3>2, <1>6 DEF Sweep, Fail, Failed
    <3> QED BY <3>1, <3>2
  <2>4. ASSUME NEW b \in Bufs, WorkStart(e, b) PROVE KvFrozen'
    BY <2>4, WorkEffect, <1>0 DEF BufIs, EvIs, ImIs
  <2>5. CASE Reserve(e)
    BY <2>5, ReserveEffect, <1>0 DEF BufIs, EvIs, ImIs
  <2>6. CASE FileFull(e)
    BY <2>6, ToUndo, <1>0 DEF BufIs, EvIs, ImIs
  <2>7. CASE WriteFile(e)
    <3>1. CASE buf[ev[e].b].pages
      BY <2>7, <3>1, WriteEffect, <1>0 DEF BufIs, EvIs, ImIs
    <3>2. CASE ~buf[ev[e].b].pages
      BY <2>7, <3>2, <1>6 DEF WriteFile, Fail, Failed
    <3> QED BY <3>1, <3>2
  <2>8. CASE WriteFails(e)
    BY <2>8, WriteFailsEffect, <1>0 DEF BufIs, EvIs, ImIs
  <2>9. CASE CheckBusy(e)
    BY <2>9, ToUndo, <1>0 DEF BufIs, EvIs, ImIs
  <2>10. CASE CheckFree(e)
    BY <2>10, CheckFreeEffect, <1>0 DEF BufIs, EvIs, ImIs
  <2>11. CASE FreePages(e)
    <3>1. CASE buf[ev[e].b].pages
      BY <2>11, <3>1, FreeEffect, <1>0 DEF BufIs, EvIs, ImIs, Locked
    <3>2. CASE ~buf[ev[e].b].pages
      BY <2>11, <3>2, <1>6 DEF FreePages, Fail, Failed
    <3> QED BY <3>1, <3>2
  <2>12. CASE Undo(e)
    <3>1. CASE ~buf[ev[e].b].lru
      BY <2>12, <3>1, UndoEffect, <1>0 DEF BufIs, EvIs, ImIs
    <3>2. CASE buf[ev[e].b].lru
      BY <2>12, <3>2, <1>6 DEF Undo, Fail, Failed
    <3> QED BY <3>1, <3>2
  <2> QED BY <1>3, <2>1, <2>2, <2>3, <2>4, <2>5, <2>6, <2>7, <2>8, <2>9, <2>10, <2>11,
           <2>12 DEF Evict
<1>4. ASSUME NEW m \in Importers, Import(m) PROVE KvFrozen'
  <2>1. ASSUME NEW b \in Bufs, Attach(m, b) PROVE KvFrozen'
    BY <2>1, AttachEffect, <1>0 DEF BufIs, EvIs, ImIs
  <2>2. CASE MapLock(m)
    <3>1. CASE buf[im[m].b].ondisk \/ buf[im[m].b].pages
      BY <2>2, <3>1, LockEffect, <1>0 DEF BufIs, EvIs, ImIs, Locked
    <3>2. CASE ~(buf[im[m].b].ondisk \/ buf[im[m].b].pages)
      BY <2>2, <3>2, <1>6 DEF MapLock, Fail, Failed
    <3> QED BY <3>1, <3>2
  <2>3. CASE MapFails(m)
    BY <2>3, MapFailsEffect, <1>0 DEF BufIs, EvIs, ImIs
  <2>4. CASE PromoteRead(m)
    BY <2>4, ReadEffect, <1>0 DEF BufIs, EvIs, ImIs
  <2>5. CASE PromotePublish(m)
    BY <2>5, PublishEffect, <1>0 DEF BufIs, EvIs, ImIs
  <2>6. CASE PromoteAdd(m)
    <3>1. CASE ~buf[im[m].b].lru
      BY <2>6, <3>1, AddEffect, <1>0 DEF BufIs, EvIs, ImIs
    <3>2. CASE buf[im[m].b].lru
      BY <2>6, <3>2, <1>6 DEF PromoteAdd, Fail, Failed
    <3> QED BY <3>1, <3>2
  <2>7. CASE Mapped(m)
    BY <2>7, MappedEffect, <1>0 DEF BufIs, EvIs, ImIs
  <2>8. CASE Unmap(m)
    BY <2>8, MapFailsEffect, <1>0 DEF BufIs, EvIs, ImIs
  <2> QED BY <1>4, <2>1, <2>2, <2>3, <2>4, <2>5, <2>6, <2>7, <2>8 DEF Import
<1>5. CASE UNCHANGED vars
  BY <1>5 DEF vars
<1> QED BY <1>1, <1>2, <1>3, <1>4, <1>5 DEF Next

-----------------------------------------------------------------------------
(* Every region that an evictor may hand back has been taken. *)

\* The bump pointer moves with the threads that write.
LEMMA RegionsInvariance ==
  TypeOK /\ RegionsTaken /\ [Next]_vars => RegionsTaken'
<1> SUFFICES ASSUME TypeOK, RegionsTaken, [Next]_vars PROVE RegionsTaken'
  OBVIOUS
<1>0. IsFiniteSet(Writers) /\ Cardinality(Writers) \in Nat /\ next \in Nat
  <2>1. IsFiniteSet(Writers)
    BY TierAssumption, FS_Subset DEF Writers
  <2> QED BY <2>1, FS_CardinalityType DEF TypeOK
<1>7. ASSUME Writers' = Writers, next' = next PROVE RegionsTaken'
  BY <1>7 DEF RegionsTaken
<1>6. ASSUME Failed PROVE RegionsTaken'
  BY <1>6, <1>7 DEF Failed, Writers
<1>1. ASSUME NEW b \in Bufs, Allocate(b) PROVE RegionsTaken'
  <2>1. CASE Admit(b)
    BY <2>1, AdmitEffect, <1>7 DEF EvIs, Writers
  <2>2. ASSUME NEW c \in Bufs, AdmitEvicting(b, c) PROVE RegionsTaken'
    <3>1. CASE Pinnable(c)
      BY <2>2, <3>1, AdmitEvictingEffect, <1>7 DEF EvIs, Writers
    <3>2. CASE ~Pinnable(c)
      BY <2>2, <3>2, <1>6 DEF AdmitEvicting, Fail, Failed
    <3> QED BY <3>1, <3>2
  <2>3. CASE Spill(b)
    BY <2>3, SpillEffect, <1>7 DEF EvIs, Writers
  <2>4. CASE PinUser(b)
    BY <2>4, AdmitEffect, <1>7 DEF EvIs, Writers
  <2>5. CASE AddBuffer(b)
    <3>1. CASE buf[b].life = "t2"
      BY <2>5, <3>1, AddBuffer2, <1>7 DEF EvIs, Writers
    <3>2. CASE buf[b].life # "t2"
      BY <2>5, <3>2, AddBuffer3, <1>7 DEF EvIs, Writers
    <3> QED BY <3>1, <3>2
  <2>6. CASE Export(b)
    BY <2>6, ExportEffect, <1>7 DEF EvIs, Writers
  <2>7. CASE ExportFails(b)
    BY <2>7, ExportFailsEffect, <1>7 DEF EvIs, Writers
  <2>8. CASE Close(b)
    BY <2>8, CloseEffect, <1>7 DEF EvIs, Writers
  <2>9. CASE Release(b)
    BY <2>9, ReleaseEffect, <1>7 DEF EvIs, Writers
  <2> QED BY <1>1, <2>1, <2>2, <2>3, <2>4, <2>5, <2>6, <2>7, <2>8, <2>9 DEF Allocate
<1>2. ASSUME NEW b \in Bufs, NEW a \in Advices, Madvise(b, a) PROVE RegionsTaken'
  <2>1. CASE Referenced(b)
    BY <1>2, <2>1, AdviseEffect, <1>7 DEF EvIs, Writers
  <2>2. CASE ~Referenced(b)
    BY <1>2, <2>2, <1>6 DEF Madvise, Fail, Failed
  <2> QED BY <2>1, <2>2
<1>3. ASSUME NEW e \in Evictors, Evict(e) PROVE RegionsTaken'
  <2>1. ASSUME NEW b \in Bufs, EvictChoose(e, b) PROVE RegionsTaken'
    <3>1. CASE Referenced(b)
      BY <2>1, <3>1, ChooseEffect, <1>7 DEF EvIs, Writers
    <3>2. CASE ~Referenced(b)
      BY <2>1, <3>2, <1>6 DEF EvictChoose, Fail, Failed
    <3> QED BY <3>1, <3>2
  <2>2. CASE EvictAccount(e)
    <3>1. ev[e].pc # "write" /\ EvIs(e, "staged", ev[e].b, ev[e].off) /\ next' = next
      BY <2>2, AccountEffect
    <3> QED BY <3>1, <1>7 DEF EvIs, Writers
  <2>3. ASSUME NEW b \in Bufs, Sweep(e, b) PROVE RegionsTaken'
    <3>1. CASE Pinnable(b)
      <4>1. ev[e].pc # "write" /\ EvIs(e, "staged", b, 0) /\ next' = next
        BY <2>3, <3>1, SweepEffect
      <4> QED BY <4>1, <1>7 DEF EvIs, Writers
    <3>2. CASE ~Pinnable(b)
      BY <2>3, <3>2, <1>6 DEF Sweep, Fail, Failed
    <3> QED BY <3>1, <3>2
  <2>4. ASSUME NEW b \in Bufs, WorkStart(e, b) PROVE RegionsTaken'
    BY <2>4, WorkEffect, <1>7 DEF EvIs, Writers
  <2>5. CASE Reserve(e)
    <3>1. Writers' = Writers \cup {e} /\ e \notin Writers
      BY <2>5, ReserveEffect DEF EvIs, Writers
    <3>2. next' = next + 1
      BY <2>5 DEF Reserve
    <3>3. Cardinality(Writers') = Cardinality(Writers) + 1
      BY <1>0, <3>1, FS_AddElement
    <3> QED BY <1>0, <3>2, <3>3 DEF RegionsTaken
  <2>6. CASE FileFull(e)
    BY <2>6, ToUndo, <1>7 DEF EvIs, Writers
  <2>7. CASE WriteFile(e)
    <3>1. CASE buf[ev[e].b].pages
      <4>1. Writers' = Writers \ {e} /\ e \in Writers /\ next' = next
        BY <2>7, <3>1, WriteEffect DEF EvIs, Writers
      <4>2. Cardinality(Writers') = Cardinality(Writers) - 1
        BY <1>0, <4>1, FS_RemoveElement
      <4> QED BY <1>0, <4>1, <4>2 DEF RegionsTaken
    <3>2. CASE ~buf[ev[e].b].pages
      BY <2>7, <3>2, <1>6 DEF WriteFile, Fail, Failed
    <3> QED BY <3>1, <3>2
  <2>8. CASE WriteFails(e)
    <3>1. Writers' = Writers \ {e} /\ e \in Writers
      BY <2>8, WriteFailsEffect DEF EvIs, Writers
    <3>2. next' = next - 1
      BY <2>8 DEF WriteFails
    <3>3. Cardinality(Writers') = Cardinality(Writers) - 1
      BY <1>0, <3>1, FS_RemoveElement
    <3> QED BY <1>0, <3>2, <3>3 DEF RegionsTaken
  <2>9. CASE CheckBusy(e)
    BY <2>9, ToUndo, <1>7 DEF EvIs, Writers
  <2>10. CASE CheckFree(e)
    BY <2>10, CheckFreeEffect, <1>7 DEF EvIs, Writers
  <2>11. CASE FreePages(e)
    <3>1. CASE buf[ev[e].b].pages
      BY <2>11, <3>1, FreeEffect, <1>7 DEF EvIs, Writers
    <3>2. CASE ~buf[ev[e].b].pages
      BY <2>11, <3>2, <1>6 DEF FreePages, Fail, Failed
    <3> QED BY <3>1, <3>2
  <2>12. CASE Undo(e)
    <3>1. CASE ~buf[ev[e].b].lru
      BY <2>12, <3>1, UndoEffect, <1>7 DEF EvIs, Writers
    <3>2. CASE buf[ev[e].b].lru
      BY <2>12, <3>2, <1>6 DEF Undo, Fail, Failed
    <3> QED BY <3>1, <3>2
  <2> QED BY <1>3, <2>1, <2>2, <2>3, <2>4, <2>5, <2>6, <2>7, <2>8, <2>9, <2>10, <2>11,
           <2>12 DEF Evict
<1>4. ASSUME NEW m \in Importers, Import(m) PROVE RegionsTaken'
  <2>1. ASSUME NEW b \in Bufs, Attach(m, b) PROVE RegionsTaken'
    BY <2>1, AttachEffect, <1>7 DEF EvIs, Writers
  <2>2. CASE MapLock(m)
    <3>1. CASE buf[im[m].b].ondisk \/ buf[im[m].b].pages
      BY <2>2, <3>1, LockEffect, <1>7 DEF EvIs, Writers
    <3>2. CASE ~(buf[im[m].b].ondisk \/ buf[im[m].b].pages)
      BY <2>2, <3>2, <1>6 DEF MapLock, Fail, Failed
    <3> QED BY <3>1, <3>2
  <2>3. CASE MapFails(m)
    BY <2>3, MapFailsEffect, <1>7 DEF EvIs, Writers
  <2>4. CASE PromoteRead(m)
    BY <2>4, ReadEffect, <1>7 DEF EvIs, Writers
  <2>5. CASE PromotePublish(m)
    BY <2>5, PublishEffect, <1>7 DEF EvIs, Writers
  <2>6. CASE PromoteAdd(m)
    <3>1. CASE ~buf[im[m].b].lru
      BY <2>6, <3>1, AddEffect, <1>7 DEF EvIs, Writers
    <3>2. CASE buf[im[m].b].lru
      BY <2>6, <3>2, <1>6 DEF PromoteAdd, Fail, Failed
    <3> QED BY <3>1, <3>2
  <2>7. CASE Mapped(m)
    BY <2>7, MappedEffect, <1>7 DEF EvIs, Writers
  <2>8. CASE Unmap(m)
    BY <2>8, MapFailsEffect, <1>7 DEF EvIs, Writers
  <2> QED BY <1>4, <2>1, <2>2, <2>3, <2>4, <2>5, <2>6, <2>7, <2>8 DEF Import
<1>5. CASE UNCHANGED vars
  BY <1>5, <1>7 DEF vars, Writers
<1> QED BY <1>1, <1>2, <1>3, <1>4, <1>5 DEF Next

-----------------------------------------------------------------------------
(* The accounts: what a step does to the counters it does to the buffers. *)

\* The KV counter when b enters tier 2 or leaves it.
LEMMA KvCounts ==
  ASSUME TypeOK, AccountsMatch, NEW b \in Bufs
  PROVE  /\ b \in Counted(2) => KvLess(b) = Cardinality((Counted(2) \ {b}) \cap Kv)
         /\ b \notin Counted(2) =>
              kvt2 + KvSize(b) = Cardinality((Counted(2) \cup {b}) \cap Kv)
<1> DEFINE K == Counted(2) \cap Kv
<1>1. IsFiniteSet(K) /\ kvt2 = Cardinality(K) /\ kvt2 \in Nat
  BY TierAssumption, FS_Subset DEF AccountsMatch, Counted, TypeOK
<1>2. CASE b \in Kv
  <2>1. ASSUME b \in Counted(2)
        PROVE KvLess(b) = Cardinality((Counted(2) \ {b}) \cap Kv)
    <3>1. (Counted(2) \ {b}) \cap Kv = K \ {b} /\ b \in K
      BY <1>2, <2>1
    <3>2. Cardinality(K \ {b}) = kvt2 - 1 /\ Cardinality(K \ {b}) \in Nat
      BY <1>1, <3>1, FS_RemoveElement, FS_CardinalityType
    <3>3. KvLess(b) = kvt2 - 1
      BY <1>1, <1>2, <3>2 DEF KvLess, KvSize
    <3> QED BY <3>1, <3>2, <3>3
  <2>2. ASSUME b \notin Counted(2)
        PROVE kvt2 + KvSize(b) = Cardinality((Counted(2) \cup {b}) \cap Kv)
    <3>1. (Counted(2) \cup {b}) \cap Kv = K \cup {b} /\ b \notin K
      BY <1>2, <2>2
    <3>2. Cardinality(K \cup {b}) = kvt2 + 1
      BY <1>1, <3>1, FS_AddElement
    <3> QED BY <1>2, <3>1, <3>2 DEF KvSize
  <2> QED BY <2>1, <2>2
<1>3. CASE b \notin Kv
  <2>1. (Counted(2) \ {b}) \cap Kv = K /\ (Counted(2) \cup {b}) \cap Kv = K
    BY <1>3
  <2>2. KvLess(b) = kvt2 /\ kvt2 + KvSize(b) = kvt2
    BY <1>1, <1>3 DEF KvLess, KvSize
  <2> QED BY <1>1, <2>1, <2>2
<1> QED BY <1>2, <1>3

\* The tiers are finite and disjoint.
LEMMA CountedFinite ==
  /\ IsFiniteSet(Counted(2)) /\ IsFiniteSet(Counted(3))
  /\ Cardinality(Counted(2)) \in Nat /\ Cardinality(Counted(3)) \in Nat
<1>1. Counted(2) \subseteq Bufs /\ Counted(3) \subseteq Bufs
  BY DEF Counted
<1> QED BY <1>1, TierAssumption, FS_Subset, FS_CardinalityType

\* Nothing moves.
LEMMA CountsStay ==
  ASSUME AccountsMatch, \A t \in {2, 3} : Counted(t)' = Counted(t),
         UNCHANGED <<pool, nvme, kvt2>>
  PROVE  AccountsMatch'
BY DEF AccountsMatch

\* A buffer is staged.
LEMMA CountsDown ==
  ASSUME TypeOK, AccountsMatch, NEW b \in Bufs, b \in Counted(2), b \notin Counted(3),
         Counted(2)' = Counted(2) \ {b}, Counted(3)' = Counted(3) \cup {b},
         pool' = pool - 1, nvme' = nvme + 1,
         kvt2' = KvLess(b)
  PROVE  AccountsMatch'
<1>1. pool' = Cardinality(Counted(2)')
  BY CountedFinite, FS_RemoveElement DEF AccountsMatch
<1>2. nvme' = Cardinality(Counted(3)')
  BY CountedFinite, FS_AddElement DEF AccountsMatch
<1>3. kvt2' = Cardinality(Counted(2)' \cap Kv)
  BY KvCounts
<1> QED BY <1>1, <1>2, <1>3 DEF AccountsMatch

\* A buffer returns to tier 2.
LEMMA CountsUp ==
  ASSUME TypeOK, AccountsMatch, NEW b \in Bufs, b \in Counted(3), b \notin Counted(2),
         Counted(2)' = Counted(2) \cup {b}, Counted(3)' = Counted(3) \ {b},
         pool' = pool + 1, nvme' = nvme - 1, kvt2' = kvt2 + KvSize(b)
  PROVE  AccountsMatch'
<1>1. pool' = Cardinality(Counted(2)')
  BY CountedFinite, FS_AddElement DEF AccountsMatch
<1>2. nvme' = Cardinality(Counted(3)')
  BY CountedFinite, FS_RemoveElement DEF AccountsMatch
<1>3. kvt2' = Cardinality(Counted(2)' \cap Kv)
  BY KvCounts
<1> QED BY <1>1, <1>2, <1>3 DEF AccountsMatch

\* A buffer is new in a tier.
LEMMA CountsNew ==
  ASSUME TypeOK, AccountsMatch, NEW b \in Bufs, b \notin Counted(2), b \notin Counted(3),
         \/ /\ Counted(2)' = Counted(2) \cup {b} /\ Counted(3)' = Counted(3)
            /\ pool' = pool + 1 /\ nvme' = nvme /\ kvt2' = kvt2 + KvSize(b)
         \/ /\ Counted(2)' = Counted(2) /\ Counted(3)' = Counted(3) \cup {b}
            /\ pool' = pool /\ nvme' = nvme + 1 /\ kvt2' = kvt2
  PROVE  AccountsMatch'
<1>1. CASE /\ Counted(2)' = Counted(2) \cup {b} /\ Counted(3)' = Counted(3)
           /\ pool' = pool + 1 /\ nvme' = nvme /\ kvt2' = kvt2 + KvSize(b)
  <2>1. pool' = Cardinality(Counted(2)')
    BY <1>1, CountedFinite, FS_AddElement DEF AccountsMatch
  <2>2. kvt2' = Cardinality(Counted(2)' \cap Kv)
    BY <1>1, KvCounts
  <2> QED BY <1>1, <2>1, <2>2 DEF AccountsMatch
<1>2. CASE /\ Counted(2)' = Counted(2) /\ Counted(3)' = Counted(3) \cup {b}
           /\ pool' = pool /\ nvme' = nvme + 1 /\ kvt2' = kvt2
  <2>1. nvme' = Cardinality(Counted(3)')
    BY <1>2, CountedFinite, FS_AddElement DEF AccountsMatch
  <2> QED BY <1>2, <2>1 DEF AccountsMatch
<1> QED BY <1>1, <1>2

\* A buffer is gone.
LEMMA CountsGone ==
  ASSUME TypeOK, AccountsMatch, NEW b \in Bufs, buf[b].life \in {"raw", "live"}, Uncount(b),
         \A t \in {2, 3} : Counted(t)' = Counted(t) \ {b}
  PROVE  AccountsMatch'
<1>1. buf[b].tier \in {2, 3}
  BY DEF TypeOK, Buffer
<1>2. CASE buf[b].tier = 3
  <2>1. b \in Counted(3) /\ b \notin Counted(2)
    BY <1>2 DEF Counted
  <2>2. nvme' = nvme - 1 /\ pool' = pool /\ kvt2' = kvt2
    BY <1>2 DEF Uncount
  <2>3. Counted(2)' = Counted(2)
    BY <2>1
  <2>4. nvme' = Cardinality(Counted(3)')
    BY <2>1, <2>2, CountedFinite, FS_RemoveElement DEF AccountsMatch
  <2> QED BY <2>2, <2>3, <2>4 DEF AccountsMatch
<1>3. CASE buf[b].tier = 2
  <2>1. b \in Counted(2) /\ b \notin Counted(3)
    BY <1>3 DEF Counted
  <2>2. pool' = pool - 1 /\ nvme' = nvme /\ kvt2' = KvLess(b)
    BY <1>3 DEF Uncount
  <2>3. Counted(3)' = Counted(3)
    BY <2>1
  <2>4. pool' = Cardinality(Counted(2)')
    BY <2>1, <2>2, CountedFinite, FS_RemoveElement DEF AccountsMatch
  <2>5. kvt2' = Cardinality(Counted(2)' \cap Kv)
    BY <2>1, <2>2, KvCounts
  <2> QED BY <2>2, <2>3, <2>4, <2>5 DEF AccountsMatch
<1> QED BY <1>1, <1>2, <1>3

\* Every action keeps the books.
LEMMA AccountsInvariance ==
  ASSUME ~Overtaken
  PROVE  TypeOK /\ OwnInv /\ AccountsMatch /\ [Next]_vars => AccountsMatch'
<1> SUFFICES ASSUME TypeOK, OwnInv, AccountsMatch, [Next]_vars PROVE AccountsMatch'
  OBVIOUS
<1>0. /\ work \subseteq Bufs
      /\ \A e \in Evictors : ev[e].pc # "idle" => ev[e].b \in Bufs
      /\ \A m \in Importers : im[m].pc # "idle" => im[m].b \in Bufs
  BY EvictorMoves, ImporterMoves DEF TypeOK
<1>7. ASSUME \A c \in Bufs :
               /\ buf'[c].life \in {"raw", "live"} <=> buf[c].life \in {"raw", "live"}
               /\ buf'[c].tier = buf[c].tier,
             UNCHANGED <<pool, nvme, kvt2>>
      PROVE  AccountsMatch'
  <2>1. \A t \in {2, 3} : Counted(t)' = Counted(t)
    BY <1>7 DEF Counted
  <2> QED BY <1>7, <2>1, CountsStay
<1>8. ASSUME NEW c \in Bufs \ Kv PROVE KvLess(c) = kvt2
  BY DEF KvLess, KvSize, TypeOK
<1>6. ASSUME Failed PROVE AccountsMatch'
  BY <1>6, <1>7 DEF Failed
<1>1. ASSUME NEW b \in Bufs, Allocate(b) PROVE AccountsMatch'
  <2>1. CASE Admit(b)
    BY <2>1, AdmitEffect, <1>7 DEF BufIs
  <2>2. ASSUME NEW c \in Bufs, AdmitEvicting(b, c) PROVE AccountsMatch'
    <3>1. CASE Pinnable(c)
      <4>1. c \in Bufs /\ c \in Counted(2) /\ c \notin Counted(3)
        BY <2>2, <3>1, <1>0 DEF AdmitEvicting, Eligible, At, Counted, Pinnable
      <4>2. Counted(2)' = Counted(2) \ {c} /\ Counted(3)' = Counted(3) \cup {c}
        BY <2>2, <3>1, <4>1, AdmitEvictingEffect DEF Counted
      <4>3. pool' = pool - 1 /\ nvme' = nvme + 1 /\ kvt2' = KvLess(c)
        BY <2>2, <3>1, <3>1, <1>8 DEF AdmitEvicting, Eligible
      <4> QED BY <4>1, <4>2, <4>3, CountsDown
    <3>2. CASE ~Pinnable(c)
      BY <2>2, <3>2, <1>6 DEF AdmitEvicting, Fail, Failed
    <3> QED BY <3>1, <3>2
  <2>3. CASE Spill(b)
    BY <2>3, SpillEffect, <1>7 DEF BufIs
  <2>4. CASE PinUser(b)
    BY <2>4, AdmitEffect, <1>7 DEF BufIs
  <2>5. CASE AddBuffer(b)
    <3>1. b \notin Counted(2) /\ b \notin Counted(3)
      BY <2>5 DEF AddBuffer, Counted
    <3>2. CASE buf[b].life = "t2"
      <4>1. Counted(2)' = Counted(2) \cup {b} /\ Counted(3)' = Counted(3)
        BY <2>5, <3>1, <3>2, AddBuffer2 DEF Counted, BufIs
      <4>2. pool' = pool + 1 /\ nvme' = nvme /\ kvt2' = kvt2 + KvSize(b)
        BY <2>5, <3>2 DEF AddBuffer
      <4> QED BY <3>1, <4>1, <4>2, CountsNew
    <3>3. CASE buf[b].life # "t2"
      <4>1. Counted(2)' = Counted(2) /\ Counted(3)' = Counted(3) \cup {b}
        BY <2>5, <3>1, <3>3, AddBuffer3 DEF Counted, BufIs
      <4>2. pool' = pool /\ nvme' = nvme + 1 /\ kvt2' = kvt2
        BY <2>5, <3>3 DEF AddBuffer
      <4> QED BY <3>1, <4>1, <4>2, CountsNew
    <3> QED BY <3>2, <3>3
  <2>6. CASE Export(b)
    BY <2>6, ExportEffect, <1>7 DEF BufIs
  <2>7. CASE ExportFails(b)
    <3>1. \A t \in {2, 3} : Counted(t)' = Counted(t) \ {b}
      BY <2>7, ExportFailsEffect DEF Counted, BufIs
    <3>2. buf[b].life \in {"raw", "live"} /\ Uncount(b)
      BY <2>7 DEF ExportFails
    <3> QED BY <3>1, <3>2, CountsGone
  <2>8. CASE Close(b)
    BY <2>8, CloseEffect, <1>7 DEF BufIs
  <2>9. CASE Release(b)
    <3>1. \A t \in {2, 3} : Counted(t)' = Counted(t) \ {b}
      BY <2>9, ReleaseEffect DEF Counted, BufIs
    <3>2. buf[b].life \in {"raw", "live"} /\ Uncount(b)
      BY <2>9 DEF Release
    <3> QED BY <3>1, <3>2, CountsGone
  <2> QED BY <1>1, <2>1, <2>2, <2>3, <2>4, <2>5, <2>6, <2>7, <2>8, <2>9 DEF Allocate
<1>2. ASSUME NEW b \in Bufs, NEW a \in Advices, Madvise(b, a) PROVE AccountsMatch'
  <2>1. CASE Referenced(b)
    BY <1>2, <2>1, AdviseEffect, <1>7 DEF BufIs
  <2>2. CASE ~Referenced(b)
    BY <1>2, <2>2, <1>6 DEF Madvise, Fail, Failed
  <2> QED BY <2>1, <2>2
<1>3. ASSUME NEW e \in Evictors, Evict(e) PROVE AccountsMatch'
  <2>1. ASSUME NEW b \in Bufs, EvictChoose(e, b) PROVE AccountsMatch'
    <3>1. CASE Referenced(b)
      BY <2>1, <3>1, ChooseEffect, <1>7 DEF BufIs
    <3>2. CASE ~Referenced(b)
      BY <2>1, <3>2, <1>6 DEF EvictChoose, Fail, Failed
    <3> QED BY <3>1, <3>2
  <2>2. CASE EvictAccount(e)
    <3>1. ev[e].b \in Bufs /\ ev[e].b \in Counted(2) /\ ev[e].b \notin Counted(3)
      BY <2>2, <1>0 DEF EvictAccount, At, Counted, OwnInv, WorkedOnIsLive
    <3>2. Counted(2)' = Counted(2) \ {ev[e].b} /\ Counted(3)' = Counted(3) \cup {ev[e].b}
      BY <2>2, <3>1, AccountEffect DEF Counted, BufIs
    <3>3. pool' = pool - 1 /\ nvme' = nvme + 1 /\ kvt2' = KvLess(ev[e].b)
      BY <2>2 DEF EvictAccount
    <3> QED BY <3>1, <3>2, <3>3, CountsDown
  <2>3. ASSUME NEW b \in Bufs, Sweep(e, b) PROVE AccountsMatch'
    <3>1. CASE Pinnable(b)
      <4>1. b \in Bufs /\ b \in Counted(2) /\ b \notin Counted(3)
        BY <2>3, <3>1, <1>0 DEF Sweep, Eligible, At, Counted, Pinnable
      <4>2. Counted(2)' = Counted(2) \ {b} /\ Counted(3)' = Counted(3) \cup {b}
        BY <2>3, <3>1, <4>1, SweepEffect DEF Counted, BufIs
      <4>3. pool' = pool - 1 /\ nvme' = nvme + 1 /\ kvt2' = KvLess(b)
        BY <2>3, <3>1, <3>1, <1>8 DEF Sweep, Eligible
      <4> QED BY <4>1, <4>2, <4>3, CountsDown
    <3>2. CASE ~Pinnable(b)
      BY <2>3, <3>2, <1>6 DEF Sweep, Fail, Failed
    <3> QED BY <3>1, <3>2
  <2>4. ASSUME NEW b \in Bufs, WorkStart(e, b) PROVE AccountsMatch'
    BY <2>4, WorkEffect, <1>7 DEF BufIs
  <2>5. CASE Reserve(e)
    BY <2>5, ReserveEffect, <1>7 DEF BufIs
  <2>6. CASE FileFull(e)
    BY <2>6, ToUndo, <1>7 DEF BufIs
  <2>7. CASE WriteFile(e)
    <3>1. CASE buf[ev[e].b].pages
      BY <2>7, <3>1, WriteEffect, <1>7 DEF BufIs
    <3>2. CASE ~buf[ev[e].b].pages
      BY <2>7, <3>2, <1>6 DEF WriteFile, Fail, Failed
    <3> QED BY <3>1, <3>2
  <2>8. CASE WriteFails(e)
    BY <2>8, WriteFailsEffect, <1>7 DEF BufIs
  <2>9. CASE CheckBusy(e)
    BY <2>9, ToUndo, <1>7 DEF BufIs
  <2>10. CASE CheckFree(e)
    BY <2>10, CheckFreeEffect, <1>7 DEF BufIs
  <2>11. CASE FreePages(e)
    <3>1. CASE buf[ev[e].b].pages
      BY <2>11, <3>1, FreeEffect, <1>7 DEF BufIs
    <3>2. CASE ~buf[ev[e].b].pages
      BY <2>11, <3>2, <1>6 DEF FreePages, Fail, Failed
    <3> QED BY <3>1, <3>2
  <2>12. CASE Undo(e)
    <3>1. CASE ~buf[ev[e].b].lru
      <4>1. ev[e].b \in Bufs /\ ev[e].b \in Counted(3) /\ ev[e].b \notin Counted(2)
        BY <2>12, <3>1, <1>0 DEF Undo, At, Counted, OwnInv, WorkedOnIsLive, PagesSomewhere,
           StagedOnce,
                 PromotedOnce, Owners
      <4>2. Counted(2)' = Counted(2) \cup {ev[e].b} /\ Counted(3)' = Counted(3) \ {ev[e].b}
        BY <2>12, <3>1, <4>1, UndoEffect DEF Counted, BufIs
      <4>3. pool' = pool + 1 /\ nvme' = nvme - 1 /\ kvt2' = kvt2 + KvSize(ev[e].b)
        BY <2>12, <3>1 DEF Undo
      <4> QED BY <4>1, <4>2, <4>3, CountsUp
    <3>2. CASE buf[ev[e].b].lru
      BY <2>12, <3>2, <1>6 DEF Undo, Fail, Failed
    <3> QED BY <3>1, <3>2
  <2> QED BY <1>3, <2>1, <2>2, <2>3, <2>4, <2>5, <2>6, <2>7, <2>8, <2>9, <2>10, <2>11,
           <2>12 DEF Evict
<1>4. ASSUME NEW m \in Importers, Import(m) PROVE AccountsMatch'
  <2>1. ASSUME NEW b \in Bufs, Attach(m, b) PROVE AccountsMatch'
    BY <2>1, AttachEffect, <1>7 DEF BufIs
  <2>2. CASE MapLock(m)
    <3>1. CASE buf[im[m].b].ondisk \/ buf[im[m].b].pages
      BY <2>2, <3>1, LockEffect, <1>7 DEF BufIs
    <3>2. CASE ~(buf[im[m].b].ondisk \/ buf[im[m].b].pages)
      BY <2>2, <3>2, <1>6 DEF MapLock, Fail, Failed
    <3> QED BY <3>1, <3>2
  <2>3. CASE MapFails(m)
    BY <2>3, MapFailsEffect, <1>7 DEF BufIs
  <2>4. CASE PromoteRead(m)
    BY <2>4, ReadEffect, <1>7 DEF BufIs
  <2>5. CASE PromotePublish(m)
    <3>1. im[m].b \in Bufs /\ im[m].b \in Counted(3) /\ im[m].b \notin Counted(2)
      BY <2>5, <1>0 DEF PromotePublish, At, Counted, OwnInv, WorkedOnIsLive,
         PagesSomewhere, StagedOnce,
               PromotedOnce, Owners
    <3>2. Counted(2)' = Counted(2) \cup {im[m].b} /\ Counted(3)' = Counted(3) \ {im[m].b}
      BY <2>5, <3>1, PublishEffect DEF Counted, BufIs
    <3>3. pool' = pool + 1 /\ nvme' = nvme - 1 /\ kvt2' = kvt2 + KvSize(im[m].b)
      BY <2>5 DEF PromotePublish
    <3> QED BY <3>1, <3>2, <3>3, CountsUp
  <2>6. CASE PromoteAdd(m)
    <3>1. CASE ~buf[im[m].b].lru
      BY <2>6, <3>1, AddEffect, <1>7 DEF BufIs
    <3>2. CASE buf[im[m].b].lru
      BY <2>6, <3>2, <1>6 DEF PromoteAdd, Fail, Failed
    <3> QED BY <3>1, <3>2
  <2>7. CASE Mapped(m)
    BY <2>7, MappedEffect, <1>7 DEF BufIs
  <2>8. CASE Unmap(m)
    BY <2>8, MapFailsEffect, <1>7 DEF BufIs
  <2> QED BY <1>4, <2>1, <2>2, <2>3, <2>4, <2>5, <2>6, <2>7, <2>8 DEF Import
<1>5. CASE UNCHANGED vars
  BY <1>5, <1>7 DEF vars
<1> QED BY <1>1, <1>2, <1>3, <1>4, <1>5 DEF Next

-----------------------------------------------------------------------------
(* The regions of the file. *)

InFile == {"write", "check", "free"}

\* What lies in the file lies below the bump pointer, in a region of its own; what has
\* been written and not read back is there.
RegionsKept ==
  /\ \A b \in Bufs : buf[b].ondisk => buf[b].off < next
  /\ \A b \in Bufs : buf[b].ondisk /\ ~buf[b].pages =>
       buf[b].off \in DOMAIN file /\ file[buf[b].off] = b
  /\ \A e \in Evictors : ev[e].pc \in InFile => ev[e].off \in Nat /\ ev[e].off < next
  /\ \A e \in Evictors : ev[e].pc \in {"check", "free"} =>
       ev[e].off \in DOMAIN file /\ file[ev[e].off] = ev[e].b
  /\ \A d, e \in Evictors :
       ev[d].pc \in InFile /\ ev[e].pc \in InFile /\ ev[d].off = ev[e].off => d = e
  /\ \A b \in Bufs, e \in Evictors :
       buf[b].ondisk /\ ev[e].pc \in InFile => ev[e].off # buf[b].off

\* Every action keeps them, if only the last to have reserved gives its region back.
LEMMA RegionsKeptInvariance ==
  ASSUME ~Overtaken, Failing # "any"
  PROVE  TypeOK /\ OwnInv /\ RegionsKept /\ [Next]_vars => RegionsKept'
<1> SUFFICES ASSUME TypeOK, OwnInv, RegionsKept, [Next]_vars PROVE RegionsKept'
  OBVIOUS
<1> USE DEF RegionsKept, InFile
<1>0. /\ work \subseteq Bufs /\ next \in Nat
      /\ \A e \in Evictors : ev[e].pc # "idle" => ev[e].b \in Bufs /\ ev[e].off \in Nat
      /\ \A m \in Importers : im[m].pc # "idle" => im[m].b \in Bufs
      /\ \A b \in Bufs : buf[b].off \in Nat
  BY EvictorMoves, ImporterMoves DEF TypeOK, Buffer
<1>6. ASSUME Failed PROVE RegionsKept'
  BY <1>6 DEF Failed
<1>1. ASSUME NEW b \in Bufs, Allocate(b) PROVE RegionsKept'
  <2>1. CASE Admit(b)
    BY <2>1, AdmitEffect, <1>0 DEF BufIs, EvIs, ImIs
  <2>2. ASSUME NEW c \in Bufs, AdmitEvicting(b, c) PROVE RegionsKept'
    <3>1. CASE Pinnable(c)
      BY <2>2, <3>1, AdmitEvictingEffect, <1>0 DEF BufIs, EvIs, ImIs, Eligible
    <3>2. CASE ~Pinnable(c)
      BY <2>2, <3>2, <1>6 DEF AdmitEvicting, Fail, Failed
    <3> QED BY <3>1, <3>2
  <2>3. CASE Spill(b)
    BY <2>3, SpillEffect, <1>0 DEF BufIs, EvIs, ImIs
  <2>4. CASE PinUser(b)
    BY <2>4, AdmitEffect, <1>0 DEF BufIs, EvIs, ImIs
  <2>5. CASE AddBuffer(b)
    <3>1. CASE buf[b].life = "t2"
      BY <2>5, <3>1, AddBuffer2, <1>0 DEF BufIs, EvIs, ImIs
    <3>2. CASE buf[b].life # "t2"
      BY <2>5, <3>2, AddBuffer3, <1>0 DEF BufIs, EvIs, ImIs
    <3> QED BY <3>1, <3>2
  <2>6. CASE Export(b)
    BY <2>6, ExportEffect, <1>0 DEF BufIs, EvIs, ImIs
  <2>7. CASE ExportFails(b)
    BY <2>7, ExportFailsEffect, <1>0 DEF BufIs, EvIs, ImIs
  <2>8. CASE Close(b)
    BY <2>8, CloseEffect, <1>0 DEF BufIs, EvIs, ImIs
  <2>9. CASE Release(b)
    <3>1. CASE buf[b].ondisk
      <4>1. ~buf[b].pages
        BY <2>9, <3>1 DEF Release, Referenced, OwnInv, ReadBackByOne
      <4>2. file' = [file EXCEPT ![buf[b].off] = NoOne]
        BY <2>9, <3>1 DEF Release
      <4>3. \A i \in DOMAIN file : i # buf[b].off => file'[i] = file[i]
        BY <4>2
      <4>4. DOMAIN file' = DOMAIN file
        BY <4>2
      <4>5. file[buf[b].off] = b
        BY <3>1, <4>1
      <4> QED BY <2>9, <4>3, <4>4, <4>5, <3>1, ReleaseEffect, <1>0 DEF BufIs
    <3>2. CASE ~buf[b].ondisk
      <4>1. file' = file
        BY <2>9, <3>2 DEF Release
      <4> QED BY <2>9, <4>1, ReleaseEffect, <1>0 DEF BufIs
    <3> QED BY <3>1, <3>2
  <2> QED BY <1>1, <2>1, <2>2, <2>3, <2>4, <2>5, <2>6, <2>7, <2>8, <2>9 DEF Allocate
<1>2. ASSUME NEW b \in Bufs, NEW a \in Advices, Madvise(b, a) PROVE RegionsKept'
  <2>1. CASE Referenced(b)
    BY <1>2, <2>1, AdviseEffect, <1>0 DEF BufIs, EvIs, ImIs
  <2>2. CASE ~Referenced(b)
    BY <1>2, <2>2, <1>6 DEF Madvise, Fail, Failed
  <2> QED BY <2>1, <2>2
<1>3. ASSUME NEW e \in Evictors, Evict(e) PROVE RegionsKept'
  <2>1. ASSUME NEW b \in Bufs, EvictChoose(e, b) PROVE RegionsKept'
    <3>1. CASE Referenced(b)
      BY <2>1, <3>1, ChooseEffect, <1>0 DEF BufIs, EvIs, ImIs
    <3>2. CASE ~Referenced(b)
      BY <2>1, <3>2, <1>6 DEF EvictChoose, Fail, Failed
    <3> QED BY <3>1, <3>2
  <2>2. CASE EvictAccount(e)
    BY <2>2, AccountEffect, <1>0 DEF BufIs, EvIs, ImIs
  <2>3. ASSUME NEW b \in Bufs, Sweep(e, b) PROVE RegionsKept'
    <3>1. CASE Pinnable(b)
      BY <2>3, <3>1, SweepEffect, <1>0 DEF BufIs, EvIs, ImIs, Eligible
    <3>2. CASE ~Pinnable(b)
      BY <2>3, <3>2, <1>6 DEF Sweep, Fail, Failed
    <3> QED BY <3>1, <3>2
  <2>4. ASSUME NEW b \in Bufs, WorkStart(e, b) PROVE RegionsKept'
    BY <2>4, WorkEffect, <1>0 DEF BufIs, EvIs, ImIs
  <2>5. CASE Reserve(e)
    <3>1. next' = next + 1
      BY <2>5 DEF Reserve
    <3> QED BY <2>5, <3>1, ReserveEffect, <1>0 DEF EvIs
  <2>6. CASE FileFull(e)
    BY <2>6, ToUndo, <1>0 DEF BufIs, EvIs, ImIs
  <2>7. CASE WriteFile(e)
    <3>1. CASE buf[ev[e].b].pages
      <4>1. file' = [o \in DOMAIN file \cup {ev[e].off} |->
                       IF o = ev[e].off THEN ev[e].b ELSE file[o]]
        BY <2>7, <3>1 DEF WriteFile
      <4>2. /\ DOMAIN file' = DOMAIN file \cup {ev[e].off} /\ file'[ev[e].off] = ev[e].b
            /\ \A i \in DOMAIN file : i # ev[e].off => file'[i] = file[i]
        BY <4>1
      <4> QED BY <2>7, <4>2, <3>1, WriteEffect, <1>0 DEF EvIs
    <3>2. CASE ~buf[ev[e].b].pages
      BY <2>7, <3>2, <1>6 DEF WriteFile, Fail, Failed
    <3> QED BY <3>1, <3>2
  <2>8. CASE WriteFails(e)
    <3>1. next' = next - 1 /\ next = ev[e].off + 1
      BY <2>8 DEF WriteFails
    <3> QED BY <2>8, <3>1, WriteFailsEffect, <1>0 DEF EvIs
  <2>9. CASE CheckBusy(e)
    BY <2>9, ToUndo, <1>0 DEF BufIs, EvIs, ImIs
  <2>10. CASE CheckFree(e)
    BY <2>10, CheckFreeEffect, <1>0 DEF BufIs, EvIs, ImIs
  <2>11. CASE FreePages(e)
    <3>1. CASE buf[ev[e].b].pages
      BY <2>11, <3>1, FreeEffect, <1>0 DEF BufIs, EvIs, ImIs, Locked
    <3>2. CASE ~buf[ev[e].b].pages
      BY <2>11, <3>2, <1>6 DEF FreePages, Fail, Failed
    <3> QED BY <3>1, <3>2
  <2>12. CASE Undo(e)
    <3>1. CASE ~buf[ev[e].b].lru
      BY <2>12, <3>1, UndoEffect, <1>0 DEF BufIs, EvIs, ImIs
    <3>2. CASE buf[ev[e].b].lru
      BY <2>12, <3>2, <1>6 DEF Undo, Fail, Failed
    <3> QED BY <3>1, <3>2
  <2> QED BY <1>3, <2>1, <2>2, <2>3, <2>4, <2>5, <2>6, <2>7, <2>8, <2>9, <2>10, <2>11,
           <2>12 DEF Evict
<1>4. ASSUME NEW m \in Importers, Import(m) PROVE RegionsKept'
  <2>1. ASSUME NEW b \in Bufs, Attach(m, b) PROVE RegionsKept'
    BY <2>1, AttachEffect, <1>0 DEF BufIs, EvIs, ImIs
  <2>2. CASE MapLock(m)
    <3>1. CASE buf[im[m].b].ondisk \/ buf[im[m].b].pages
      BY <2>2, <3>1, LockEffect, <1>0 DEF BufIs, EvIs, ImIs, Locked
    <3>2. CASE ~(buf[im[m].b].ondisk \/ buf[im[m].b].pages)
      BY <2>2, <3>2, <1>6 DEF MapLock, Fail, Failed
    <3> QED BY <3>1, <3>2
  <2>3. CASE MapFails(m)
    BY <2>3, MapFailsEffect, <1>0 DEF BufIs, EvIs, ImIs
  <2>4. CASE PromoteRead(m)
    <3>1. file' = [file EXCEPT ![buf[im[m].b].off] = NoOne]
      BY <2>4 DEF PromoteRead
    <3>2. /\ DOMAIN file' = DOMAIN file
          /\ \A i \in DOMAIN file : i # buf[im[m].b].off => file'[i] = file[i]
      BY <3>1
    <3>3. buf[im[m].b].ondisk /\ ~buf[im[m].b].pages /\ im[m].b \in Bufs
      BY <2>4, <1>0 DEF PromoteRead, OwnInv, PromotedOnce
    <3>4. file[buf[im[m].b].off] = im[m].b
      BY <3>3
    <3> QED BY <2>4, <3>2, <3>3, <3>4, ReadEffect, <1>0 DEF BufIs
  <2>5. CASE PromotePublish(m)
    BY <2>5, PublishEffect, <1>0 DEF BufIs, EvIs, ImIs
  <2>6. CASE PromoteAdd(m)
    <3>1. CASE ~buf[im[m].b].lru
      BY <2>6, <3>1, AddEffect, <1>0 DEF BufIs, EvIs, ImIs
    <3>2. CASE buf[im[m].b].lru
      BY <2>6, <3>2, <1>6 DEF PromoteAdd, Fail, Failed
    <3> QED BY <3>1, <3>2
  <2>7. CASE Mapped(m)
    BY <2>7, MappedEffect, <1>0 DEF BufIs, EvIs, ImIs
  <2>8. CASE Unmap(m)
    BY <2>8, MapFailsEffect, <1>0 DEF BufIs, EvIs, ImIs
  <2> QED BY <1>4, <2>1, <2>2, <2>3, <2>4, <2>5, <2>6, <2>7, <2>8 DEF Import
<1>5. CASE UNCHANGED vars
  BY <1>5 DEF vars
<1> QED BY <1>1, <1>2, <1>3, <1>4, <1>5 DEF Next

-----------------------------------------------------------------------------
(* The theorems. *)

LEMMA InitTypes == Init => TypeOK /\ RegionsTaken
<1> SUFFICES ASSUME Init PROVE TypeOK /\ RegionsTaken
  OBVIOUS
<1>1. Unborn \in Buffer /\ EvictorIdle \in EvictorState /\ ImporterIdle \in ImporterState
  BY DEF Unborn, Buffer, EvictorState, ImporterState
<1>2. DOMAIN file \subseteq Nat /\ file \in [DOMAIN file -> Bufs \cup {NoOne}]
  BY DEF Init
<1>3. Writers = {}
  BY DEF Init, Writers, EvictorIdle
<1>4. RegionsTaken
  BY <1>3, FS_EmptySet DEF RegionsTaken, Init
<1>5. /\ buf \in [Bufs -> Buffer] /\ ev \in [Evictors -> EvictorState]
      /\ im \in [Importers -> ImporterState]
  BY <1>1 DEF Init
<1> QED BY <1>2, <1>4, <1>5 DEF Init, TypeOK, Faults

\* Every variable keeps its shape.  That next never goes below zero is not in the
\* code of one action: a failing write gives back only what its thread has taken.
THEOREM TypeCorrect == Spec => [](TypeOK /\ RegionsTaken)
<1>1. TypeOK /\ RegionsTaken /\ [Next]_vars => (TypeOK /\ RegionsTaken)'
  BY TypeInvariance, RegionsInvariance
<1> QED BY <1>1, InitTypes, PTL DEF Spec

\* A KV buffer never leaves RAM, whatever sweeps, ioctls, failures and callers meet.
THEOREM KvNeverInT3 == Spec => []KvStaysInT2
<1>1. Init => KvFrozen
  BY TierAssumption DEF Init, KvFrozen, Unborn, EvictorIdle
<1>2. KvFrozen => KvStaysInT2
  BY DEF KvFrozen, KvStaysInT2
<1> QED BY <1>1, <1>2, TypeCorrect, KvInvariance, PTL DEF Spec

\* No buffer of tier 2 is off the LRU for good, so the evictors can always find it.
THEOREM NoneLost == Spec => []EvictableListed
<1>1. Init => EvictableListed
  BY DEF Init, EvictableListed, Unborn
<1> QED BY <1>1, TypeCorrect, ListedInvariance, PTL DEF Spec

LEMMA InitOwners == Init => OwnInv
BY DEF Init, OwnInv, WorkedOnIsLive, PagesSomewhere, StagedOnce, PromotedOnce,
   ReadBackByOne,
       Owners, Promoting, Unborn, EvictorIdle, ImporterIdle

\* If no EVICT is overtaken, the pages have one owner at a time.
THEOREM OneOwner ==
  ASSUME ~Overtaken
  PROVE  Spec => [](TypeOK /\ OwnInv)
<1> QED BY TypeCorrect, InitOwners, OwnInvariance, PTL DEF Spec

\* If no EVICT is overtaken, no thread uses pages that are gone: the eviction owns the
\* pages that it writes and frees, and a mapping finds them in RAM or in the file.
THEOREM PagesUsedExist ==
  ASSUME ~Overtaken
  PROVE  Spec => []PagesThere
<1>1. Init => PagesThere
  BY DEF Init, PagesThere
<1>2. TypeOK /\ OwnInv /\ PagesThere /\ [Next]_vars => PagesThere'
  <2> SUFFICES ASSUME TypeOK, OwnInv, PagesThere, [Next]_vars PROVE PagesThere'
    OBVIOUS
  <2> USE DEF PagesThere
  <2>1. ASSUME NEW b \in Bufs, Allocate(b) PROVE PagesThere'
    BY <2>1 DEF Allocate, Admit, AdmitEvicting, Spill, PinUser, AddBuffer, Export,
       ExportFails,
                Close, Release, Fail
  <2>2. ASSUME NEW b \in Bufs, NEW a \in Advices, Madvise(b, a) PROVE PagesThere'
    BY <2>2 DEF Madvise, Quiet, Fail
  <2>3. ASSUME NEW e \in Evictors, Evict(e) PROVE PagesThere'
    <3>1. WriteFile(e) \/ FreePages(e) => buf[ev[e].b].pages
      BY DEF WriteFile, FreePages, At, OwnInv, StagedOnce, Owners
    <3> QED BY <2>3, <3>1 DEF Evict, EvictChoose, EvictAccount, Sweep, WorkStart, Reserve,
             FileFull,
                              WriteFile, WriteFails, CheckBusy, CheckFree, FreePages, Undo,
                                       Fail
  <2>4. ASSUME NEW m \in Importers, Import(m) PROVE PagesThere'
    <3>1. MapLock(m) => buf[im[m].b].ondisk \/ buf[im[m].b].pages
      BY ImporterMoves DEF TypeOK, MapLock, OwnInv, WorkedOnIsLive, PagesSomewhere
    <3> QED BY <2>4, <3>1 DEF Import, Attach, MapLock, MapFails, PromoteRead,
             PromotePublish,
                              PromoteAdd, Mapped, Unmap, Quiet, Fail
  <2>5. CASE UNCHANGED vars
    BY <2>5 DEF vars
  <2> QED BY <2>1, <2>2, <2>3, <2>4, <2>5 DEF Next
<1> QED BY <1>1, <1>2, OneOwner, PTL DEF Spec

\* If no EVICT is overtaken, the counters are those of the buffers, through every
\* interleaving of staging, roll back, promotion, failed export and release.
THEOREM AccountsAreRight ==
  ASSUME ~Overtaken
  PROVE  Spec => []AccountsMatch
<1>1. Init => AccountsMatch
  <2> SUFFICES ASSUME Init PROVE AccountsMatch
    OBVIOUS
  <2>1. Counted(2) = {} /\ Counted(3) = {}
    BY DEF Init, Counted, Unborn
  <2>2. Counted(2) \cap Kv = {}
    BY <2>1
  <2> QED BY <2>1, <2>2, FS_EmptySet DEF Init, AccountsMatch
<1> QED BY <1>1, OneOwner, AccountsInvariance, PTL DEF Spec

\* Under the same condition a buffer is counted in its tier and on the list that the
\* evictors walk.
THEOREM TiersAreExact ==
  ASSUME ~Overtaken
  PROVE  Spec => []TiersExact
<1>1. AccountsMatch /\ EvictableListed => TiersExact
  BY DEF TiersExact
<1> QED BY <1>1, AccountsAreRight, NoneLost, PTL

\* If moreover the writes that fail are the last to have reserved, what is on disk can
\* be read back and no eviction writes to the region of another buffer.
THEOREM RegionsAreKept ==
  ASSUME ~Overtaken, Failing # "any"
  PROVE  Spec => [](OnDiskReadable /\ RegionsDisjoint)
<1>1. Init => RegionsKept
  BY DEF Init, RegionsKept, InFile, Unborn, EvictorIdle
<1>2. RegionsKept => OnDiskReadable /\ RegionsDisjoint
  BY DEF RegionsKept, InFile, OnDiskReadable, RegionsDisjoint
<1> QED BY <1>1, <1>2, OneOwner, RegionsKeptInvariance, PTL DEF Spec

\* Under the same conditions whoever uses a buffer finds its pages where its tier says.
THEOREM ContentsAreKept ==
  ASSUME ~Overtaken, Failing # "any"
  PROVE  Spec => []ContentsKept
<1>1. PagesThere /\ OnDiskReadable => ContentsKept
  BY DEF ContentsKept
<1> QED BY <1>1, PagesUsedExist, RegionsAreKept, PTL
=============================================================================
