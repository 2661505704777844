------------------------------- MODULE GbPhase -------------------------------
(***************************************************************************)
(* The GPU phase lease of gb_phase.py: a lock FILE that heavy phases of     *)
(* several programs take in turn.  Nothing here is atomic but the file      *)
(* system: acquire_phase creates the file with O_EXCL and writes it in a    *)
(* second call, reads it to judge it stale and unlinks it in a third, and a *)
(* heartbeat thread rewrites it in place (truncate, then write).  A process *)
(* of the model is one call of acquire_phase with the lease it returns; its *)
(* name is also its pid and its token.                                      *)
(***************************************************************************)
EXTENDS Integers, FiniteSets

CONSTANTS
  Procs,      \* calls of acquire_phase
  UserOf,     \* process -> the user it runs as
  Mortal,     \* bound: the processes that may die
  Patient,    \* processes whose wait_s does not run out
  Slow,       \* processes that may spend more than stale_s before their lease beats
  NeedsVram,  \* processes called with need_pct > 0
  Pausers,    \* processes with pause_synapse
  Raising,    \* bound: processes in which a write, a pause or a sleep may raise
  Models,     \* models that gb-synapse serves and that nobody asks to keep
  Inodes,     \* inode numbers
  NoFile      \* nothing at lock_path()

\* What a reader of the file makes of its text: the holder's token and the age of
\* its heartbeat, or nothing when it is empty or not JSON.
Unparsed == [token |-> "none"]

Stamp(p, f) == [token |-> p, fresh |-> f]
Text == [token : Procs, fresh : BOOLEAN] \cup {Unparsed}
File == [ino : Inodes, by : Procs, text : Text]

ASSUME PhaseAssumption ==
  /\ DOMAIN UserOf = Procs
  /\ Mortal \subseteq Procs /\ Patient \subseteq Procs /\ Slow \subseteq Procs
  /\ NeedsVram \subseteq Procs /\ Pausers \subseteq Procs /\ Raising \subseteq Procs
  /\ Inodes \subseteq Nat \ {0}
  /\ NoFile \notin File

VARIABLES
  lock,    \* the file at lock_path(): [ino, by, text], or NoFile
  pc,      \* where acquire_phase, and then release, stands
  fd,      \* the inode a process has created with O_EXCL, 0 before and after
  fresh,   \* the time stamp in `info` is younger than stale_s
  late,    \* `deadline` has passed
  asked,   \* gb-synapse was asked to pause its models
  paused,  \* the models this call has paused
  served,  \* the models gb-synapse serves
  hb,      \* where the heartbeat thread stands
  hbfd,    \* the inode the heartbeat thread has open for writing, or 0
  stolen   \* history: a lock file was unlinked because it was judged stale

pvars == <<lock, pc, fd, fresh, late, asked, paused, served, hb, hbfd, stolen>>

Waiting == {"open", "judge", "unlink", "write", "vram"}
Leased == {"held", "relread", "relunlink"}
Ended == {"refused", "raised", "done", "dead"}

\* A number that no file in use has.
Used == {fd[p] : p \in Procs} \cup {hbfd[p] : p \in Procs}
          \cup (IF lock = NoFile THEN {} ELSE {lock.ino})
NewInode == CHOOSE i \in Inodes : i \notin Used

SameUser(p, q) == UserOf[p] = UserOf[q]

\* read_lock(path) gives p's own record.
Own(p) == lock # NoFile /\ lock.text # Unparsed /\ lock.text.token = p

\* path.unlink() by p; the directory is a sticky one, as /tmp is.
Unlinked(p) == IF lock # NoFile /\ SameUser(p, lock.by) THEN NoFile ELSE lock

\* A write through descriptor i replaces the text of the file at the path only if
\* that is still the file i was opened on; a text that another writer has put there
\* meanwhile may be longer, and its tail then spoils the record.
Written(i, text) ==
  IF lock = NoFile THEN {lock}
  ELSE IF lock.ino # i THEN {lock}
  ELSE {[lock EXCEPT !.text = t] :
          t \in {text} \cup (IF lock.text = Unparsed THEN {} ELSE {Unparsed})}

\* Faulty: only the age of a readable record counts.
IsStaleByAge ==
  /\ lock # NoFile
  /\ lock.text # Unparsed
  /\ ~lock.text.fresh

\* is_stale(read_lock(path)).
IsStale ==
  \/ lock = NoFile
  \/ lock.text = Unparsed
  \/ pc[lock.text.token] = "dead"
  \/ ~lock.text.fresh

Goto(p, l) == pc' = [pc EXCEPT ![p] = l]

-----------------------------------------------------------------------------
(* acquire_phase, 1. the lock *)

\* Faulty: opened without O_EXCL.
CreateShared(p) ==
  /\ pc[p] = "open"
  /\ NewInode \in Inodes \ Used
  /\ lock' = IF lock = NoFile THEN [ino |-> NewInode, by |-> p, text |-> Unparsed] ELSE lock
  /\ fd' = [fd EXCEPT ![p] = NewInode]
  /\ Goto(p, "write")
  /\ UNCHANGED <<fresh, late, asked, paused, served, hb, hbfd, stolen>>

Create(p) ==
  /\ pc[p] = "open" /\ lock = NoFile
  /\ NewInode \in Inodes \ Used
  /\ lock' = [ino |-> NewInode, by |-> p, text |-> Unparsed]
  /\ fd' = [fd EXCEPT ![p] = NewInode]
  /\ Goto(p, "write")
  /\ UNCHANGED <<fresh, late, asked, paused, served, hb, hbfd, stolen>>

Exists(p) ==
  /\ pc[p] = "open" /\ lock # NoFile
  /\ Goto(p, "judge")
  /\ UNCHANGED <<lock, fd, fresh, late, asked, paused, served, hb, hbfd, stolen>>

\* The record carries the time stamp that was taken before the wait.
Write(p) ==
  /\ pc[p] = "write"
  /\ lock' \in Written(fd[p], Stamp(p, fresh[p]))
  /\ Goto(p, "vram")
  /\ UNCHANGED <<fd, fresh, late, asked, paused, served, hb, hbfd, stolen>>

\* The write raises (no space): the empty file stays.
WriteFails(p) ==
  /\ pc[p] = "write" /\ p \in Raising
  /\ fd' = [fd EXCEPT ![p] = 0]
  /\ Goto(p, "raised")
  /\ UNCHANGED <<lock, fresh, late, asked, paused, served, hb, hbfd, stolen>>

\* read_lock and is_stale; a file that has gone meanwhile is stale too.
Judge(p) ==
  /\ pc[p] = "judge"
  /\ Goto(p, IF IsStale THEN "unlink" ELSE IF late[p] THEN "refused" ELSE "open")
  /\ UNCHANGED <<lock, fd, fresh, late, asked, paused, served, hb, hbfd, stolen>>

\* Whatever is at the path by now is unlinked; an error is passed over.
UnlinkStale(p) ==
  /\ pc[p] = "unlink"
  /\ lock' = Unlinked(p)
  /\ stolen' = (stolen \/ lock' # lock)
  /\ Goto(p, "open")
  /\ UNCHANGED <<fd, fresh, late, asked, paused, served, hb, hbfd>>

-----------------------------------------------------------------------------
(* acquire_phase, 2. the VRAM.  A reading is not state: it may say anything. *)

\* Enough is free, the card cannot be read, or nothing was asked for.  The Lease
\* starts its thread.
VramFree(p) ==
  /\ pc[p] = "vram"
  /\ Goto(p, "held")
  /\ hb' = [hb EXCEPT ![p] = "idle"]
  /\ UNCHANGED <<lock, fd, fresh, late, asked, paused, served, hbfd, stolen>>

\* Each served model is asked to pause once; those that answer ok are recorded.
PauseServed(p) ==
  /\ pc[p] = "vram" /\ p \in NeedsVram \cap Pausers
  /\ ~asked[p]
  /\ asked' = [asked EXCEPT ![p] = TRUE]
  /\ \E S \in SUBSET served :
       /\ paused' = [paused EXCEPT ![p] = S]
       /\ served' = served \ S
       /\ Goto(p, IF S = {} /\ late[p] THEN "cleanup" ELSE "vram")
  /\ UNCHANGED <<lock, fd, fresh, late, hb, hbfd, stolen>>

VramShort(p) ==
  /\ pc[p] = "vram" /\ p \in NeedsVram
  /\ asked[p] \/ p \notin Pausers
  /\ late[p]
  /\ Goto(p, "cleanup")
  /\ UNCHANGED <<lock, fd, fresh, late, asked, paused, served, hb, hbfd, stolen>>

\* served_fn, pause_fn or the sleep raises.
VramRaises(p) ==
  /\ pc[p] = "vram" /\ p \in NeedsVram \cap Raising
  /\ Goto(p, "cleanup")
  /\ UNCHANGED <<lock, fd, fresh, late, asked, paused, served, hb, hbfd, stolen>>

\* Faulty: the exception leaves the lock to go stale.
CleanupReadNone(p) ==
  /\ pc[p] = "cleanup"
  /\ Goto(p, "refused")
  /\ fd' = [fd EXCEPT ![p] = 0]
  /\ UNCHANGED <<lock, fresh, late, asked, paused, served, hb, hbfd, stolen>>

CleanupRead(p) ==
  /\ pc[p] = "cleanup"
  /\ Goto(p, IF Own(p) THEN "cleanunlink" ELSE "refused")
  /\ fd' = IF Own(p) THEN fd ELSE [fd EXCEPT ![p] = 0]
  /\ UNCHANGED <<lock, fresh, late, asked, paused, served, hb, hbfd, stolen>>

CleanupUnlink(p) ==
  /\ pc[p] = "cleanunlink"
  /\ lock' = Unlinked(p)
  /\ fd' = [fd EXCEPT ![p] = 0]
  /\ Goto(p, "refused")
  /\ UNCHANGED <<fresh, late, asked, paused, served, hb, hbfd, stolen>>

-----------------------------------------------------------------------------
(* Lease.release and the heartbeat thread *)

\* The phase ends; release() sets _stop and does not wait for the thread.
StartRelease(p) ==
  /\ pc[p] = "held"
  /\ Goto(p, "relread")
  /\ UNCHANGED <<lock, fd, fresh, late, asked, paused, served, hb, hbfd, stolen>>

ReleaseRead(p) ==
  /\ pc[p] = "relread"
  /\ Goto(p, IF Own(p) THEN "relunlink" ELSE "done")
  /\ fd' = IF Own(p) THEN fd ELSE [fd EXCEPT ![p] = 0]
  /\ UNCHANGED <<lock, fresh, late, asked, paused, served, hb, hbfd, stolen>>

ReleaseUnlink(p) ==
  /\ pc[p] = "relunlink"
  /\ lock' = Unlinked(p)
  /\ fd' = [fd EXCEPT ![p] = 0]
  /\ Goto(p, "done")
  /\ UNCHANGED <<fresh, late, asked, paused, served, hb, hbfd, stolen>>

\* The end of one turn of the thread's loop: it goes on until _stop is set.
Looped(p) == [hb EXCEPT ![p] = IF pc[p] = "held" THEN "idle" ELSE "off"]

\* A turn may be under way already when _stop is set.
BeatRead(p) ==
  /\ hb[p] = "idle"
  /\ hb' = IF Own(p) THEN [hb EXCEPT ![p] = "mine"] ELSE Looped(p)
  /\ UNCHANGED <<lock, pc, fd, fresh, late, asked, paused, served, hbfd, stolen>>

\* write_text opens the path with mode "w": the file is truncated, or created; the
\* file of another user is left alone.
Openable(p) == lock = NoFile \/ SameUser(p, lock.by)

Truncated(p) ==
  IF lock = NoFile THEN [ino |-> NewInode, by |-> p, text |-> Unparsed]
  ELSE [lock EXCEPT !.text = Unparsed]

BeatOpen(p) ==
  /\ hb[p] = "mine"
  /\ NewInode \in Inodes \ Used
  /\ lock' = IF Openable(p) THEN Truncated(p) ELSE lock
  /\ hbfd' = IF Openable(p) THEN [hbfd EXCEPT ![p] = Truncated(p).ino] ELSE hbfd
  /\ hb' = IF Openable(p) THEN [hb EXCEPT ![p] = "write"] ELSE Looped(p)
  /\ UNCHANGED <<pc, fd, fresh, late, asked, paused, served, stolen>>

BeatWrite(p) ==
  /\ hb[p] = "write"
  /\ lock' \in Written(hbfd[p], Stamp(p, TRUE))
  /\ hbfd' = [hbfd EXCEPT ![p] = 0]
  /\ hb' = Looped(p)
  /\ UNCHANGED <<pc, fd, fresh, late, asked, paused, served, stolen>>

BeatStop(p) ==
  /\ hb[p] = "idle" /\ pc[p] # "held"
  /\ hb' = [hb EXCEPT ![p] = "off"]
  /\ UNCHANGED <<lock, pc, fd, fresh, late, asked, paused, served, hbfd, stolen>>

-----------------------------------------------------------------------------
(* Time and crashes *)

Dies(p) ==
  /\ p \in Mortal /\ pc[p] \notin Ended
  /\ Goto(p, "dead")
  /\ fd' = [fd EXCEPT ![p] = 0]
  /\ hb' = [hb EXCEPT ![p] = "off"]
  /\ hbfd' = [hbfd EXCEPT ![p] = 0]
  /\ UNCHANGED <<lock, fresh, late, asked, paused, served, stolen>>

DeadlinePasses(p) ==
  /\ pc[p] \in Waiting /\ p \notin Patient /\ ~late[p]
  /\ late' = [late EXCEPT ![p] = TRUE]
  /\ UNCHANGED <<lock, pc, fd, fresh, asked, paused, served, hb, hbfd, stolen>>

\* stale_s pass between the time stamp of `info` and its use.
StampAges(p) ==
  /\ pc[p] \in {"open", "judge", "unlink", "write"} /\ p \in Slow /\ fresh[p]
  /\ fresh' = [fresh EXCEPT ![p] = FALSE]
  /\ UNCHANGED <<lock, pc, fd, late, asked, paused, served, hb, hbfd, stolen>>

\* stale_s pass without a heartbeat: nobody refreshes the file while its owner is
\* still waiting for VRAM, or any more once its thread has ended.
HeartbeatAges ==
  /\ lock # NoFile /\ lock.text # Unparsed /\ lock.text.fresh
  /\ LET q == lock.text.token
     IN  hb[q] = "off" /\ (pc[q] \in Ended \/ q \in Slow)
  /\ lock' = [lock EXCEPT !.text.fresh = FALSE]
  /\ UNCHANGED <<pc, fd, fresh, late, asked, paused, served, hb, hbfd, stolen>>

-----------------------------------------------------------------------------
PInit ==
  /\ lock = NoFile
  /\ pc = [p \in Procs |-> "open"]
  /\ fd = [p \in Procs |-> 0]
  /\ fresh = [p \in Procs |-> TRUE]
  /\ late = [p \in Procs |-> FALSE]
  /\ asked = [p \in Procs |-> FALSE]
  /\ paused = [p \in Procs |-> {}]
  /\ served = Models
  /\ hb = [p \in Procs |-> "off"]
  /\ hbfd = [p \in Procs |-> 0]
  /\ stolen = FALSE

Acquire(p) ==
  \/ Create(p) \/ Exists(p) \/ Write(p) \/ WriteFails(p) \/ Judge(p) \/ UnlinkStale(p)
  \/ VramFree(p) \/ PauseServed(p) \/ VramShort(p) \/ VramRaises(p)
  \/ CleanupRead(p) \/ CleanupUnlink(p)

Release(p) == StartRelease(p) \/ ReleaseRead(p) \/ ReleaseUnlink(p)

Beat(p) == BeatRead(p) \/ BeatOpen(p) \/ BeatWrite(p) \/ BeatStop(p)

PNext ==
  \/ \E p \in Procs :
       Acquire(p) \/ Release(p) \/ Beat(p) \/ Dies(p) \/ DeadlinePasses(p) \/ StampAges(p)
  \/ HeartbeatAges

PSpec == PInit /\ [][PNext]_pvars

\* Processes and threads are scheduled, phases end, and time passes.
Fairness ==
  /\ \A p \in Procs :
       /\ WF_pvars(Acquire(p)) /\ WF_pvars(Release(p))
       /\ WF_pvars(BeatOpen(p) \/ BeatWrite(p) \/ BeatStop(p))
       /\ WF_pvars(DeadlinePasses(p))
  /\ WF_pvars(HeartbeatAges)

FairSpec == PSpec /\ Fairness

-----------------------------------------------------------------------------
(* Properties *)

PTypeOK ==
  /\ lock \in File \cup {NoFile}
  /\ pc \in [Procs -> Waiting \cup Leased \cup Ended \cup {"cleanup", "cleanunlink"}]
  /\ fd \in [Procs -> Inodes \cup {0}]
  /\ fresh \in [Procs -> BOOLEAN]
  /\ late \in [Procs -> BOOLEAN]
  /\ asked \in [Procs -> BOOLEAN]
  /\ paused \in [Procs -> SUBSET Models]
  /\ served \in SUBSET Models
  /\ hb \in [Procs -> {"off", "idle", "mine", "write"}]
  /\ hbfd \in [Procs -> Inodes \cup {0}]
  /\ stolen \in BOOLEAN

Holders == {p \in Procs : pc[p] = "held"}

\* "one heavy phase on the card at a time", "O_EXCL: two processes cannot both win".
\* It does not hold: see the findings.
MutualExclusion == \A p, q \in Holders : p = q

\* Two phases run together only after some process unlinked a lock file that it
\* judged stale: O_EXCL, the token checks of release and of the cleanup, and the
\* heartbeats that outlive their lease never let a second one in by themselves.
ExclusionUntilTakenForStale == stolen \/ MutualExclusion

\* A call that raised leaves no lock of its own behind, whatever happened to the
\* file while it waited for VRAM (the except clause of acquire_phase).
FailedLeavesNoLock == \A p \in Procs : pc[p] = "refused" => ~Own(p)

\* "waiting up to wait_s. Raises PhaseBusy (with the reason in words) when it
\* cannot": every call ends.  It does not hold when the lock directory is shared
\* by two users: see the findings.
AcquireEnds ==
  \A p \in Procs : pc[p] \in Waiting ~> pc[p] \notin Waiting

\* "a dead holder or a silent one is stale and replaced": a call whose deadline
\* never comes gets its lease, although holders die, raise between creating the
\* file and writing it, and late heartbeats bring a released file back.
PatientServed ==
  \A p \in Patient \ (NeedsVram \cup Raising) :
    pc[p] = "open" ~> pc[p] \in {"held", "dead"}
=============================================================================
