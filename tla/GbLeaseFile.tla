----------------------------- MODULE GbLeaseFile -----------------------------
(***************************************************************************)
(* The state file of gb_lease.py under the clients of gb_lease_client.py:   *)
(* LeaseArbiter._txn and safe_atomic_write step by step (flock, read,       *)
(* temporary file, rename, unlock), lease() around it, and the `repair`     *)
(* command, which takes no lock.  A client may die at any point; the disk   *)
(* may be full; the file may be damaged from outside.                       *)
(***************************************************************************)
EXTENDS Integers, Sequences

CONSTANTS
  Clients,    \* processes that take the card
  Damaged,    \* a state.json that cannot be parsed
  MaxHarm,    \* bound: how often the file is damaged
  Patient,    \* the clients that call lease() with wait_s > 0
  Dying,      \* bound: the clients that may die before their end
  MaxFull,    \* bound: how often the disk is full
  Operators,  \* who may run `python3 gb_lease.py repair`
  Nobody

VARIABLES
  file,       \* state.json as it is read: no file is an empty one
  living,     \* the clients whose pid and start time match
  harms,      \* how often the file was damaged
  lock,       \* who holds the flock
  pc,         \* where each client is
  call,       \* the operation of its transaction: "ask" or "release"
  copy,       \* the state its transaction has in memory
  token,      \* the token that lease() has been given, 0: none
  fulls,      \* how often the disk was full
  op,         \* where each operator is: "idle" or "found"
  era,        \* past: `harms` when each client last wrote the file
  issued      \* past: tokens told to clients, in order

cvars == <<call, copy, token, era, issued>>
fvars == <<file, living, harms, lock, pc, cvars, fulls, op>>

\* The atomic store that the file implements, and its operations.
Store == INSTANCE GbLeaseStore WITH store <- file

ASSUME FileAssumption == Nobody \notin Clients /\ Damaged \notin Store!States

Goto(p, l) == pc' = [pc EXCEPT ![p] = l]

-----------------------------------------------------------------------------
(* lease() and what it calls. *)

Begin(p) ==
  /\ pc[p] = "idle"
  /\ Goto(p, "lock")
  /\ UNCHANGED <<file, living, harms, lock, cvars, fulls, op>>

\* Faulty: the lock file is opened but not locked.
LockFree(p) == TRUE

MayLock(p) == lock = Nobody

\* fcntl.flock(LOCK_EX).
TakeLock(p) ==
  /\ pc[p] = "lock" /\ MayLock(p)
  /\ lock' = p
  /\ Goto(p, "read")
  /\ UNCHANGED <<file, living, harms, cvars, fulls, op>>

\* Faulty: a process that has gone is not looked for.
GoneNever == {}

Gone == Clients \ living

\* The file as it was parsed and pruned: of the dead, and perhaps of waiters whose
\* client had an exception and polls no longer; then the operation and _admit.
Read(p) ==
  /\ pc[p] = "read" /\ file # Damaged
  /\ \E late \in SUBSET {q \in Clients : pc[q] = "failed" /\ Store!TokenIn(file, q) = 0} :
       LET kept == Store!Prune(file, late \cup Gone)
       IN  copy' = [copy EXCEPT ![p] = Store!Admit(
             IF call[p] = "ask" THEN Store!Ask(kept, p, p \in Patient)
                                ELSE Store!Leave(kept, p, token[p]))]
  /\ Goto(p, "write")
  /\ UNCHANGED <<file, living, harms, lock, call, token, era, issued, fulls, op>>

\* LeaseStateUnreadable: the lock is dropped.  The client runs its job unleased;
\* a release is given up.
ReadDamaged(p) ==
  /\ pc[p] = "read" /\ file = Damaged
  /\ lock' = Nobody
  /\ Goto(p, IF call[p] = "ask" THEN "unleased" ELSE "done")
  /\ UNCHANGED <<file, living, harms, cvars, fulls, op>>

\* Faulty: the file itself is truncated and written.
WrittenInPlace(f) == Damaged

Written(f) == f

\* The temporary file, written and synced.
WriteTemp(p) ==
  /\ pc[p] = "write"
  /\ file' = Written(file)
  /\ Goto(p, "rename")
  /\ UNCHANGED <<living, harms, lock, cvars, fulls, op>>

\* OSError: the temporary file is unlinked, the lock dropped.  lease() raises,
\* unless it is its release that failed.
DiskFull(p) ==
  /\ pc[p] = "write" /\ fulls < MaxFull
  /\ fulls' = fulls + 1
  /\ lock' = Nobody
  /\ Goto(p, "failed")
  /\ UNCHANGED <<file, living, harms, cvars, op>>

Rename(p) ==
  /\ pc[p] = "rename"
  /\ file' = copy[p]
  /\ era' = [era EXCEPT ![p] = harms]
  /\ Goto(p, "unlock")
  /\ UNCHANGED <<living, harms, lock, call, copy, token, issued, fulls, op>>

\* The operation returns to lease().
Unlock(p) ==
  /\ pc[p] = "unlock"
  /\ lock' = Nobody
  /\ LET t == Store!TokenIn(copy[p], p)
     IN  IF call[p] = "ask" /\ t # 0
         THEN /\ token' = [token EXCEPT ![p] = t]
              /\ issued' = Append(issued, t)
              /\ Goto(p, "leased")
         ELSE /\ Goto(p, IF call[p] = "ask" /\ Store!Of(copy[p], p) # {} THEN "poll" ELSE "done")
              /\ UNCHANGED <<token, issued>>
  /\ UNCHANGED <<file, living, harms, call, copy, era, fulls, op>>

Poll(p) ==
  /\ pc[p] = "poll"
  /\ Goto(p, "lock")
  /\ UNCHANGED <<file, living, harms, lock, cvars, fulls, op>>

\* wait_s has passed, or the job of a lease has ended.
FRelease(p) ==
  /\ pc[p] \in {"poll", "leased"}
  /\ call' = [call EXCEPT ![p] = "release"]
  /\ Goto(p, "lock")
  /\ UNCHANGED <<file, living, harms, lock, copy, token, era, issued, fulls, op>>

EndUnleased(p) ==
  /\ pc[p] = "unleased"
  /\ Goto(p, "done")
  /\ UNCHANGED <<file, living, harms, lock, cvars, fulls, op>>

\* The kernel drops the flock of a process that dies.
Crash(p) ==
  /\ p \in living /\ p \in Dying
  /\ living' = living \ {p}
  /\ lock' = IF lock = p THEN Nobody ELSE lock
  /\ Goto(p, "dead")
  /\ UNCHANGED <<file, harms, cvars, fulls, op>>

-----------------------------------------------------------------------------
(* The file from outside. *)

\* Not between the read and the rename of a transaction, which would undo it.
Harm ==
  /\ harms < MaxHarm /\ file # Damaged
  /\ \A p \in Clients : pc[p] \notin {"write", "rename"}
  /\ file' = Damaged /\ harms' = harms + 1
  /\ UNCHANGED <<living, lock, pc, cvars, fulls, op>>

\* An operator who was refused runs repair: state.json exists.
RepairFound(o) ==
  /\ op[o] = "idle" /\ file = Damaged
  /\ op' = [op EXCEPT ![o] = "found"]
  /\ UNCHANGED <<file, living, harms, lock, pc, cvars, fulls>>

\* os.rename to state.json.damaged-<time>; it raises if the file is gone.
RepairRename(o) ==
  /\ op[o] = "found"
  /\ file' = Store!EmptyStore
  /\ op' = [op EXCEPT ![o] = "idle"]
  /\ UNCHANGED <<living, harms, lock, pc, cvars, fulls>>

-----------------------------------------------------------------------------
FInit ==
  /\ file = Store!EmptyStore /\ living = Clients /\ harms = 0
  /\ lock = Nobody
  /\ pc = [p \in Clients |-> "idle"]
  /\ call = [p \in Clients |-> "ask"]
  /\ copy = [p \in Clients |-> file]
  /\ token = [p \in Clients |-> 0] /\ era = [p \in Clients |-> 0]
  /\ issued = <<>>
  /\ fulls = 0
  /\ op = [o \in Operators |-> "idle"]

\* The steps a client takes by itself, once it has the lock or needs none.
Go(p) ==
  \/ Read(p) \/ ReadDamaged(p) \/ WriteTemp(p) \/ Rename(p) \/ Unlock(p)
  \/ Poll(p) \/ EndUnleased(p)

FNext ==
  \/ \E p \in Clients : Begin(p) \/ TakeLock(p) \/ Go(p) \/ DiskFull(p) \/ FRelease(p) \/ Crash(p)
  \/ Harm
  \/ \E o \in Operators : RepairFound(o) \/ RepairRename(o)

FSpec == FInit /\ [][FNext]_fvars

\* The kernel wakes everyone who waits for the flock when it is dropped; clients
\* ask once a second for a lock that is held for milliseconds, so each gets it
\* in the end.  Jobs end, and a client runs on until it dies.
FFairness ==
  \A p \in Clients : /\ SF_fvars(TakeLock(p))
                     /\ WF_fvars(Go(p))
                     /\ WF_fvars(pc[p] = "leased" /\ FRelease(p))

FFairSpec == FSpec /\ FFairness

-----------------------------------------------------------------------------
(* Properties. *)

\* The transactions are atomic and a crash inside one leaves it undone or done:
\* the content of the file is the store.
ImplementsStore == Store!Spec

\* A job that was granted the card after the file was last damaged is the holder
\* of the file, with its token, until it releases, and has the card for itself
\* but for jobs from before the damage and jobs that run unleased.
Since == {p \in Clients : pc[p] = "leased" /\ era[p] = harms}

HolderRecorded ==
  /\ file # Damaged => \A p \in Since : Store!TokenIn(file, p) = token[p]
  /\ \A p, q \in Since : p = q

\* A client that asks and waits gets the card, is told that the file is damaged,
\* or gives up by itself, whoever dies with the lock, the card or the turn.
Answered == {"leased", "unleased", "done", "failed", "dead"}

Served ==
  [](fulls = 0) => \A p \in Patient :
    [](call[p] = "ask") => (pc[p] = "lock" ~> pc[p] \in Answered)

\* "every grant carries a monotonic `token`" (gb_lease.py:41).
TokensMonotonic ==
  \A i, j \in DOMAIN issued : i < j => issued[i] < issued[j]
==============================================================================
