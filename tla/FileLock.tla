------------------------------- MODULE FileLock -------------------------------
(***************************************************************************)
(* The sibling lock file that serialises every writer of one vault file    *)
(* (crates/kagisecure-core/src/vault/lock.rs).                             *)
(*                                                                         *)
(* An inode is a natural number, given out once; 0 is "none".  A lock is   *)
(* an flock on an open file description, so it belongs to one session and  *)
(* dies with it.  The path can be made to name another inode (a rename or  *)
(* a deletion by some other program): that is why a holder compares the    *)
(* inode it locked with the one the path names, once when it has locked    *)
(* it and again immediately before it writes.                              *)
(*                                                                         *)
(* The operators take the session that calls them; the module that writes  *)
(* the guarded file extends this one and composes them with its own steps. *)
(***************************************************************************)
EXTENDS Naturals

CONSTANTS Sessions,   \* the Vault values, of one process or of several
          MaxTampers  \* bound: how often another program removes the lock file

ASSUME LockAssumption == MaxTampers \in Nat

VARIABLES lockFile,   \* the inode <vault>.lock names, 0 when there is none
          inodes,     \* how many inodes were ever created there
          handle,     \* session -> the inode of its open handle, 0 when none
          lk,         \* session -> where it is in FileLock::acquire
          tampers     \* how often the lock file was removed so far

lockVars == <<lockFile, inodes, handle, lk, tampers>>

LockStates == {"none", "want", "opened", "locked", "retry", "held"}

LockTypeOK ==
  /\ lockFile \in Nat
  /\ inodes \in Nat
  /\ handle \in [Sessions -> Nat]
  /\ lk \in [Sessions -> LockStates]
  /\ tampers \in Nat

LockInit ==
  /\ lockFile = 0
  /\ inodes = 0
  /\ handle = [s \in Sessions |-> 0]
  /\ lk = [s \in Sessions |-> "none"]
  /\ tampers = 0

\* The session's handle has the flock.
OwnsLock(s) == lk[s] \in {"locked", "held"}

\* Some session has the flock on this inode.
Locked(inode) == \E t \in Sessions : OwnsLock(t) /\ handle[t] = inode

\* The path still names the inode this session locked.
NamesHeldFile(s) == lockFile = handle[s]
-----------------------------------------------------------------------------
\* Entering acquire: nothing is open yet.
WantLock(s) ==
  /\ lk[s] = "none"
  /\ lk' = [lk EXCEPT ![s] = "want"]
  /\ UNCHANGED <<lockFile, inodes, handle, tampers>>

\* open_lock_file, at the start of every attempt: open what the path names,
\* or create it.
OpenLockFile(s) ==
  /\ lk[s] \in {"want", "retry"}
  /\ lk' = [lk EXCEPT ![s] = "opened"]
  /\ IF lockFile # 0
     THEN /\ handle' = [handle EXCEPT ![s] = lockFile]
          /\ UNCHANGED <<lockFile, inodes>>
     ELSE /\ inodes' = inodes + 1
          /\ lockFile' = inodes + 1
          /\ handle' = [handle EXCEPT ![s] = inodes + 1]
  /\ UNCHANGED tampers

\* Mutant of TryLock: contention goes unnoticed.
TryLockBlind(s) ==
  /\ lk[s] = "opened"
  /\ lk' = [lk EXCEPT ![s] = "locked"]
  /\ UNCHANGED <<lockFile, inodes, handle, tampers>>

\* try_lock never blocks: contention closes the handle, to poll again.
TryLock(s) ==
  /\ lk[s] = "opened"
  /\ IF Locked(handle[s])
     THEN /\ lk' = [lk EXCEPT ![s] = "retry"]
          /\ handle' = [handle EXCEPT ![s] = 0]
     ELSE /\ lk' = [lk EXCEPT ![s] = "locked"]
          /\ UNCHANGED handle
  /\ UNCHANGED <<lockFile, inodes, tampers>>

\* The lock counts only if the path names the locked inode; otherwise it
\* guards an orphan, and is dropped before the next attempt.
VerifyLock(s) ==
  /\ lk[s] = "locked"
  /\ IF NamesHeldFile(s)
     THEN /\ lk' = [lk EXCEPT ![s] = "held"]
          /\ UNCHANGED handle
     ELSE /\ lk' = [lk EXCEPT ![s] = "retry"]
          /\ handle' = [handle EXCEPT ![s] = 0]
  /\ UNCHANGED <<lockFile, inodes, tampers>>

\* The deadline passed after a failed attempt: VaultBusy.
TimeOut(s) ==
  /\ lk[s] = "retry"
  /\ lk' = [lk EXCEPT ![s] = "none"]
  /\ UNCHANGED <<lockFile, inodes, handle, tampers>>

\* Closing the handle gives up the flock: FileLock's Drop, or the kernel when
\* the process dies, wherever it was.
DropLock(s) ==
  /\ lk' = [lk EXCEPT ![s] = "none"]
  /\ handle' = [handle EXCEPT ![s] = 0]
  /\ UNCHANGED <<lockFile, inodes, tampers>>

\* Another program renames the lock file away or deletes it.
RemoveLockFile ==
  /\ tampers < MaxTampers
  /\ lockFile # 0
  /\ lockFile' = 0
  /\ tampers' = tampers + 1
  /\ UNCHANGED <<inodes, handle, lk>>
-----------------------------------------------------------------------------
\* The steps of acquire other than the time out, which ends it.
AcquireStep(s) == OpenLockFile(s) \/ TryLock(s) \/ VerifyLock(s)

LockNext ==
  \/ \E s \in Sessions : \/ WantLock(s)
                         \/ AcquireStep(s)
                         \/ TimeOut(s)
                         \/ DropLock(s)
  \/ RemoveLockFile

LockSpec == LockInit /\ [][LockNext]_lockVars
-----------------------------------------------------------------------------
(* Two sessions never own the flock of one inode, whatever was created and *)
(* removed at the path: try_lock and the kernel's release of a closed      *)
(* handle are the only ways in and out.                                    *)
LockExclusive ==
  \A s, t \in Sessions :
    OwnsLock(s) /\ OwnsLock(t) /\ handle[s] = handle[t] => s = t

(* A handle is of an inode that was created, so one created later is never *)
(* the one a session has locked.                                           *)
HandlesCreated ==
  /\ lockFile \in 0..inodes
  /\ \A s \in Sessions :
       lk[s] \in {"opened", "locked", "held"} => handle[s] \in 1..inodes

LockInv == LockTypeOK /\ LockExclusive /\ HandlesCreated
=============================================================================
