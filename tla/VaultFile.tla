------------------------------- MODULE VaultFile -------------------------------
(***************************************************************************)
(* One vault file, written by several sessions (Vault values) that each    *)
(* hold a decrypted copy of it: the transactions, the lock-free refresh    *)
(* and the confirmed overwrite of                                          *)
(* crates/kagisecure-core/src/vault/mod.rs, over the lock of FileLock and  *)
(* the atomic replacement of vault/atomic.rs.                              *)
(*                                                                         *)
(* Abstractions.  The body is the audit log, the password slot and the     *)
(* shared-vault device keys; an audit entry is a number, given out once,   *)
(* and an entry that also stands for an edit of the body is an entry the   *)
(* transaction's closure chained.  A hash head pins the prefix it ends, so *)
(* a known length and head are the known log itself.  A generation (the    *)
(* SHA-256 of the sealed bytes, which hold a fresh nonce) is a number too. *)
(* Where two system calls matter to other writers they are two steps.      *)
(***************************************************************************)
EXTENDS FileLock, Sequences, FiniteSets

CONSTANTS Ops,             \* which closures run, a subset of AllOps
          DeviceIds,       \* shared-vault device keys that may be added
          StartDevices,    \* those the vault already has at first
          StartEmpty,      \* TRUE: there may be no vault at first
          MaxEntries,      \* bound: audit entries recorded
          MaxSeals,        \* bound: file images sealed, the first one included
          MaxFaults,       \* bound: failing system calls
          MaxCrashes,      \* bound: processes that die
          MaxInterference  \* bound: the file replaced by another program

AllOps == {"edit", "queue", "queueInside", "device", "password"}

ASSUME VaultAssumption ==
  /\ Ops \subseteq AllOps
  /\ StartDevices \subseteq DeviceIds
  /\ StartEmpty \in BOOLEAN
  /\ {MaxEntries, MaxSeals, MaxFaults, MaxCrashes, MaxInterference}
       \subseteq Nat

VARIABLES
  file,      \* what the vault's path names, NoFile when nothing
  backups,   \* generations copied to <vault>.bak-<n>
  temps,     \* session -> its temporary file: "none", "live" or "stale"
  phase,     \* session -> where it is in a call
  goal,      \* session -> which call: "tx", "overwrite" or "create"
  mem,       \* session -> its header and body in memory
  known,     \* session -> what it knows of the file on disk (DiskState)
  unconf,    \* session -> its unconfirmed write, NoWrite when none
  pending,   \* session -> audit drafts waiting to be written
  carried,   \* session -> drafts the running write took from the queue
  base,      \* session -> the file as read under the lock
  undo,      \* session -> what a failing overwrite restores
  sealed,    \* session -> the image it is writing
  confirmed, \* session -> the conflict its user agreed to discard
  prep,      \* session -> the password slot a prepared one would replace
  swept      \* session -> it has swept stale temporaries

\* Numbers given out and faults taken so far.
VARIABLES entries, seals, faults, crashes, interference

\* History, read by the properties, and past also by RestoreOlderCopy.
VARIABLES
  past,      \* every image the path ever named
  drafted,   \* session -> entries queued with queue_audit since it opened
  disturbed  \* sessions whose lock or base another program took away

countVars == <<entries, seals, faults, crashes, interference>>
histVars  == <<past, drafted, disturbed>>
bodyVars  == <<mem, known, unconf, pending, carried, base, undo, sealed>>
userVars  == <<confirmed, prep>>
diskVars  == <<file, backups, temps>>
vars == <<lockVars, diskVars, phase, goal, bodyVars, userVars, swept,
          countVars, histVars>>

Phases == {"closed", "idle", "acquire", "closure", "commit", "write",
           "rename", "readback"}
Goals  == {"tx", "overwrite", "create"}

\* Between reading its base under the lock and replacing the file.
InWindow == {"closure", "commit", "write", "rename"}
\* Between the last check of the lock and replacing the file.
Writing  == {"write", "rename"}

Entry == Nat \ {0}
Body  == [vid: Nat, slot: Nat, log: Seq(Entry),
          devices: SUBSET DeviceIds, retired: SUBSET DeviceIds]
Known == [gen: Nat, ver: Nat, log: Seq(Entry)]
Image == [gen: Nat, ver: Nat, vid: Nat, slot: Nat, log: Seq(Entry),
          devices: SUBSET DeviceIds, retired: SUBSET DeviceIds]
Write == [log: Seq(Entry), drafts: Nat]
Undo  == [mem: Body, known: Known]
Conflict == [kind: {"none", "missing", "replaced", "diverged"}, gen: Nat]

NewBody(vid) == [vid |-> vid, slot |-> 0, log |-> <<>>,
                 devices |-> {}, retired |-> {}]
ImageOf(b, gen, ver) ==
  [gen |-> gen, ver |-> ver, vid |-> b.vid, slot |-> b.slot, log |-> b.log,
   devices |-> b.devices, retired |-> b.retired]
BodyOf(f)  == [vid |-> f.vid, slot |-> f.slot, log |-> f.log,
               devices |-> f.devices, retired |-> f.retired]
KnownOf(f) == [gen |-> f.gen, ver |-> f.ver, log |-> f.log]

NoBody     == NewBody(0)
NoFile     == ImageOf(NoBody, 0, 0)
NoKnown    == KnownOf(NoFile)
NoWrite    == [log |-> <<>>, drafts |-> 0]
NoConflict == [kind |-> "none", gen |-> 0]
NoUndo     == [mem |-> NoBody, known |-> NoKnown]

Elems(q) == {q[i] : i \in 1..Len(q)}
-----------------------------------------------------------------------------
(* What the session makes of a file.                                       *)

\* continues: a log holds the known log at the same positions.
Continues(log, fresh) ==
  /\ Len(log) <= Len(fresh)
  /\ \A i \in 1..Len(log) : fresh[i] = log[i]

\* decode_with_session_key.
Opens(s, f) == f.vid = mem[s].vid

\* continues_known.
ContinuesKnown(s, f) == f.ver >= known[s].ver /\ Continues(known[s].log, f.log)

\* Mutant of Adoptable: no continuity check.
AdoptableUnchecked(s, f) == Opens(s, f)

\* decode_continuation: the session may build on this file.
Adoptable(s, f) == Opens(s, f) /\ ContinuesKnown(s, f)

\* examine_file.
ConflictWith(s, f) ==
  CASE f = NoFile -> [kind |-> "missing", gen |-> 0]
    [] f # NoFile /\ (f.gen = known[s].gen \/ Adoptable(s, f)) -> NoConflict
    [] f # NoFile /\ ~Opens(s, f) -> [kind |-> "replaced", gen |-> f.gen]
    [] OTHER -> [kind |-> "diverged", gen |-> f.gen]

\* requeue_unsaved_audit: the tail of the chain that is not on disk, before
\* the drafts recorded after it.
Requeued(s) ==
  SubSeq(mem[s].log, Len(known[s].log) + 1, Len(mem[s].log)) \o pending[s]

\* Mutant of Settled: a write that landed keeps its drafts queued.
SettledKeepsAll(s, f) == Requeued(s)

\* settle_unconfirmed: the drafts of a write that landed leave the queue.
Settled(s, f) ==
  LET queue == Requeued(s)
  IN  IF Continues(unconf[s].log, f.log)
      THEN SubSeq(queue, unconf[s].drafts + 1, Len(queue))
      ELSE queue

\* Mutant of VersionToWrite: the version follows from the contents alone.
VersionOfBody(s) == IF mem[s].devices # {} THEN 2 ELSE 1

\* format_ver_to_write: never lower than the file's, and device keys need 2.
VersionToWrite(s) ==
  IF mem[s].devices # {} /\ known[s].ver < 2 THEN 2 ELSE known[s].ver
-----------------------------------------------------------------------------
\* The vault as it was left: what its log held before is left out.
FirstFile ==
  ImageOf([NewBody(1) EXCEPT !.devices = StartDevices], 1,
          IF StartDevices = {} THEN 1 ELSE 2)

Init ==
  /\ LockInit
  /\ file \in {FirstFile} \cup (IF StartEmpty THEN {NoFile} ELSE {})
  /\ backups = {}
  /\ temps = [s \in Sessions |-> "none"]
  /\ phase = [s \in Sessions |-> "closed"]
  /\ goal = [s \in Sessions |-> "tx"]
  /\ mem = [s \in Sessions |-> NoBody]
  /\ known = [s \in Sessions |-> NoKnown]
  /\ unconf = [s \in Sessions |-> NoWrite]
  /\ pending = [s \in Sessions |-> <<>>]
  /\ carried = [s \in Sessions |-> <<>>]
  /\ base = [s \in Sessions |-> NoFile]
  /\ undo = [s \in Sessions |-> NoUndo]
  /\ sealed = [s \in Sessions |-> NoFile]
  /\ confirmed = [s \in Sessions |-> NoConflict]
  /\ prep = [s \in Sessions |-> 0]
  /\ swept = [s \in Sessions |-> FALSE]
  /\ entries = 0
  /\ seals = 1
  /\ faults = 0
  /\ crashes = 0
  /\ interference = 0
  /\ past = {file}
  /\ drafted = [s \in Sessions |-> {}]
  /\ disturbed = {}
-----------------------------------------------------------------------------
(* Opening, closing, dying.                                                *)

\* A session that is gone holds nothing.
Forget(s) ==
  /\ phase' = [phase EXCEPT ![s] = "closed"]
  /\ goal' = [goal EXCEPT ![s] = "tx"]
  /\ mem' = [mem EXCEPT ![s] = NoBody]
  /\ known' = [known EXCEPT ![s] = NoKnown]
  /\ unconf' = [unconf EXCEPT ![s] = NoWrite]
  /\ pending' = [pending EXCEPT ![s] = <<>>]
  /\ carried' = [carried EXCEPT ![s] = <<>>]
  /\ base' = [base EXCEPT ![s] = NoFile]
  /\ undo' = [undo EXCEPT ![s] = NoUndo]
  /\ sealed' = [sealed EXCEPT ![s] = NoFile]
  /\ confirmed' = [confirmed EXCEPT ![s] = NoConflict]
  /\ prep' = [prep EXCEPT ![s] = 0]
  /\ swept' = [swept EXCEPT ![s] = FALSE]
  /\ drafted' = [drafted EXCEPT ![s] = {}]
  /\ disturbed' = disturbed \ {s}
  /\ UNCHANGED past

\* open: read, unwrap, decrypt; no lock is taken.
Open(s) ==
  /\ phase[s] = "closed"
  /\ file # NoFile
  /\ phase' = [phase EXCEPT ![s] = "idle"]
  /\ mem' = [mem EXCEPT ![s] = BodyOf(file)]
  /\ known' = [known EXCEPT ![s] = KnownOf(file)]
  /\ UNCHANGED <<lockVars, diskVars, goal, unconf, pending, carried, base,
                 undo, sealed, userVars, swept, countVars, histVars>>

\* create: the early existence check, then a new vault in memory whose first
\* write goes through the lock.
Create(s) ==
  /\ phase[s] = "closed"
  /\ file = NoFile
  /\ seals < MaxSeals
  /\ WantLock(s)
  /\ seals' = seals + 1
  /\ phase' = [phase EXCEPT ![s] = "acquire"]
  /\ goal' = [goal EXCEPT ![s] = "create"]
  /\ mem' = [mem EXCEPT ![s] = NewBody(seals + 1)]
  /\ known' = [known EXCEPT ![s] = [NoKnown EXCEPT !.ver = 1]]
  /\ UNCHANGED <<diskVars, unconf, pending, carried, base, undo, sealed,
                 userVars, swept, entries, faults, crashes, interference,
                 histVars>>

\* The application locks the vault: the session is dropped between calls.
Close(s) ==
  /\ phase[s] = "idle"
  /\ Forget(s)
  /\ UNCHANGED <<lockVars, diskVars, countVars>>

\* The process dies anywhere in a call: the kernel frees its lock, and a
\* temporary it was writing stays.
Crash(s) ==
  /\ phase[s] \notin {"closed", "idle"}
  /\ crashes < MaxCrashes
  /\ crashes' = crashes + 1
  /\ Forget(s)
  /\ DropLock(s)
  /\ temps' = [temps EXCEPT ![s] = IF @ = "live" THEN "stale" ELSE @]
  /\ UNCHANGED <<file, backups, entries, seals, faults, interference>>
-----------------------------------------------------------------------------
(* Between calls.                                                          *)

\* queue_audit.
QueueAudit(s) ==
  /\ "queue" \in Ops
  /\ phase[s] = "idle"
  /\ entries < MaxEntries
  /\ entries' = entries + 1
  /\ pending' = [pending EXCEPT ![s] = Append(@, entries + 1)]
  /\ drafted' = [drafted EXCEPT ![s] = @ \cup {entries + 1}]
  /\ UNCHANGED <<lockVars, diskVars, phase, goal, mem, known, unconf, carried,
                 base, undo, sealed, userVars, swept, seals, faults, crashes,
                 interference, past, disturbed>>

\* adopt: the file becomes the in-memory state.
Adopt(s) ==
  /\ mem' = [mem EXCEPT ![s] = BodyOf(file)]
  /\ known' = [known EXCEPT ![s] = KnownOf(file)]
  /\ unconf' = [unconf EXCEPT ![s] = NoWrite]

\* refresh_if_changed reads without the lock.  The same file settles an
\* unconfirmed write unless its fingerprint already says it is the same.
Refresh(s) ==
  /\ phase[s] = "idle"
  /\ file # NoFile
  /\ \/ /\ file.gen = known[s].gen
        /\ unconf[s] # NoWrite
        /\ unconf' = [unconf EXCEPT ![s] = NoWrite]
        /\ UNCHANGED <<mem, known, pending>>
     \/ /\ file.gen # known[s].gen
        /\ Adoptable(s, file)
        /\ pending' = [pending EXCEPT ![s] = Settled(s, file)]
        /\ Adopt(s)
  /\ UNCHANGED <<lockVars, diskVars, phase, goal, carried, base, undo, sealed,
                 userVars, swept, countVars, histVars>>

\* examine_conflict, and the user agreeing to what it found.
ExamineConflict(s) ==
  /\ phase[s] = "idle"
  /\ ConflictWith(s, file) # NoConflict
  /\ confirmed' = [confirmed EXCEPT ![s] = ConflictWith(s, file)]
  /\ UNCHANGED <<lockVars, diskVars, phase, goal, bodyVars, prep, swept,
                 countVars, histVars>>

\* prepare_master_password: derived outside any transaction, against the slot
\* in memory.  prep is that slot plus one, 0 when nothing is prepared.
PreparePassword(s) ==
  /\ "password" \in Ops
  /\ phase[s] = "idle"
  /\ prep' = [prep EXCEPT ![s] = mem[s].slot + 1]
  /\ UNCHANGED <<lockVars, diskVars, phase, goal, bodyVars, confirmed, swept,
                 countVars, histVars>>

\* Mutant of StartCall: stale temporaries are swept before the lock is held.
StartCallSweeping(s, call) ==
  /\ phase[s] = "idle"
  /\ WantLock(s)
  /\ phase' = [phase EXCEPT ![s] = "acquire"]
  /\ goal' = [goal EXCEPT ![s] = call]
  /\ temps' = IF swept[s] THEN temps ELSE [t \in Sessions |-> "none"]
  /\ UNCHANGED <<file, backups, bodyVars, userVars, swept, countVars, histVars>>

\* Every call begins with FileLock::acquire.
StartCall(s, call) ==
  /\ phase[s] = "idle"
  /\ WantLock(s)
  /\ phase' = [phase EXCEPT ![s] = "acquire"]
  /\ goal' = [goal EXCEPT ![s] = call]
  /\ UNCHANGED <<diskVars, bodyVars, userVars, swept, countVars, histVars>>

StartTransact(s) == seals < MaxSeals /\ StartCall(s, "tx")

StartOverwrite(s) ==
  /\ confirmed[s] # NoConflict
  /\ seals < MaxSeals
  /\ StartCall(s, "overwrite")
-----------------------------------------------------------------------------
(* The end of a call: the lock is dropped, and nothing is in flight.       *)

EndCall(s, next) ==
  /\ phase' = [phase EXCEPT ![s] = next]
  /\ goal' = [goal EXCEPT ![s] = "tx"]
  /\ carried' = [carried EXCEPT ![s] = <<>>]
  /\ base' = [base EXCEPT ![s] = NoFile]
  /\ undo' = [undo EXCEPT ![s] = NoUndo]
  /\ sealed' = [sealed EXCEPT ![s] = NoFile]
  /\ DropLock(s)

\* Mutants of RollBack: the closure's changes stay, the carried drafts go.
RollBackKeepsMemory(s) ==
  /\ UNCHANGED mem
  /\ known' = [known EXCEPT ![s] = KnownOf(base[s])]
  /\ pending' = [pending EXCEPT ![s] = carried[s] \o @]

RollBackDropsCarried(s) ==
  /\ mem' = [mem EXCEPT ![s] = BodyOf(base[s])]
  /\ known' = [known EXCEPT ![s] = KnownOf(base[s])]
  /\ UNCHANGED pending

\* roll_back: the file's contents from base, and the drafts it carried back
\* in the queue before those queued meanwhile.
RollBack(s) ==
  /\ mem' = [mem EXCEPT ![s] = BodyOf(base[s])]
  /\ known' = [known EXCEPT ![s] = KnownOf(base[s])]
  /\ pending' = [pending EXCEPT ![s] = carried[s] \o @]

\* Mutants of RestoreSession: the merged body stays, the drafts go.
RestoreSessionKeepsBody(s) ==
  /\ UNCHANGED mem
  /\ known' = [known EXCEPT ![s] = undo[s].known]
  /\ pending' = [pending EXCEPT ![s] = carried[s]]

RestoreSessionDropsDrafts(s) ==
  /\ mem' = [mem EXCEPT ![s] = undo[s].mem]
  /\ known' = [known EXCEPT ![s] = undo[s].known]
  /\ pending' = [pending EXCEPT ![s] = <<>>]

\* The tail of overwrite_unmerged: the session as it was before.
RestoreSession(s) ==
  /\ mem' = [mem EXCEPT ![s] = undo[s].mem]
  /\ known' = [known EXCEPT ![s] = undo[s].known]
  /\ pending' = [pending EXCEPT ![s] = carried[s]]

\* An error before anything was changed in memory.
Refuse(s) ==
  /\ IF goal[s] = "create"
     THEN /\ EndCall(s, "closed")
          /\ mem' = [mem EXCEPT ![s] = NoBody]
          /\ known' = [known EXCEPT ![s] = NoKnown]
     ELSE /\ EndCall(s, "idle")
          /\ UNCHANGED <<mem, known>>
  /\ UNCHANGED <<unconf, pending>>

\* A system call fails.
Fault == faults < MaxFaults /\ faults' = faults + 1

\* Mutant of LockBusy: the deadline is only looked at before any attempt.
LockBusyAtFirst(s) ==
  /\ phase[s] = "acquire"
  /\ lk[s] = "want"
  /\ Refuse(s)
  /\ UNCHANGED <<diskVars, userVars, swept, countVars, histVars>>

\* acquire gave up: VaultBusy.
LockBusy(s) ==
  /\ phase[s] = "acquire"
  /\ lk[s] = "retry"
  /\ Refuse(s)
  /\ UNCHANGED <<diskVars, userVars, swept, countVars, histVars>>

\* acquire cannot open, lock or check the lock file.
LockFails(s) ==
  /\ phase[s] = "acquire"
  /\ lk[s] # "held"
  /\ Fault
  /\ Refuse(s)
  /\ UNCHANGED <<diskVars, userVars, swept, entries, seals, crashes,
                 interference, histVars>>

\* The steps of FileLock's acquire.
Acquire(s) ==
  /\ phase[s] = "acquire"
  /\ AcquireStep(s)
  /\ UNCHANGED <<diskVars, phase, goal, bodyVars, userVars, swept, countVars,
                 histVars>>

\* sweep_temporaries_once: under the lock, every temporary is taken for a
\* dead writer's.
Sweep(s) ==
  /\ temps' = IF swept[s] THEN temps ELSE [t \in Sessions |-> "none"]
  /\ swept' = [swept EXCEPT ![s] = TRUE]

\* The file is there and cannot be read.
ReadFails(s) ==
  /\ phase[s] = "acquire"
  /\ goal[s] # "create"
  /\ lk[s] = "held"
  /\ file # NoFile
  /\ Fault
  /\ Sweep(s)
  /\ Refuse(s)
  /\ UNCHANGED <<file, backups, userVars, entries, seals, crashes,
                 interference, histVars>>
-----------------------------------------------------------------------------
(* transact, from the lock to the closure.                                 *)

\* catch_up_locked, then the carried drafts chained onto the fresh head.
\* A file still at the known generation keeps memory, and proves that an
\* unconfirmed write on top of it did not land.
CatchUp(s) ==
  /\ phase[s] = "acquire"
  /\ goal[s] = "tx"
  /\ lk[s] = "held"
  /\ file # NoFile
  /\ file.gen = known[s].gen \/ Adoptable(s, file)
  /\ Sweep(s)
  /\ LET same  == file.gen = known[s].gen
         queue == IF same THEN Requeued(s) ELSE Settled(s, file)
         body  == IF same THEN mem[s] ELSE BodyOf(file)
         disk  == IF same THEN known[s] ELSE KnownOf(file)
     IN  /\ carried' = [carried EXCEPT ![s] = queue]
         /\ mem' = [mem EXCEPT ![s] = [body EXCEPT !.log = disk.log \o queue]]
         /\ known' = [known EXCEPT ![s] = disk]
  /\ unconf' = [unconf EXCEPT ![s] = NoWrite]
  /\ pending' = [pending EXCEPT ![s] = <<>>]
  /\ base' = [base EXCEPT ![s] = file]
  /\ phase' = [phase EXCEPT ![s] = "closure"]
  /\ UNCHANGED <<lockVars, file, backups, goal, undo, sealed, userVars,
                 countVars, histVars>>

\* VaultNotFound, VaultReplaced, VaultDiverged.
CatchUpRefused(s) ==
  /\ phase[s] = "acquire"
  /\ goal[s] = "tx"
  /\ lk[s] = "held"
  /\ ConflictWith(s, file) # NoConflict
  /\ Sweep(s)
  /\ Refuse(s)
  /\ UNCHANGED <<file, backups, userVars, countVars, histVars>>

\* Mutant of Closure: its entry's number is off by one.
ClosureMisnumbers(s, body, own) ==
  /\ phase[s] = "closure"
  /\ entries + own <= MaxEntries
  /\ entries' = entries + own
  /\ mem' = [mem EXCEPT ![s] =
               IF own = 0 THEN body ELSE [body EXCEPT !.log = Append(@, entries)]]
  /\ phase' = [phase EXCEPT ![s] = "commit"]
  /\ UNCHANGED <<lockVars, diskVars, goal, known, unconf, pending, carried,
                 base, undo, sealed, confirmed, swept, seals, faults, crashes,
                 interference, histVars>>

\* What the closures have in common: they chain at most one entry of their
\* own and leave everything but the body alone.
Closure(s, body, own) ==
  /\ phase[s] = "closure"
  /\ entries + own <= MaxEntries
  /\ entries' = entries + own
  /\ mem' = [mem EXCEPT ![s] =
               IF own = 0 THEN body
               ELSE [body EXCEPT !.log = Append(@, entries + 1)]]
  /\ phase' = [phase EXCEPT ![s] = "commit"]
  /\ UNCHANGED <<lockVars, diskVars, goal, known, unconf, pending, carried,
                 base, undo, sealed, confirmed, swept, seals, faults, crashes,
                 interference, histVars>>

\* The empty closure: flush_audit, or a caller that found nothing to change.
Flush(s) == Closure(s, mem[s], 0) /\ UNCHANGED prep

\* A closure that edits the body and records it with append_audit.
Edit(s) == "edit" \in Ops /\ Closure(s, mem[s], 1) /\ UNCHANGED prep

\* add_device_key refuses an id that is present or was ever removed.
AddDeviceKey(s, d) ==
  /\ "device" \in Ops
  /\ d \notin mem[s].devices \cup mem[s].retired
  /\ Closure(s, [mem[s] EXCEPT !.devices = @ \cup {d}], 1)
  /\ UNCHANGED prep

RemoveDeviceKey(s, d) ==
  /\ "device" \in Ops
  /\ d \in mem[s].devices
  /\ Closure(s, [mem[s] EXCEPT !.devices = @ \ {d},
                               !.retired = @ \cup {d}], 1)
  /\ UNCHANGED prep

\* Mutant of InstallPassword: the slot prepared against is not compared.
InstallPasswordBlind(s) ==
  /\ prep[s] # 0
  /\ Closure(s, [mem[s] EXCEPT !.slot = entries + 1], 1)
  /\ prep' = [prep EXCEPT ![s] = 0]

\* install_master_password goes ahead only over the slot it was prepared
\* against; a prepared slot is used once.
InstallPassword(s) ==
  /\ prep[s] = mem[s].slot + 1
  /\ Closure(s, [mem[s] EXCEPT !.slot = entries + 1], 1)
  /\ prep' = [prep EXCEPT ![s] = 0]

\* Tx::queue_audit: a draft behind the closure's own entries.
QueueInside(s) ==
  /\ "queueInside" \in Ops
  /\ phase[s] = "closure"
  /\ entries < MaxEntries
  /\ entries' = entries + 1
  /\ pending' = [pending EXCEPT ![s] = Append(@, entries + 1)]
  /\ drafted' = [drafted EXCEPT ![s] = @ \cup {entries + 1}]
  /\ UNCHANGED <<lockVars, diskVars, phase, goal, mem, known, unconf, carried,
                 base, undo, sealed, userVars, swept, seals, faults, crashes,
                 interference, past, disturbed>>

AbortClosure(s) ==
  /\ phase[s] = "closure"
  /\ RollBack(s)
  /\ unconf' = [unconf EXCEPT ![s] = NoWrite]
  /\ EndCall(s, "idle")
  /\ disturbed' = disturbed \ {s}
  /\ UNCHANGED <<diskVars, confirmed, swept, countVars, past, drafted>>

\* The closure changed something in memory and then failed or panicked.
ClosureFails(s) == AbortClosure(s) /\ UNCHANGED prep

\* install_master_password found another slot than the prepared one's basis:
\* VaultConflict, and the prepared slot is dropped with the closure.
PasswordConflict(s) ==
  /\ prep[s] \notin {0, mem[s].slot + 1}
  /\ AbortClosure(s)
  /\ prep' = [prep EXCEPT ![s] = 0]
-----------------------------------------------------------------------------
(* overwrite_unmerged, from the lock to the write.                         *)

\* Mutant of AsConfirmed: any conflict will do once one was confirmed.
AsConfirmedLoosely(s) ==
  confirmed[s] # NoConflict /\ ConflictWith(s, file) # NoConflict

\* examine_file found a conflict, and exactly the one the user agreed to.
AsConfirmed(s) ==
  ConflictWith(s, file) = confirmed[s] /\ confirmed[s] # NoConflict

\* Mutant of MergedRetired: the file's retirements are left behind.
MergedRetiredOwn(s, f) == mem[s].retired

\* Retirements are grow-only: both sides' count.
MergedRetired(s, f) == mem[s].retired \cup f.retired

\* A device key nobody retired is kept, whichever side holds it.
MergedDevices(s, f) == (mem[s].devices \cup f.devices) \ MergedRetired(s, f)

\* The conflict is still exactly the confirmed one: this session's body, with
\* the device keys and version of a diverged file, which is this vault; its
\* drafts chained, and an entry that records the override.
OverwriteExamine(s) ==
  /\ phase[s] = "acquire"
  /\ goal[s] = "overwrite"
  /\ lk[s] = "held"
  /\ AsConfirmed(s)
  /\ Sweep(s)
  /\ LET other == IF confirmed[s].kind = "diverged" THEN file ELSE NoFile
         log   == Append(mem[s].log \o pending[s], entries + 1)
     IN  /\ mem' = [mem EXCEPT ![s] =
                      [@ EXCEPT !.devices = MergedDevices(s, other),
                                !.retired = MergedRetired(s, other),
                                !.log = log]]
         /\ known' = [known EXCEPT ![s].ver =
                        IF other.ver > @ THEN other.ver ELSE @]
  /\ undo' = [undo EXCEPT ![s] = [mem |-> mem[s], known |-> known[s]]]
  /\ carried' = [carried EXCEPT ![s] = pending[s]]
  /\ pending' = [pending EXCEPT ![s] = <<>>]
  /\ base' = [base EXCEPT ![s] = file]
  /\ entries' = entries + 1
  /\ phase' = [phase EXCEPT ![s] = "commit"]
  /\ UNCHANGED <<lockVars, file, backups, goal, unconf, sealed, userVars,
                 seals, faults, crashes, interference, histVars>>

\* VaultNotInConflict, VaultConflict.
OverwriteRefused(s) ==
  /\ phase[s] = "acquire"
  /\ goal[s] = "overwrite"
  /\ lk[s] = "held"
  /\ ~AsConfirmed(s)
  /\ Sweep(s)
  /\ Refuse(s)
  /\ UNCHANGED <<file, backups, userVars, countVars, histVars>>
-----------------------------------------------------------------------------
(* write_new_file, from the lock to the write.                             *)

CreateNewFile(s) ==
  /\ phase[s] = "acquire"
  /\ goal[s] = "create"
  /\ lk[s] = "held"
  /\ file = NoFile
  /\ Sweep(s)
  /\ phase' = [phase EXCEPT ![s] = "commit"]
  /\ UNCHANGED <<lockVars, file, backups, goal, bodyVars, userVars, countVars,
                 histVars>>

\* VaultExists: something appeared at the path meanwhile.
CreateRefused(s) ==
  /\ phase[s] = "acquire"
  /\ goal[s] = "create"
  /\ lk[s] = "held"
  /\ file # NoFile
  /\ Refuse(s)
  /\ swept' = [swept EXCEPT ![s] = FALSE]
  /\ temps' = [t \in Sessions |-> "none"]
  /\ UNCHANGED <<file, backups, userVars, countVars, histVars>>
-----------------------------------------------------------------------------
(* Tx::commit and the same steps of an overwrite and of a creation.        *)

\* Mutant of StillCurrent: the lock is not checked again before the write.
StillCurrentAlways(s) == TRUE

\* ensure_current.
StillCurrent(s) == NamesHeldFile(s)

\* Chain what was queued during the closure, seal, copy the file aside if its
\* format version rises, and check the lock once more: LockLost counts as an
\* attempted write.
Commit(s) ==
  /\ phase[s] = "commit"
  /\ LET log   == mem[s].log \o pending[s]
         image == ImageOf([mem[s] EXCEPT !.log = log], seals + 1,
                          VersionToWrite(s))
     IN  /\ mem' = [mem EXCEPT ![s].log = log]
         /\ sealed' = [sealed EXCEPT ![s] = image]
         /\ backups' = IF base[s] # NoFile /\ base[s].ver < image.ver
                       THEN backups \cup {base[s].gen}
                       ELSE backups
  /\ seals' = seals + 1
  /\ carried' = [carried EXCEPT ![s] = @ \o pending[s]]
  /\ pending' = [pending EXCEPT ![s] = <<>>]
  /\ phase' = [phase EXCEPT ![s] = IF StillCurrent(s) THEN "write"
                                   ELSE "readback"]
  /\ UNCHANGED <<lockVars, file, temps, goal, known, unconf, base, undo,
                 userVars, swept, entries, faults, crashes, interference,
                 histVars>>

\* What a failed transaction or overwrite leaves in memory.
BackOut(s) ==
  /\ IF goal[s] = "tx" THEN RollBack(s) ELSE RestoreSession(s)
  /\ EndCall(s, "idle")

\* The body cannot be sealed (too large, a schema too new) or the backup of
\* the old version fails: nothing was attempted.
SealFails(s) ==
  /\ phase[s] = "commit"
  /\ goal[s] # "create"
  /\ Fault
  /\ BackOut(s)
  /\ disturbed' = disturbed \ {s}
  /\ UNCHANGED <<diskVars, unconf, userVars, swept, entries, seals, crashes,
                 interference, past, drafted>>

\* write_atomically: a complete temporary first ...
WriteTemp(s) ==
  /\ phase[s] = "write"
  /\ temps' = [temps EXCEPT ![s] = "live"]
  /\ phase' = [phase EXCEPT ![s] = "rename"]
  /\ UNCHANGED <<lockVars, file, backups, goal, bodyVars, userVars, swept,
                 countVars, histVars>>

\* ... which an error removes, the file untouched.  The rename also fails
\* when another writer swept the temporary.
WriteFails(s) ==
  /\ phase[s] \in Writing
  /\ IF phase[s] = "rename" /\ temps[s] # "live" THEN UNCHANGED faults ELSE Fault
  /\ temps' = [temps EXCEPT ![s] = "none"]
  /\ phase' = [phase EXCEPT ![s] = "readback"]
  /\ UNCHANGED <<lockVars, file, backups, goal, bodyVars, userVars, swept,
                 entries, seals, crashes, interference, histVars>>

\* The rename took effect.  A writer that had lost its lock or its base takes
\* away the base of whoever else is between its read and its write.
Land(s) ==
  /\ phase[s] = "rename"
  /\ temps[s] = "live"
  /\ file' = sealed[s]
  /\ past' = past \cup {sealed[s]}
  /\ temps' = [temps EXCEPT ![s] = "none"]

Overrun(s) ==
  IF s \in disturbed THEN {t \in Sessions \ {s} : phase[t] \in InWindow} ELSE {}

\* record_written: the session descends from what it wrote.
RecordWritten(s) ==
  /\ known' = [known EXCEPT ![s] = KnownOf(sealed[s])]
  /\ unconf' = [unconf EXCEPT ![s] = NoWrite]
  /\ EndCall(s, "idle")
  /\ UNCHANGED <<mem, pending>>

Rename(s) ==
  /\ Land(s)
  /\ RecordWritten(s)
  /\ disturbed' = (disturbed \ {s}) \cup Overrun(s)
  /\ UNCHANGED <<backups, userVars, swept, countVars, drafted>>

\* The rename took effect and its reply was lost.
RenameLosesReply(s) ==
  /\ Land(s)
  /\ Fault
  /\ phase' = [phase EXCEPT ![s] = "readback"]
  /\ disturbed' = disturbed \cup Overrun(s)
  /\ UNCHANGED <<lockVars, backups, goal, bodyVars, userVars, swept, entries,
                 seals, crashes, interference, drafted>>

\* confirm_landed: the file is byte for byte what was attempted.
ReadBackFinds(s) ==
  /\ phase[s] = "readback"
  /\ goal[s] # "create"
  /\ file.gen = sealed[s].gen
  /\ RecordWritten(s)
  /\ disturbed' = disturbed \ {s}
  /\ UNCHANGED <<diskVars, userVars, swept, countVars, past, drafted>>

\* It is not, or it cannot be read: back out, and remember what was attempted.
ReadBackFails(s) ==
  /\ phase[s] = "readback"
  /\ goal[s] # "create"
  /\ IF file.gen = sealed[s].gen THEN Fault ELSE UNCHANGED faults
  /\ BackOut(s)
  /\ unconf' = [unconf EXCEPT ![s] = [log |-> sealed[s].log,
                                      drafts |-> Len(carried[s])]]
  /\ disturbed' = disturbed \ {s}
  /\ UNCHANGED <<diskVars, userVars, swept, entries, seals, crashes,
                 interference, past, drafted>>

\* create reports the error and keeps no session, landed or not.
CreateFails(s) ==
  /\ goal[s] = "create"
  /\ \/ phase[s] = "readback" /\ UNCHANGED faults
     \/ phase[s] = "commit" /\ Fault
  /\ Refuse(s)
  /\ swept' = [swept EXCEPT ![s] = FALSE]
  /\ disturbed' = disturbed \ {s}
  /\ UNCHANGED <<diskVars, userVars, entries, seals, crashes, interference,
                 past, drafted>>
-----------------------------------------------------------------------------
(* Other programs: a sync tool or a restore that puts an older copy back, a *)
(* deletion, another vault or garbage in its place, the lock file removed.  *)

Interfere(f) ==
  /\ interference < MaxInterference
  /\ f # file
  /\ interference' = interference + 1
  /\ file' = f
  /\ past' = past \cup {f}
  /\ disturbed' = disturbed \cup {s \in Sessions : phase[s] \in InWindow}
  /\ UNCHANGED <<lockVars, backups, temps, phase, goal, bodyVars, userVars,
                 swept, entries, faults, crashes, drafted>>

RestoreOlderCopy == \E f \in past \cup {NoFile} : Interfere(f) /\ UNCHANGED seals

ReplaceVault ==
  /\ Interfere(ImageOf(NewBody(seals + 1), seals + 1, 1))
  /\ seals < MaxSeals
  /\ seals' = seals + 1

LockFileRemoved ==
  /\ RemoveLockFile
  /\ disturbed' = disturbed \cup {s \in Sessions : phase[s] \in Writing}
  /\ UNCHANGED <<diskVars, phase, goal, bodyVars, userVars, swept, countVars,
                 past, drafted>>
-----------------------------------------------------------------------------
\* What a call does by itself once it has begun.
CallStep(s) ==
  \/ Acquire(s) \/ LockFails(s) \/ ReadFails(s)
  \/ CatchUp(s) \/ CatchUpRefused(s)
  \/ OverwriteExamine(s) \/ OverwriteRefused(s)
  \/ CreateNewFile(s) \/ CreateRefused(s)
  \/ Flush(s) \/ Edit(s) \/ InstallPassword(s) \/ PasswordConflict(s)
  \/ \E d \in DeviceIds : AddDeviceKey(s, d) \/ RemoveDeviceKey(s, d)
  \/ ClosureFails(s)
  \/ Commit(s) \/ SealFails(s)
  \/ WriteTemp(s) \/ WriteFails(s)
  \/ Rename(s) \/ RenameLosesReply(s)
  \/ ReadBackFinds(s) \/ ReadBackFails(s) \/ CreateFails(s)

\* What its callers decide.
CallerStep(s) ==
  \/ Open(s) \/ Create(s) \/ Close(s)
  \/ QueueAudit(s) \/ Refresh(s) \/ ExamineConflict(s) \/ PreparePassword(s)
  \/ StartTransact(s) \/ StartOverwrite(s)
  \/ QueueInside(s)

Next ==
  \/ \E s \in Sessions : CallStep(s) \/ LockBusy(s) \/ CallerStep(s) \/ Crash(s)
  \/ RestoreOlderCopy
  \/ ReplaceVault
  \/ LockFileRemoved

Spec == Init /\ [][Next]_vars

\* A thread inside a call is scheduled until the call returns, and the clock
\* of acquire's deadline does not stop.
FairSpec ==
  /\ Spec
  /\ \A s \in Sessions : WF_vars(CallStep(s)) /\ SF_vars(LockBusy(s))
-----------------------------------------------------------------------------
\* Types: the disk, where calls are, what sessions hold between calls, what
\* a call works with, what users prepared, and the counters and history.
DiskTypeOK ==
  /\ file \in Image
  /\ backups \subseteq Nat
  /\ temps \in [Sessions -> {"none", "live", "stale"}]
  /\ swept \in [Sessions -> BOOLEAN]

CallTypeOK ==
  /\ phase \in [Sessions -> Phases]
  /\ goal \in [Sessions -> Goals]

MemoryTypeOK ==
  /\ mem \in [Sessions -> Body]
  /\ known \in [Sessions -> Known]
  /\ unconf \in [Sessions -> Write]
  /\ pending \in [Sessions -> Seq(Entry)]

WorkTypeOK ==
  /\ carried \in [Sessions -> Seq(Entry)]
  /\ base \in [Sessions -> Image]
  /\ undo \in [Sessions -> Undo]
  /\ sealed \in [Sessions -> Image]

UserTypeOK ==
  /\ confirmed \in [Sessions -> Conflict]
  /\ prep \in [Sessions -> Nat]

CountTypeOK ==
  /\ entries \in Nat
  /\ seals \in Nat
  /\ faults \in Nat
  /\ crashes \in Nat
  /\ interference \in Nat
  /\ past \subseteq Image
  /\ drafted \in [Sessions -> SUBSET Entry]
  /\ disturbed \subseteq Sessions

(* Every variable keeps to what the code can hold there; in particular an  *)
(* entry chained or queued always has a number of its own, never 0.        *)
TypeOK ==
  /\ LockTypeOK
  /\ DiskTypeOK
  /\ CallTypeOK
  /\ MemoryTypeOK
  /\ WorkTypeOK
  /\ UserTypeOK
  /\ CountTypeOK

\* Every entry the file ever held.
EverOnDisk == UNION {Elems(f.log) : f \in past}

(* A session whose lock and base nobody took away replaces exactly the     *)
(* file it read under the lock: no other writer came between, whatever the *)
(* interleaving, the crashes and the lock files removed before its check.  *)
NoWriterBetween ==
  \A s \in Sessions :
    phase[s] \in Writing /\ s \notin disturbed => file = base[s]

(* At most one such session is between its last check and its write.       *)
OneWriter ==
  \A s, t \in Sessions \ disturbed :
    phase[s] \in Writing /\ phase[t] \in Writing => s = t

(* Why that is so: a session has the lock from its read to its write; what *)
(* it checks before the write stays true until another program interferes; *)
(* and as long as the path names the inode it locked nobody else wrote.    *)
WindowUnderLock ==
  \A s \in Sessions : phase[s] \in InWindow => lk[s] = "held"

WriterStillCurrent ==
  \A s \in Sessions \ disturbed : phase[s] \in Writing => NamesHeldFile(s)

BaseStillCurrent ==
  \A s \in Sessions \ disturbed :
    phase[s] \in InWindow /\ NamesHeldFile(s) => file = base[s]

NoBaseOutsideCall ==
  \A s \in Sessions : phase[s] \in {"closed", "idle", "acquire"} => base[s] = NoFile

WriterInv ==
  /\ LockExclusive
  /\ HandlesCreated
  /\ WindowUnderLock
  /\ WriterStillCurrent
  /\ BaseStillCurrent
  /\ NoBaseOutsideCall

(* The sweep of stale temporaries, which takes every temporary for a dead  *)
(* writer's, never takes a live writer's away: no writer is about to       *)
(* rename while another one sweeps.  (With the lock file removed a holder  *)
(* of the orphan may sweep before its own check; the write then fails.)    *)
SweepSparesWriters ==
  tampers = 0 => \A s \in Sessions : phase[s] = "rename" => temps[s] = "live"

(* Between calls a session shows a version that was on disk, and knows it  *)
(* as that version: no failed closure, failed write or failed overwrite    *)
(* leaves an uncommitted change readable.                                  *)
MemoryWasCommitted ==
  \A s \in Sessions : phase[s] = "idle" =>
    \E f \in past : mem[s] = BodyOf(f) /\ known[s] = KnownOf(f)

(* A draft queued in a session that is still open is waiting, is in the    *)
(* write under way, or has been on disk: whatever fails, it is not dropped. *)
NoDraftLost ==
  \A s \in Sessions :
    drafted[s] \subseteq
      Elems(pending[s]) \cup Elems(carried[s]) \cup EverOnDisk

(* No entry is in the log twice: a write whose outcome was unknown is      *)
(* settled before its drafts are chained again.                            *)
DraftsWrittenOnce ==
  \A i, j \in 1..Len(file.log) : file.log[i] = file.log[j] => i = j

\* The session replaced the file in this step.
Replaces(s) ==
  /\ phase[s] = "rename"
  /\ phase'[s] # "rename"
  /\ file' # file
  /\ file' = sealed[s]

(* The vault file is a shared journal: a transaction is one atomic append  *)
(* to what its author had caught up with, an overwrite discards only what  *)
(* its user agreed to, and nobody ever takes up a file that went backwards *)
(* (the module documentation of vault/mod.rs).                             *)
Version(k) == [gen |-> k.gen, log |-> k.log]

Journal == INSTANCE SharedJournal WITH
             journal    <- Version(file),
             view       <- [s \in Sessions |-> Version(known[s])],
             agreed     <- [s \in Sessions |-> confirmed[s].gen],
             exposed    <- disturbed,
             intrusions <- interference + tampers

ImplementsJournal == Journal!JournalSpec

(* No update is lost: a transaction of a session nobody disturbed extends  *)
(* the log of the file it replaces, and an overwrite replaces nothing but  *)
(* the version its user agreed to discard.                                 *)
NoLostUpdate ==
  [][\A s \in Sessions \ disturbed : Replaces(s) =>
       CASE goal[s] = "tx" -> Continues(file.log, file'.log)
         [] goal[s] = "overwrite" -> confirmed[s].gen = file.gen
         [] goal[s] = "create" -> file = NoFile]_vars

(* A write over this vault keeps what has no other copy: its format        *)
(* version, its device keys unless one was removed, every removal.         *)
NothingIrreplaceableDropped ==
  [][\A s \in Sessions \ disturbed :
       Replaces(s) /\ file.vid = file'.vid =>
         /\ file'.ver >= file.ver
         /\ file.retired \subseteq file'.retired
         /\ file.devices \ file'.retired \subseteq file'.devices
         /\ file'.devices \cap file'.retired = {}]_vars

(* A password change replaces only the slot its author had seen: of two    *)
(* that were prepared against one slot, one is refused.                    *)
PasswordChangeSawSlot ==
  [][\A s \in Sessions \ disturbed :
       /\ tampers = 0
       /\ phase[s] = "closure"
       /\ phase'[s] = "commit"
       /\ mem'[s].slot # mem[s].slot
       => prep[s] = file.slot + 1]_vars

(* What a session knows to be on disk never goes backwards while it is     *)
(* open, through refreshes, failed writes, rollbacks and overwrites.  (An  *)
(* overwrite raises the version floor before its write, and a failed one   *)
(* takes that back: overwrite_unmerged's before_format_ver.)               *)
KnowledgeNeverGoesBack ==
  [][\A s \in Sessions : phase[s] # "closed" /\ phase'[s] # "closed" =>
       /\ Continues(known[s].log, known'[s].log)
       /\ goal[s] # "overwrite" => known[s].ver <= known'[s].ver]_vars

(* Every call ends, whoever dies holding the lock.                         *)
CallsEnd ==
  \A s \in Sessions :
    phase[s] \notin {"closed", "idle"} ~> phase[s] \in {"closed", "idle"}
=============================================================================
