---------------------------- MODULE VaultFileProofs ----------------------------
(***************************************************************************)
(* Proofs about the vault file, for any number of sessions, device keys,   *)
(* faults, crashes, removals of the lock file and interfering programs.    *)
(***************************************************************************)
EXTENDS VaultFile, SequenceTheorems, TLAPS

-----------------------------------------------------------------------------
(* The lock file: mutual exclusion per inode, for any number of sessions  *)
(* and any number of removals of the file.                                 *)

\* Nothing is open and nothing exists at first.
LEMMA LockInitInv == LockInit => LockInv
BY DEF LockInit, LockInv, LockTypeOK, LockExclusive, HandlesCreated,
       LockStates, OwnsLock

\* Every step of every session, and the removal of the lock file, preserves
\* the invariant (vault/lock.rs, FileLock::acquire, attempt and Drop).
LEMMA LockStepInv ==
  ASSUME LockInv, [LockNext]_lockVars
  PROVE  LockInv'
<1> USE DEF LockInv, LockTypeOK, LockExclusive, HandlesCreated, LockStates,
            OwnsLock
<1>1. ASSUME NEW s \in Sessions, WantLock(s) PROVE LockInv'
  BY <1>1 DEF WantLock
<1>2. ASSUME NEW s \in Sessions, OpenLockFile(s) PROVE LockInv'
  <2>1. CASE lockFile # 0
    BY <1>2, <2>1 DEF OpenLockFile
  <2>2. CASE lockFile = 0
    BY <1>2, <2>2 DEF OpenLockFile
  <2> QED BY <2>1, <2>2
<1>3. ASSUME NEW s \in Sessions, TryLock(s) PROVE LockInv'
  <2>1. CASE Locked(handle[s])
    BY <1>3, <2>1 DEF TryLock
  <2>2. CASE ~Locked(handle[s])
    <3>1. \A t \in Sessions : OwnsLock(t) => handle[t] # handle[s]
      BY <2>2 DEF Locked
    <3> QED BY <1>3, <2>2, <3>1 DEF TryLock
  <2> QED BY <2>1, <2>2
<1>4. ASSUME NEW s \in Sessions, VerifyLock(s) PROVE LockInv'
  <2>1. CASE NamesHeldFile(s)
    BY <1>4, <2>1 DEF VerifyLock
  <2>2. CASE ~NamesHeldFile(s)
    BY <1>4, <2>2 DEF VerifyLock
  <2> QED BY <2>1, <2>2
<1>5. ASSUME NEW s \in Sessions, TimeOut(s) PROVE LockInv'
  BY <1>5 DEF TimeOut
<1>6. ASSUME NEW s \in Sessions, DropLock(s) PROVE LockInv'
  BY <1>6 DEF DropLock
<1>7. CASE RemoveLockFile
  BY <1>7 DEF RemoveLockFile
<1>8. CASE UNCHANGED lockVars
  BY <1>8 DEF lockVars
<1> QED
  BY <1>1, <1>2, <1>3, <1>4, <1>5, <1>6, <1>7, <1>8 DEF LockNext, AcquireStep

\* Two sessions never own the flock of the same inode, however often the lock file
\* is removed and created again. (FileLock::acquire, attempt and Drop.)
THEOREM LockMutualExclusion == LockSpec => []LockExclusive
<1>1. LockInv /\ [LockNext]_lockVars => LockInv'
  BY LockStepInv
<1>2. LockInv => LockExclusive
  BY DEF LockInv
<1> QED BY LockInitInv, <1>1, <1>2, PTL DEF LockSpec

-----------------------------------------------------------------------------
(* The lock: every step of the vault is a step of the lock or leaves it    *)
(* alone, so what holds of the lock holds of the vault.                    *)

LEMMA InitLockInv == Init => LockInv
BY LockInitInv DEF Init

LEMMA StepIsLockStep ==
  ASSUME [Next]_vars
  PROVE  [LockNext]_lockVars
<1> USE DEF LockNext, lockVars
<1>1. ASSUME NEW s \in Sessions, CallStep(s) PROVE [LockNext]_lockVars
  <2>1. CASE Acquire(s)
    BY <2>1 DEF Acquire
  <2>2. CASE \/ CatchUp(s) \/ OverwriteExamine(s) \/ CreateNewFile(s)
             \/ Flush(s) \/ Edit(s) \/ InstallPassword(s)
             \/ (\E d \in DeviceIds : AddDeviceKey(s, d) \/ RemoveDeviceKey(s, d))
             \/ Commit(s) \/ WriteTemp(s) \/ WriteFails(s) \/ RenameLosesReply(s)
    BY <2>2 DEF CatchUp, OverwriteExamine, CreateNewFile, Flush, Edit,
         InstallPassword, AddDeviceKey, RemoveDeviceKey, Commit, WriteTemp,
         WriteFails, RenameLosesReply, Closure
  <2>3. CASE \/ CatchUpRefused(s) \/ OverwriteRefused(s) \/ CreateRefused(s)
             \/ LockFails(s) \/ ReadFails(s)
             \/ PasswordConflict(s) \/ ClosureFails(s) \/ SealFails(s)
             \/ Rename(s) \/ ReadBackFinds(s) \/ ReadBackFails(s)
             \/ CreateFails(s)
    <3>1. DropLock(s)
      BY <2>3 DEF CatchUpRefused, OverwriteRefused, CreateRefused,
           PasswordConflict, ClosureFails, SealFails, Rename, ReadBackFinds,
           ReadBackFails, CreateFails, LockFails, ReadFails, Refuse,
           AbortClosure, BackOut, RecordWritten, EndCall
    <3> QED BY <3>1
  <2> QED BY <1>1, <2>1, <2>2, <2>3 DEF CallStep
<1>2. ASSUME NEW s \in Sessions, LockBusy(s) PROVE [LockNext]_lockVars
  <2>1. DropLock(s)
    BY <1>2 DEF LockBusy, Refuse, EndCall
  <2> QED BY <2>1
<1>3. ASSUME NEW s \in Sessions, CallerStep(s) PROVE [LockNext]_lockVars
  <2>1. CASE \/ Open(s) \/ Close(s) \/ QueueAudit(s) \/ Refresh(s)
             \/ ExamineConflict(s) \/ PreparePassword(s) \/ QueueInside(s)
    BY <2>1 DEF Open, Close, QueueAudit, Refresh, ExamineConflict,
         PreparePassword, QueueInside
  <2>2. CASE Create(s) \/ StartTransact(s) \/ StartOverwrite(s)
    <3>1. WantLock(s)
      BY <2>2 DEF Create, StartTransact, StartOverwrite, StartCall
    <3> QED BY <3>1
  <2> QED BY <1>3, <2>1, <2>2 DEF CallerStep
<1>4. ASSUME NEW s \in Sessions, Crash(s) PROVE [LockNext]_lockVars
  <2>1. DropLock(s)
    BY <1>4 DEF Crash
  <2> QED BY <2>1
<1>5. CASE RestoreOlderCopy \/ ReplaceVault
  BY <1>5 DEF RestoreOlderCopy, ReplaceVault, Interfere
<1>6. CASE LockFileRemoved
  BY <1>6 DEF LockFileRemoved
<1>7. CASE UNCHANGED vars
  BY <1>7 DEF vars
<1> QED
  BY <1>1, <1>2, <1>3, <1>4, <1>5, <1>6, <1>7 DEF Next

THEOREM VaultLockInv == Spec => []LockInv
<1>1. LockInv /\ [Next]_vars => LockInv'
  BY StepIsLockStep, LockStepInv
<1> QED BY InitLockInv, <1>1, PTL DEF Spec
-----------------------------------------------------------------------------
(* The types of what the steps compute.                                    *)

LEMMA NameTypes ==
  /\ "closed" \in Phases /\ "idle" \in Phases /\ "acquire" \in Phases
  /\ "closure" \in Phases /\ "commit" \in Phases /\ "write" \in Phases
  /\ "rename" \in Phases /\ "readback" \in Phases
  /\ "tx" \in Goals /\ "overwrite" \in Goals /\ "create" \in Goals
BY DEF Phases, Goals

LEMMA NothingTypes ==
  /\ <<>> \in Seq(Entry)
  /\ NoBody \in Body
  /\ NoFile \in Image
  /\ NoKnown \in Known
  /\ NoWrite \in Write
  /\ NoConflict \in Conflict
  /\ NoUndo \in Undo
<1>1. <<>> \in Seq(Entry)
  OBVIOUS
<1> QED
  BY <1>1 DEF NewBody, NoBody, NoFile, NoKnown, NoWrite, NoConflict, NoUndo,
     ImageOf, KnownOf, Image, Body, Known, Write, Conflict, Undo

\* The conversions between an image, a body and what is known of a file.
LEMMA ConversionTypes ==
  /\ \A f \in Image : BodyOf(f) \in Body /\ KnownOf(f) \in Known
  /\ \A b \in Body, g \in Nat, v \in Nat : ImageOf(b, g, v) \in Image
  /\ \A v \in Nat : NewBody(v) \in Body
<1>1. <<>> \in Seq(Entry)
  OBVIOUS
<1> QED
  BY <1>1 DEF BodyOf, KnownOf, ImageOf, NewBody, Image, Body, Known

\* A body or what is known of a file stays one when a field is assigned.
LEMMA FieldTypes ==
  /\ \A b \in Body, q \in Seq(Entry) : [b EXCEPT !.log = q] \in Body
  /\ \A b \in Body, q \in SUBSET DeviceIds, r \in SUBSET DeviceIds :
       [b EXCEPT !.devices = q, !.retired = r] \in Body
  /\ \A b \in Body, q \in SUBSET DeviceIds : [b EXCEPT !.devices = q] \in Body
  /\ \A b \in Body, n \in Nat : [b EXCEPT !.slot = n] \in Body
  /\ \A k \in Known, n \in Nat : [k EXCEPT !.ver = n] \in Known
BY DEF Body, Known

\* Concatenation, appending and cutting off a prefix keep a log a log.
LEMMA LogTypes ==
  ASSUME NEW p \in Seq(Entry), NEW q \in Seq(Entry)
  PROVE  /\ p \o q \in Seq(Entry)
         /\ \A e \in Entry : Append(p, e) \in Seq(Entry)
         /\ \A n \in Nat : SubSeq(p, n + 1, Len(p)) \in Seq(Entry)
<1>1. p \o q \in Seq(Entry)
  BY ConcatProperties
<1>2. \A e \in Entry : Append(p, e) \in Seq(Entry)
  BY AppendProperties
<1>3. ASSUME NEW n \in Nat PROVE SubSeq(p, n + 1, Len(p)) \in Seq(Entry)
  <2>1. \A i \in (n + 1)..Len(p) : p[i] \in Entry
    BY ElementOfSeq
  <2> QED BY <2>1, SubSeqProperties
<1> QED BY <1>1, <1>2, <1>3

\* The queue with the unwritten tail put back, and what settling leaves of it.
LEMMA QueueTypes ==
  ASSUME TypeOK, NEW s \in Sessions, NEW f
  PROVE  Requeued(s) \in Seq(Entry) /\ Settled(s, f) \in Seq(Entry)
<1>1. /\ mem[s].log \in Seq(Entry)
      /\ pending[s] \in Seq(Entry)
      /\ Len(known[s].log) \in Nat
      /\ unconf[s].drafts \in Nat
  BY LenProperties DEF TypeOK, MemoryTypeOK, Body, Known, Write
<1>2. SubSeq(mem[s].log, Len(known[s].log) + 1, Len(mem[s].log)) \in Seq(Entry)
  BY <1>1, LogTypes
<1>3. Requeued(s) \in Seq(Entry)
  BY <1>1, <1>2, LogTypes DEF Requeued
<1>4. SubSeq(Requeued(s), unconf[s].drafts + 1, Len(Requeued(s))) \in Seq(Entry)
  BY <1>1, <1>3, LogTypes
<1> QED BY <1>3, <1>4 DEF Settled

\* Init is well typed.
LEMMA InitTypeOK == Init => TypeOK
<1> SUFFICES ASSUME Init PROVE TypeOK
  OBVIOUS
<1>1. LockTypeOK
  BY InitLockInv DEF LockInv
<1>2. DiskTypeOK
  <2>1. FirstFile \in Image
    BY VaultAssumption, ConversionTypes, FieldTypes DEF FirstFile
  <2> QED BY <2>1, NothingTypes DEF Init, DiskTypeOK
<1>3. CallTypeOK
  BY DEF Init, CallTypeOK, Phases, Goals
<1>4. MemoryTypeOK /\ WorkTypeOK /\ UserTypeOK
  BY NothingTypes DEF Init, MemoryTypeOK, WorkTypeOK, UserTypeOK
<1>5. CountTypeOK
  BY <1>2 DEF Init, CountTypeOK, DiskTypeOK
<1> QED
  BY <1>1, <1>2, <1>3, <1>4, <1>5 DEF TypeOK

-----------------------------------------------------------------------------
(* The types after the operators that several steps share.                 *)

LEMMA EndCallTypes ==
  ASSUME CallTypeOK, WorkTypeOK, NEW s \in Sessions, NEW next \in Phases,
         EndCall(s, next)
  PROVE  CallTypeOK' /\ WorkTypeOK'
BY NameTypes, NothingTypes DEF EndCall, CallTypeOK, WorkTypeOK

LEMMA SweepTypes ==
  ASSUME DiskTypeOK, NEW s \in Sessions, Sweep(s), UNCHANGED <<file, backups>>
  PROVE  DiskTypeOK'
BY DEF Sweep, DiskTypeOK

LEMMA RefuseTypes ==
  ASSUME CallTypeOK, WorkTypeOK, MemoryTypeOK, NEW s \in Sessions, Refuse(s)
  PROVE  CallTypeOK' /\ WorkTypeOK' /\ MemoryTypeOK'
<1>1. EndCall(s, "closed") \/ EndCall(s, "idle")
  BY DEF Refuse
<1>2. CallTypeOK' /\ WorkTypeOK'
  BY <1>1, EndCallTypes, NameTypes
<1>3. mem' \in [Sessions -> Body] /\ known' \in [Sessions -> Known]
  BY NothingTypes DEF Refuse, MemoryTypeOK
<1>4. MemoryTypeOK'
  BY <1>3 DEF Refuse, MemoryTypeOK
<1> QED BY <1>2, <1>4

\* What a rolled back transaction or overwrite puts in memory.
LEMMA RollBackTypes ==
  ASSUME MemoryTypeOK, WorkTypeOK, NEW s \in Sessions,
         RollBack(s) \/ RestoreSession(s)
  PROVE  /\ mem' \in [Sessions -> Body]
         /\ known' \in [Sessions -> Known]
         /\ pending' \in [Sessions -> Seq(Entry)]
<1>1. CASE RollBack(s)
  <2>1. BodyOf(base[s]) \in Body /\ KnownOf(base[s]) \in Known
    BY ConversionTypes DEF WorkTypeOK
  <2>2. carried[s] \o pending[s] \in Seq(Entry)
    BY LogTypes DEF WorkTypeOK, MemoryTypeOK
  <2> QED BY <1>1, <2>1, <2>2 DEF RollBack, MemoryTypeOK
<1>2. CASE RestoreSession(s)
  <2>1. /\ undo[s].mem \in Body
        /\ undo[s].known \in Known
        /\ carried[s] \in Seq(Entry)
    BY DEF WorkTypeOK, Undo
  <2> QED BY <1>2, <2>1 DEF RestoreSession, MemoryTypeOK
<1> QED BY <1>1, <1>2

LEMMA BackOutTypes ==
  ASSUME CallTypeOK, WorkTypeOK, MemoryTypeOK, NEW s \in Sessions, BackOut(s),
         unconf' \in [Sessions -> Write]
  PROVE  CallTypeOK' /\ WorkTypeOK' /\ MemoryTypeOK'
<1>1. CallTypeOK' /\ WorkTypeOK'
  BY EndCallTypes, NameTypes DEF BackOut
<1>2. MemoryTypeOK'
  BY RollBackTypes DEF BackOut, MemoryTypeOK
<1> QED BY <1>1, <1>2

LEMMA RecordWrittenTypes ==
  ASSUME CallTypeOK, WorkTypeOK, MemoryTypeOK, NEW s \in Sessions,
         RecordWritten(s)
  PROVE  CallTypeOK' /\ WorkTypeOK' /\ MemoryTypeOK'
<1>1. CallTypeOK' /\ WorkTypeOK'
  BY EndCallTypes, NameTypes DEF RecordWritten
<1>2. KnownOf(sealed[s]) \in Known
  BY ConversionTypes DEF WorkTypeOK
<1>3. MemoryTypeOK'
  BY <1>2, NothingTypes DEF RecordWritten, MemoryTypeOK
<1> QED BY <1>1, <1>3

LEMMA ForgetTypes ==
  ASSUME TypeOK, NEW s \in Sessions, Forget(s)
  PROVE  /\ CallTypeOK' /\ WorkTypeOK' /\ MemoryTypeOK' /\ UserTypeOK'
         /\ swept' \in [Sessions -> BOOLEAN]
         /\ past' \subseteq Image
         /\ drafted' \in [Sessions -> SUBSET Entry]
         /\ disturbed' \subseteq Sessions
<1>1. CallTypeOK'
  BY NameTypes DEF Forget, TypeOK, CallTypeOK
<1>2. WorkTypeOK'
  BY NothingTypes DEF Forget, TypeOK, WorkTypeOK
<1>3. MemoryTypeOK'
  BY NothingTypes DEF Forget, TypeOK, MemoryTypeOK
<1>4. UserTypeOK'
  BY NothingTypes DEF Forget, TypeOK, UserTypeOK
<1> QED
  BY <1>1, <1>2, <1>3, <1>4 DEF Forget, TypeOK, DiskTypeOK, CountTypeOK

LEMMA ClosureTypes ==
  ASSUME TypeOK, NEW s \in Sessions, NEW body \in Body, NEW own \in {0, 1},
         Closure(s, body, own), prep' \in [Sessions -> Nat]
  PROVE  /\ DiskTypeOK' /\ CallTypeOK' /\ MemoryTypeOK' /\ WorkTypeOK'
         /\ UserTypeOK' /\ CountTypeOK'
<1>1. CallTypeOK'
  BY NameTypes DEF Closure, TypeOK, CallTypeOK
<1>2. Append(body.log, entries + 1) \in Seq(Entry)
  <2>1. body.log \in Seq(Entry) /\ entries + 1 \in Entry
    BY DEF TypeOK, CountTypeOK, Body, Entry
  <2> QED BY <2>1, LogTypes
<1>3. (IF own = 0 THEN body ELSE [body EXCEPT !.log = Append(@, entries + 1)])
        \in Body
  BY <1>2, FieldTypes
<1>4. MemoryTypeOK'
  BY <1>3 DEF Closure, TypeOK, MemoryTypeOK
<1>5. CountTypeOK'
  BY DEF Closure, TypeOK, CountTypeOK, histVars
<1> QED
  BY <1>1, <1>4, <1>5
     DEF Closure, TypeOK, DiskTypeOK, WorkTypeOK, UserTypeOK, diskVars

-----------------------------------------------------------------------------
(* Type correctness, one action at a time.                                 *)

\* Every part of TypeOK but the lock's, which VaultLockInv is about.
Typed == /\ DiskTypeOK /\ CallTypeOK /\ MemoryTypeOK
         /\ WorkTypeOK /\ UserTypeOK /\ CountTypeOK

\* The caller's steps between calls.
LEMMA CallerTypes ==
  ASSUME TypeOK, NEW s \in Sessions, CallerStep(s) \/ LockBusy(s) \/ Crash(s)
  PROVE  Typed'
<1>1. Typed
  BY DEF TypeOK, Typed
<1> USE DEF Typed
<1>2. CASE Open(s)
  <2>1. BodyOf(file) \in Body /\ KnownOf(file) \in Known
    BY <1>1, ConversionTypes DEF DiskTypeOK
  <2>2. MemoryTypeOK'
    BY <1>1, <1>2, <2>1 DEF Open, MemoryTypeOK
  <2>3. CallTypeOK'
    BY <1>1, <1>2, NameTypes DEF Open, CallTypeOK
  <2> QED
    BY <1>1, <1>2, <2>2, <2>3 DEF Open, DiskTypeOK, WorkTypeOK, UserTypeOK,
       CountTypeOK, diskVars, userVars, countVars, histVars
<1>3. CASE Create(s)
  <2>1. NewBody(seals + 1) \in Body
    BY <1>1, ConversionTypes DEF CountTypeOK
  <2>2. [NoKnown EXCEPT !.ver = 1] \in Known
    BY NothingTypes, FieldTypes
  <2>3. MemoryTypeOK'
    BY <1>1, <1>3, <2>1, <2>2 DEF Create, MemoryTypeOK
  <2>4. CallTypeOK'
    BY <1>1, <1>3, NameTypes DEF Create, CallTypeOK
  <2> QED
    BY <1>1, <1>3, <2>3, <2>4 DEF Create, DiskTypeOK, WorkTypeOK, UserTypeOK,
       CountTypeOK, diskVars, userVars, countVars, histVars
<1>4. CASE Close(s) \/ Crash(s)
  <2>1. Forget(s)
    BY <1>4 DEF Close, Crash
  <2>2. DiskTypeOK'
    BY <1>1, <1>4, <2>1, ForgetTypes DEF Close, Crash, diskVars, DiskTypeOK
  <2>3. CountTypeOK'
    BY <1>1, <1>4, <2>1, ForgetTypes DEF Close, Crash, countVars, CountTypeOK
  <2> QED BY <2>1, <2>2, <2>3, ForgetTypes
<1>5. CASE QueueAudit(s) \/ QueueInside(s)
  <2>1. entries + 1 \in Entry
    BY <1>1 DEF CountTypeOK, Entry
  <2>2. Append(pending[s], entries + 1) \in Seq(Entry)
    BY <1>1, <2>1, LogTypes DEF MemoryTypeOK
  <2>3. MemoryTypeOK'
    BY <1>1, <1>5, <2>2 DEF QueueAudit, QueueInside, MemoryTypeOK
  <2>4. CountTypeOK'
    BY <1>1, <1>5, <2>1 DEF QueueAudit, QueueInside, CountTypeOK
  <2> QED
    BY <1>1, <1>5, <2>3, <2>4 DEF QueueAudit, QueueInside, DiskTypeOK,
       CallTypeOK, WorkTypeOK, UserTypeOK, diskVars, userVars
<1>6. CASE Refresh(s)
  <2>1. /\ BodyOf(file) \in Body /\ KnownOf(file) \in Known
        /\ Settled(s, file) \in Seq(Entry)
    BY <1>1, ConversionTypes, QueueTypes DEF DiskTypeOK
  <2>2. MemoryTypeOK'
    BY ZenonT(60), <1>1, <1>6, <2>1, NothingTypes DEF Refresh, Adopt, MemoryTypeOK
  <2> QED
    BY <1>1, <1>6, <2>2 DEF Refresh, DiskTypeOK, CallTypeOK, WorkTypeOK,
       UserTypeOK, CountTypeOK, diskVars, userVars, countVars, histVars
<1>7. CASE ExamineConflict(s)
  <2>1. file.gen \in Nat
    BY <1>1 DEF DiskTypeOK, Image
  <2>2. ConflictWith(s, file) \in Conflict
    BY <2>1 DEF ConflictWith, NoConflict, Conflict
  <2>3. UserTypeOK'
    BY <1>1, <1>7, <2>2 DEF ExamineConflict, UserTypeOK
  <2> QED
    BY <1>1, <1>7, <2>3 DEF ExamineConflict, DiskTypeOK, CallTypeOK,
       MemoryTypeOK, WorkTypeOK, CountTypeOK, diskVars, bodyVars, countVars,
       histVars
<1>8. CASE PreparePassword(s)
  <2>1. mem[s].slot + 1 \in Nat
    BY <1>1 DEF MemoryTypeOK, Body
  <2>2. UserTypeOK'
    BY <1>1, <1>8, <2>1 DEF PreparePassword, UserTypeOK
  <2> QED
    BY <1>1, <1>8, <2>2 DEF PreparePassword, DiskTypeOK, CallTypeOK,
       MemoryTypeOK, WorkTypeOK, CountTypeOK, diskVars, bodyVars, countVars,
       histVars
<1>9. CASE StartTransact(s) \/ StartOverwrite(s)
  <2>1. StartCall(s, "tx") \/ StartCall(s, "overwrite")
    BY <1>9 DEF StartTransact, StartOverwrite
  <2>2. CallTypeOK'
    BY <1>1, <2>1, NameTypes DEF StartCall, CallTypeOK
  <2> QED
    BY <1>1, <2>1, <2>2 DEF StartCall, DiskTypeOK, MemoryTypeOK, WorkTypeOK,
       UserTypeOK, CountTypeOK, diskVars, bodyVars, userVars, countVars, histVars
<1>10. CASE LockBusy(s)
  BY <1>1, <1>10, RefuseTypes DEF LockBusy, DiskTypeOK, UserTypeOK, CountTypeOK,
     diskVars, userVars, countVars, histVars
<1> QED
  BY <1>2, <1>3, <1>4, <1>5, <1>6, <1>7, <1>8, <1>9, <1>10 DEF CallerStep

\* From the lock to the closure, of every kind of call.
LEMMA BeginTypes ==
  ASSUME TypeOK, NEW s \in Sessions,
         \/ Acquire(s) \/ LockFails(s) \/ ReadFails(s)
         \/ CatchUp(s) \/ CatchUpRefused(s)
         \/ OverwriteExamine(s) \/ OverwriteRefused(s)
         \/ CreateNewFile(s) \/ CreateRefused(s)
  PROVE  Typed'
<1>1. Typed
  BY DEF TypeOK, Typed
<1> USE DEF Typed
<1>2. CASE Acquire(s)
  BY <1>1, <1>2 DEF Acquire, DiskTypeOK, CallTypeOK, MemoryTypeOK, WorkTypeOK,
     UserTypeOK, CountTypeOK, diskVars, bodyVars, userVars, countVars, histVars
<1>3. CASE CatchUp(s)
  <2> DEFINE same  == file.gen = known[s].gen
             queue == IF same THEN Requeued(s) ELSE Settled(s, file)
             body  == IF same THEN mem[s] ELSE BodyOf(file)
             disk  == IF same THEN known[s] ELSE KnownOf(file)
             log   == disk.log \o queue
  <2>1. queue \in Seq(Entry)
    BY QueueTypes
  <2>2. body \in Body /\ disk \in Known
    BY <1>1, ConversionTypes DEF MemoryTypeOK, DiskTypeOK
  <2>3. disk.log \in Seq(Entry)
    BY <2>2 DEF Known
  <2>4. log \in Seq(Entry)
    BY <2>1, <2>3, LogTypes
  <2>5. [body EXCEPT !.log = log] \in Body
    BY <2>2, <2>4, FieldTypes
  <2>6. /\ carried' = [carried EXCEPT ![s] = queue]
        /\ mem' = [mem EXCEPT ![s] = [body EXCEPT !.log = log]]
        /\ known' = [known EXCEPT ![s] = disk]
        /\ unconf' = [unconf EXCEPT ![s] = NoWrite]
        /\ pending' = [pending EXCEPT ![s] = <<>>]
    BY <1>3 DEF CatchUp
  <2> HIDE DEF queue, body, disk, log
  <2>7. MemoryTypeOK'
    BY <1>1, <2>2, <2>5, <2>6, NothingTypes DEF MemoryTypeOK
  <2>8. WorkTypeOK'
    BY <1>1, <1>3, <2>1, <2>6 DEF CatchUp, WorkTypeOK, DiskTypeOK
  <2>9. CallTypeOK'
    BY <1>1, <1>3, NameTypes DEF CatchUp, CallTypeOK
  <2>10. DiskTypeOK'
    BY <1>1, <1>3, SweepTypes DEF CatchUp
  <2> QED
    BY <1>1, <1>3, <2>7, <2>8, <2>9, <2>10
       DEF CatchUp, UserTypeOK, CountTypeOK, userVars, countVars, histVars
<1>4. CASE CatchUpRefused(s) \/ OverwriteRefused(s)
  <2>1. Refuse(s) /\ Sweep(s) /\ UNCHANGED <<file, backups>>
    BY <1>4 DEF CatchUpRefused, OverwriteRefused
  <2> QED
    BY <1>1, <1>4, <2>1, RefuseTypes, SweepTypes DEF CatchUpRefused,
       OverwriteRefused, UserTypeOK, CountTypeOK, userVars, countVars, histVars
<1>5. CASE OverwriteExamine(s)
  <2> DEFINE other == IF confirmed[s].kind = "diverged" THEN file ELSE NoFile
             log   == Append(mem[s].log \o pending[s], entries + 1)
             body  == [mem[s] EXCEPT !.devices = MergedDevices(s, other),
                                     !.retired = MergedRetired(s, other),
                                     !.log = log]
             ver   == IF other.ver > known[s].ver THEN other.ver ELSE known[s].ver
  <2>1. other \in Image /\ mem[s] \in Body /\ known[s] \in Known
    BY <1>1, NothingTypes DEF DiskTypeOK, MemoryTypeOK
  <2>2. ver \in Nat
    BY <2>1 DEF Image, Known
  <2>3. log \in Seq(Entry)
    <3>1. mem[s].log \o pending[s] \in Seq(Entry)
      BY <1>1, <2>1, LogTypes DEF Body, MemoryTypeOK
    <3>2. entries + 1 \in Entry
      BY <1>1 DEF CountTypeOK, Entry
    <3> QED BY <3>1, <3>2, LogTypes
  <2>4. /\ MergedDevices(s, other) \in SUBSET DeviceIds
        /\ MergedRetired(s, other) \in SUBSET DeviceIds
    BY <2>1 DEF MergedDevices, MergedRetired, Image, Body
  <2>5. body \in Body
    BY <2>1, <2>3, <2>4 DEF Body
  <2>6. [known[s] EXCEPT !.ver = ver] \in Known
    BY <2>1, <2>2, FieldTypes
  <2>7. /\ mem' = [mem EXCEPT ![s] = body]
        /\ known' = [known EXCEPT ![s] = [known[s] EXCEPT !.ver = ver]]
        /\ pending' = [pending EXCEPT ![s] = <<>>]
        /\ UNCHANGED unconf
    BY <1>1, <1>5 DEF OverwriteExamine, MemoryTypeOK, Known
  <2> HIDE DEF body, ver
  <2>8. MemoryTypeOK'
    BY <1>1, <2>5, <2>6, <2>7, NothingTypes DEF MemoryTypeOK
  <2>9. [mem |-> mem[s], known |-> known[s]] \in Undo
    BY <2>1 DEF Undo
  <2>10. WorkTypeOK'
    BY <1>1, <1>5, <2>9 DEF OverwriteExamine, WorkTypeOK, DiskTypeOK,
       MemoryTypeOK
  <2>11. CallTypeOK'
    BY <1>1, <1>5, NameTypes DEF OverwriteExamine, CallTypeOK
  <2>12. DiskTypeOK'
    BY <1>1, <1>5, SweepTypes DEF OverwriteExamine
  <2> QED
    BY <1>1, <1>5, <2>8, <2>10, <2>11, <2>12
       DEF OverwriteExamine, UserTypeOK, CountTypeOK, userVars, histVars
<1>6. CASE CreateNewFile(s)
  <2>1. CallTypeOK'
    BY <1>1, <1>6, NameTypes DEF CreateNewFile, CallTypeOK
  <2>2. DiskTypeOK'
    BY <1>1, <1>6, SweepTypes DEF CreateNewFile
  <2> QED
    BY <1>1, <1>6, <2>1, <2>2 DEF CreateNewFile, MemoryTypeOK, WorkTypeOK,
       UserTypeOK, CountTypeOK, bodyVars, userVars, countVars, histVars
<1>7. CASE CreateRefused(s)
  <2>1. DiskTypeOK'
    BY <1>1, <1>7 DEF CreateRefused, DiskTypeOK
  <2> QED
    BY <1>1, <1>7, <2>1, RefuseTypes DEF CreateRefused, UserTypeOK, CountTypeOK,
       userVars, countVars, histVars
<1>8. CASE LockFails(s) \/ ReadFails(s)
  <2>1. /\ Refuse(s) /\ Fault
        /\ UNCHANGED <<userVars, entries, seals, crashes, interference, histVars>>
    BY <1>8 DEF LockFails, ReadFails
  <2>2. DiskTypeOK' /\ swept' \in [Sessions -> BOOLEAN]
    BY <1>1, <1>8, SweepTypes DEF LockFails, ReadFails, DiskTypeOK, UserTypeOK,
       diskVars
  <2> QED
    BY <1>1, <2>1, <2>2, RefuseTypes DEF Fault, UserTypeOK, CountTypeOK,
       userVars, histVars
<1> QED BY <1>2, <1>3, <1>4, <1>5, <1>6, <1>7, <1>8

\* The closure of a transaction, and a closure that fails.
LEMMA ClosureStepTypes ==
  ASSUME TypeOK, NEW s \in Sessions,
         \/ Flush(s) \/ Edit(s) \/ InstallPassword(s) \/ PasswordConflict(s)
         \/ (\E d \in DeviceIds : AddDeviceKey(s, d) \/ RemoveDeviceKey(s, d))
         \/ ClosureFails(s)
  PROVE  Typed'
<1>1. Typed
  BY DEF TypeOK, Typed
<1> USE DEF Typed
<1>2. mem[s] \in Body /\ entries + 1 \in Nat
  BY <1>1 DEF MemoryTypeOK, CountTypeOK
<1>3. CASE Flush(s) \/ Edit(s)
  <2>1. prep' \in [Sessions -> Nat]
    BY <1>1, <1>3 DEF Flush, Edit, UserTypeOK
  <2>2. Closure(s, mem[s], 0) \/ Closure(s, mem[s], 1)
    BY <1>3 DEF Flush, Edit
  <2> QED BY <1>2, <2>1, <2>2, ClosureTypes
<1>4. CASE InstallPassword(s)
  <2>1. prep' \in [Sessions -> Nat]
    BY <1>1, <1>4 DEF InstallPassword, UserTypeOK
  <2>2. [mem[s] EXCEPT !.slot = entries + 1] \in Body
    BY <1>2, FieldTypes
  <2>3. Closure(s, [mem[s] EXCEPT !.slot = entries + 1], 1)
    BY <1>4 DEF InstallPassword
  <2> QED BY <2>1, <2>2, <2>3, ClosureTypes
<1>5. ASSUME NEW d \in DeviceIds, AddDeviceKey(s, d) \/ RemoveDeviceKey(s, d)
      PROVE  Typed'
  <2> DEFINE added   == [mem[s] EXCEPT !.devices = mem[s].devices \cup {d}]
             removed == [mem[s] EXCEPT !.devices = mem[s].devices \ {d},
                                       !.retired = mem[s].retired \cup {d}]
  <2>1. prep' \in [Sessions -> Nat]
    BY <1>1, <1>5 DEF AddDeviceKey, RemoveDeviceKey, UserTypeOK
  <2>2. mem[s].devices \subseteq DeviceIds /\ mem[s].retired \subseteq DeviceIds
    BY <1>2 DEF Body
  <2>3. added \in Body /\ removed \in Body
    BY <1>2, <2>2, FieldTypes
  <2>4. Closure(s, added, 1) \/ Closure(s, removed, 1)
    BY <1>5 DEF AddDeviceKey, RemoveDeviceKey
  <2> QED BY <2>1, <2>3, <2>4, ClosureTypes
<1>6. CASE PasswordConflict(s) \/ ClosureFails(s)
  <2>1. AbortClosure(s) /\ prep' \in [Sessions -> Nat]
    BY <1>1, <1>6 DEF PasswordConflict, ClosureFails, UserTypeOK
  <2>2. CallTypeOK' /\ WorkTypeOK'
    BY <1>1, <2>1, EndCallTypes, NameTypes DEF AbortClosure
  <2>3. MemoryTypeOK'
    BY <1>1, <2>1, RollBackTypes, NothingTypes DEF AbortClosure, MemoryTypeOK
  <2> QED
    BY <1>1, <2>1, <2>2, <2>3 DEF AbortClosure, DiskTypeOK, UserTypeOK,
       CountTypeOK, diskVars, countVars
<1> QED BY <1>3, <1>4, <1>5, <1>6

\* The write and what follows a write that failed.
LEMMA WriteTypes ==
  ASSUME TypeOK, NEW s \in Sessions,
         \/ Commit(s) \/ SealFails(s) \/ WriteTemp(s) \/ WriteFails(s)
         \/ Rename(s) \/ RenameLosesReply(s)
         \/ ReadBackFinds(s) \/ ReadBackFails(s) \/ CreateFails(s)
  PROVE  Typed'
<1>1. Typed
  BY DEF TypeOK, Typed
<1> USE DEF Typed
<1>2. Fault => faults' \in Nat
  BY <1>1 DEF Fault, CountTypeOK
<1>3. CASE Commit(s)
  <2> DEFINE log   == mem[s].log \o pending[s]
             body  == [mem[s] EXCEPT !.log = log]
             image == ImageOf(body, seals + 1, VersionToWrite(s))
  <2>1. /\ mem[s] \in Body /\ pending[s] \in Seq(Entry)
        /\ carried[s] \in Seq(Entry) /\ known[s] \in Known
        /\ seals + 1 \in Nat
    BY <1>1 DEF MemoryTypeOK, WorkTypeOK, CountTypeOK
  <2>2. log \in Seq(Entry) /\ carried[s] \o pending[s] \in Seq(Entry)
    BY <2>1, LogTypes DEF Body
  <2>3. body \in Body
    BY <2>1, <2>2, FieldTypes
  <2>4. VersionToWrite(s) \in Nat
    BY <2>1 DEF VersionToWrite, Known
  <2>5. image \in Image
    BY <2>1, <2>3, <2>4, ConversionTypes
  <2>6. /\ mem' = [mem EXCEPT ![s] = body]
        /\ sealed' = [sealed EXCEPT ![s] = image]
        /\ carried' = [carried EXCEPT ![s] = carried[s] \o pending[s]]
        /\ pending' = [pending EXCEPT ![s] = <<>>]
        /\ UNCHANGED <<known, unconf, base, undo>>
    BY <1>1, <1>3 DEF Commit, MemoryTypeOK, WorkTypeOK, Body
  <2> HIDE DEF body, image
  <2>7. MemoryTypeOK'
    BY <1>1, <2>3, <2>6, NothingTypes DEF MemoryTypeOK
  <2>8. WorkTypeOK'
    BY <1>1, <2>2, <2>5, <2>6 DEF WorkTypeOK
  <2>9. CallTypeOK'
    BY <1>1, <1>3, NameTypes DEF Commit, CallTypeOK
  <2>10. DiskTypeOK'
    <3>1. base[s].gen \in Nat
      BY <1>1 DEF WorkTypeOK, Image
    <3>2. backups' \subseteq backups \cup {base[s].gen}
      BY <1>3 DEF Commit
    <3> QED BY <1>1, <1>3, <3>1, <3>2 DEF Commit, DiskTypeOK
  <2> QED
    BY <1>1, <1>3, <2>1, <2>7, <2>8, <2>9, <2>10
       DEF Commit, UserTypeOK, CountTypeOK, userVars, histVars
<1>4. CASE SealFails(s)
  <2>1. unconf' \in [Sessions -> Write]
    BY <1>1, <1>4 DEF SealFails, MemoryTypeOK
  <2>2. CallTypeOK' /\ WorkTypeOK' /\ MemoryTypeOK'
    BY <1>1, <1>4, <2>1, BackOutTypes DEF SealFails
  <2> QED
    BY <1>1, <1>2, <1>4, <2>2 DEF SealFails, DiskTypeOK, UserTypeOK,
       CountTypeOK, diskVars, userVars
<1>5. CASE WriteTemp(s) \/ WriteFails(s)
  <2>1. DiskTypeOK'
    BY <1>1, <1>5 DEF WriteTemp, WriteFails, DiskTypeOK
  <2>2. CallTypeOK'
    BY <1>1, <1>5, NameTypes DEF WriteTemp, WriteFails, CallTypeOK
  <2>3. CountTypeOK'
    BY <1>1, <1>2, <1>5 DEF WriteTemp, WriteFails, CountTypeOK, countVars, histVars
  <2> QED
    BY <1>1, <1>5, <2>1, <2>2, <2>3 DEF WriteTemp, WriteFails, MemoryTypeOK,
       WorkTypeOK, UserTypeOK, bodyVars, userVars
<1>6. CASE Rename(s) \/ RenameLosesReply(s)
  <2>1. Land(s)
    BY <1>6 DEF Rename, RenameLosesReply
  <2>2. sealed[s] \in Image
    BY <1>1 DEF WorkTypeOK
  <2>3. DiskTypeOK'
    BY <1>1, <1>6, <2>1, <2>2 DEF Land, Rename, RenameLosesReply, DiskTypeOK
  <2>4. past' \subseteq Image /\ Overrun(s) \subseteq Sessions
    BY <1>1, <2>1, <2>2 DEF Land, Overrun, CountTypeOK
  <2>5. CountTypeOK'
    BY <1>1, <1>2, <1>6, <2>4 DEF Rename, RenameLosesReply, CountTypeOK, countVars
  <2>6. CASE Rename(s)
    BY <1>1, <2>3, <2>5, <2>6, RecordWrittenTypes DEF Rename, UserTypeOK, userVars
  <2>7. CASE RenameLosesReply(s)
    <3>1. CallTypeOK'
      BY <1>1, <2>7, NameTypes DEF RenameLosesReply, CallTypeOK
    <3> QED
      BY <1>1, <2>3, <2>5, <2>7, <3>1 DEF RenameLosesReply, MemoryTypeOK,
         WorkTypeOK, UserTypeOK, bodyVars, userVars
  <2> QED BY <1>6, <2>6, <2>7
<1>7. CASE ReadBackFinds(s)
  BY <1>1, <1>7, RecordWrittenTypes DEF ReadBackFinds, DiskTypeOK, UserTypeOK,
     CountTypeOK, diskVars, userVars, countVars
<1>8. CASE ReadBackFails(s)
  <2> DEFINE attempt == [log |-> sealed[s].log, drafts |-> Len(carried[s])]
  <2>1. attempt \in Write
    BY <1>1, LenProperties DEF WorkTypeOK, Image, Write
  <2>2. unconf' = [unconf EXCEPT ![s] = attempt]
    BY <1>8 DEF ReadBackFails
  <2>3. unconf' \in [Sessions -> Write]
    BY <1>1, <2>1, <2>2 DEF MemoryTypeOK
  <2>4. CallTypeOK' /\ WorkTypeOK' /\ MemoryTypeOK'
    BY <1>1, <1>8, <2>3, BackOutTypes DEF ReadBackFails
  <2>5. CountTypeOK'
    BY <1>1, <1>2, <1>8 DEF ReadBackFails, CountTypeOK
  <2> QED
    BY <1>1, <1>8, <2>4, <2>5 DEF ReadBackFails, DiskTypeOK, UserTypeOK,
       diskVars, userVars
<1>9. CASE CreateFails(s)
  <2>1. CountTypeOK'
    BY <1>1, <1>2, <1>9 DEF CreateFails, CountTypeOK
  <2>2. DiskTypeOK'
    BY <1>1, <1>9 DEF CreateFails, DiskTypeOK, diskVars
  <2> QED
    BY <1>1, <1>9, <2>1, <2>2, RefuseTypes DEF CreateFails, UserTypeOK, userVars
<1> QED BY <1>3, <1>4, <1>5, <1>6, <1>7, <1>8, <1>9

\* Other programs.
LEMMA IntruderTypes ==
  ASSUME TypeOK, RestoreOlderCopy \/ ReplaceVault \/ LockFileRemoved
  PROVE  Typed'
<1>1. Typed
  BY DEF TypeOK, Typed
<1> USE DEF Typed
<1>2. ASSUME NEW f \in Image, Interfere(f), seals' \in Nat PROVE Typed'
  <2>1. DiskTypeOK'
    BY <1>1, <1>2 DEF Interfere, DiskTypeOK
  <2>2. CountTypeOK'
    BY <1>1, <1>2 DEF Interfere, CountTypeOK
  <2> QED
    BY <1>1, <1>2, <2>1, <2>2 DEF Interfere, CallTypeOK, MemoryTypeOK,
       WorkTypeOK, UserTypeOK, bodyVars, userVars
<1>3. CASE RestoreOlderCopy
  <2>1. PICK f \in past \cup {NoFile} : Interfere(f) /\ UNCHANGED seals
    BY <1>3 DEF RestoreOlderCopy
  <2>2. f \in Image /\ seals' \in Nat
    BY <1>1, <2>1, NothingTypes DEF CountTypeOK
  <2> QED BY <1>2, <2>1, <2>2
<1>4. CASE ReplaceVault
  <2>1. ImageOf(NewBody(seals + 1), seals + 1, 1) \in Image /\ seals + 1 \in Nat
    BY <1>1, ConversionTypes DEF CountTypeOK
  <2> QED BY <1>2, <1>4, <2>1 DEF ReplaceVault
<1>5. CASE LockFileRemoved
  BY <1>1, <1>5 DEF LockFileRemoved, DiskTypeOK, CallTypeOK, MemoryTypeOK,
     WorkTypeOK, UserTypeOK, CountTypeOK, diskVars, bodyVars, userVars, countVars
<1> QED BY <1>3, <1>4, <1>5

LEMMA StepTypeOK ==
  ASSUME TypeOK, LockInv, [Next]_vars
  PROVE  TypeOK'
<1>1. LockTypeOK'
  BY StepIsLockStep, LockStepInv DEF LockInv
<1>2. Typed'
  <2>1. ASSUME NEW s \in Sessions, CallStep(s) PROVE Typed'
    BY <2>1, BeginTypes, ClosureStepTypes, WriteTypes DEF CallStep
  <2>2. ASSUME NEW s \in Sessions, CallerStep(s) \/ LockBusy(s) \/ Crash(s)
        PROVE  Typed'
    BY <2>2, CallerTypes
  <2>3. CASE RestoreOlderCopy \/ ReplaceVault \/ LockFileRemoved
    BY <2>3, IntruderTypes
  <2>4. CASE UNCHANGED vars
    BY <2>4 DEF TypeOK, Typed, DiskTypeOK, CallTypeOK, MemoryTypeOK, WorkTypeOK,
       UserTypeOK, CountTypeOK, vars, diskVars, bodyVars, userVars, countVars,
       histVars
  <2> QED BY <2>1, <2>2, <2>3, <2>4 DEF Next
<1> QED BY <1>1, <1>2 DEF TypeOK, Typed

(* Every variable keeps its type: in particular entries, generations and   *)
(* inodes are given out from counters that only grow, and no step chains   *)
(* or queues anything but an entry.                                        *)
THEOREM TypeCorrectness == Spec => []TypeOK
<1>1. TypeOK /\ LockInv /\ [Next]_vars => TypeOK'
  BY StepTypeOK
<1> QED BY InitTypeOK, VaultLockInv, <1>1, PTL DEF Spec

-----------------------------------------------------------------------------
(* One writer at a time.                                                   *)

\* The part of WriterInv that is not about the lock alone.
WindowInv == /\ WindowUnderLock /\ WriterStillCurrent
             /\ BaseStillCurrent /\ NoBaseOutsideCall

\* The functions the argument reads, and where one session was.
LEMMA ControlTypes ==
  ASSUME TypeOK
  PROVE  /\ phase \in [Sessions -> Phases]
         /\ lk \in [Sessions -> LockStates]
         /\ handle \in [Sessions -> Nat]
         /\ base \in [Sessions -> Image]
         /\ disturbed \subseteq Sessions
         /\ inodes \in Nat
BY DEF TypeOK, LockTypeOK, CallTypeOK, WorkTypeOK, CountTypeOK

\* A step of s that leaves the file, the path's inode and the other sessions
\* alone and does not bring or keep s in its window.
LeavesWindow(s) ==
  /\ UNCHANGED <<file, lockFile>>
  /\ disturbed \ {s} \subseteq disturbed'
  /\ phase'[s] \notin InWindow
  /\ phase'[s] \in {"closed", "idle", "acquire"} => base'[s] = NoFile
  /\ \A t \in Sessions \ {s} :
       /\ phase'[t] = phase[t] /\ lk'[t] = lk[t]
       /\ handle'[t] = handle[t] /\ base'[t] = base[t]

LEMMA LeavesWindowInv ==
  ASSUME TypeOK, WindowInv, NEW s \in Sessions, LeavesWindow(s)
  PROVE  WindowInv'
BY DEF LeavesWindow, WindowInv, WindowUnderLock, WriterStillCurrent,
   BaseStillCurrent, NoBaseOutsideCall, NamesHeldFile, InWindow, Writing

\* A step of s within its window that changes neither its base nor its lock.
StaysInWindow(s) ==
  /\ UNCHANGED <<file, lockFile, lk, handle, base>>
  /\ disturbed \subseteq disturbed'
  /\ phase[s] \in InWindow
  /\ phase'[s] \in InWindow
  /\ phase'[s] \in Writing => phase[s] \in Writing \/ NamesHeldFile(s)
  /\ \A t \in Sessions \ {s} : phase'[t] = phase[t]

LEMMA StaysInWindowInv ==
  ASSUME TypeOK, WindowInv, NEW s \in Sessions, StaysInWindow(s)
  PROVE  WindowInv'
BY DEF StaysInWindow, WindowInv, WindowUnderLock, WriterStillCurrent,
   BaseStillCurrent, NoBaseOutsideCall, NamesHeldFile, InWindow, Writing

\* The end of a call leaves the window.
LEMMA EndCallLeaves ==
  ASSUME TypeOK, NEW s \in Sessions, NEW next \in {"idle", "closed"},
         EndCall(s, next), UNCHANGED file, disturbed \ {s} \subseteq disturbed'
  PROVE  LeavesWindow(s)
BY ControlTypes DEF EndCall, DropLock, LeavesWindow, InWindow

LEMMA RefuseLeaves ==
  ASSUME TypeOK, NEW s \in Sessions, Refuse(s), UNCHANGED file,
         disturbed \ {s} \subseteq disturbed'
  PROVE  LeavesWindow(s)
BY EndCallLeaves DEF Refuse

\* Landing a write: a session that still had its lock and base is the only
\* one whose lock the path names, and any other one disturbs the rest.
LEMMA LandInv ==
  ASSUME TypeOK, LockInv, WindowInv, NEW s \in Sessions,
         Land(s), UNCHANGED lockFile,
         disturbed' \cup {s} = disturbed \cup Overrun(s) \cup {s},
         phase'[s] \notin InWindow,
         phase'[s] \in {"closed", "idle", "acquire"} => base'[s] = NoFile,
         \A t \in Sessions \ {s} :
           /\ phase'[t] = phase[t] /\ lk'[t] = lk[t]
           /\ handle'[t] = handle[t] /\ base'[t] = base[t]
  PROVE  WindowInv'
<1>1. phase[s] = "rename"
  BY DEF Land
<1>2. WindowUnderLock' /\ NoBaseOutsideCall'
  BY DEF WindowInv, WindowUnderLock, NoBaseOutsideCall
<1>3. WriterStillCurrent'
  BY DEF WindowInv, WriterStillCurrent, NamesHeldFile, InWindow, Writing
<1>4. ASSUME NEW t \in Sessions \ disturbed',
             (phase[t] \in InWindow)', NamesHeldFile(t)'
      PROVE  FALSE
  <2>1. t # s /\ phase[t] \in InWindow /\ t \notin Overrun(s)
    BY <1>4
  <2>2. s \notin disturbed
    BY <2>1 DEF Overrun
  <2>3. NamesHeldFile(s)
    BY <1>1, <2>2 DEF WindowInv, WriterStillCurrent, Writing
  <2>4. lk[s] = "held" /\ lk[t] = "held"
    BY <1>1, <2>1 DEF WindowInv, WindowUnderLock, InWindow
  <2>5. handle[s] = handle[t]
    BY <1>4, <2>1, <2>3 DEF NamesHeldFile
  <2> QED
    BY <2>1, <2>4, <2>5 DEF LockInv, LockExclusive, OwnsLock
<1>5. BaseStillCurrent'
  BY <1>4 DEF BaseStillCurrent
<1> QED BY <1>2, <1>3, <1>5 DEF WindowInv

LEMMA CallStepWindowInv ==
  ASSUME TypeOK, LockInv, WindowInv, NEW s \in Sessions, CallStep(s)
  PROVE  WindowInv'
<1> USE ControlTypes
<1>1. CASE Acquire(s)
  <2>1. /\ UNCHANGED <<file, phase, base, disturbed>>
        /\ phase[s] = "acquire"
        /\ AcquireStep(s)
    BY <1>1 DEF Acquire, diskVars, bodyVars, histVars
  <2>2. \A t \in Sessions \ {s} : lk'[t] = lk[t] /\ handle'[t] = handle[t]
    BY <2>1 DEF AcquireStep, OpenLockFile, TryLock, VerifyLock
  <2>3. lockFile' = lockFile \/ (lockFile = 0 /\ lockFile' = inodes + 1)
    BY <2>1 DEF AcquireStep, OpenLockFile, TryLock, VerifyLock
  <2>4. \A t \in Sessions : phase[t] \in InWindow =>
          t # s /\ handle[t] \in 1..inodes
    BY <2>1 DEF WindowInv, WindowUnderLock, LockInv, HandlesCreated, InWindow
  <2>5. WindowUnderLock' /\ NoBaseOutsideCall'
    BY <2>1, <2>2, <2>4 DEF WindowInv, WindowUnderLock, NoBaseOutsideCall
  <2>6. \A t \in Sessions : phase[t] \in InWindow =>
          (NamesHeldFile(t)' <=> NamesHeldFile(t))
    BY <2>2, <2>3, <2>4 DEF NamesHeldFile
  <2>7. WriterStillCurrent' /\ BaseStillCurrent'
    BY <2>1, <2>6 DEF WindowInv, WriterStillCurrent, BaseStillCurrent, InWindow,
       Writing
  <2> QED BY <2>5, <2>7 DEF WindowInv
<1>2. CASE CatchUp(s) \/ OverwriteExamine(s) \/ CreateNewFile(s)
  <2>1. /\ UNCHANGED <<file, lockFile, lk, handle, disturbed>>
        /\ phase[s] = "acquire" /\ lk[s] = "held"
        /\ phase' = [phase EXCEPT ![s] = IF goal[s] = "tx" THEN "closure"
                                        ELSE "commit"]
    BY <1>2 DEF CatchUp, OverwriteExamine, CreateNewFile, lockVars, histVars
  <2>2. base'[s] = file /\ \A t \in Sessions \ {s} : base'[t] = base[t]
    BY <1>2 DEF CatchUp, OverwriteExamine, CreateNewFile, bodyVars, WindowInv,
       NoBaseOutsideCall
  <2> QED
    BY <2>1, <2>2 DEF WindowInv, WindowUnderLock, WriterStillCurrent,
       BaseStillCurrent, NoBaseOutsideCall, NamesHeldFile, InWindow, Writing
<1>3. CASE \/ CatchUpRefused(s) \/ OverwriteRefused(s) \/ CreateRefused(s)
           \/ LockFails(s) \/ ReadFails(s)
  <2>1. Refuse(s) /\ UNCHANGED <<file, disturbed>>
    BY <1>3 DEF CatchUpRefused, OverwriteRefused, CreateRefused, LockFails,
       ReadFails, diskVars, histVars
  <2> QED BY <2>1, RefuseLeaves, LeavesWindowInv
<1>4. CASE \/ Flush(s) \/ Edit(s) \/ InstallPassword(s)
           \/ (\E d \in DeviceIds : AddDeviceKey(s, d) \/ RemoveDeviceKey(s, d))
  <2>1. PICK body, own : Closure(s, body, own)
    BY <1>4 DEF Flush, Edit, InstallPassword, AddDeviceKey, RemoveDeviceKey
  <2>2. StaysInWindow(s)
    BY <2>1 DEF Closure, StaysInWindow, InWindow, Writing, lockVars, diskVars,
       histVars
  <2> QED BY <2>2, StaysInWindowInv
<1>5. CASE PasswordConflict(s) \/ ClosureFails(s)
  <2>1. AbortClosure(s)
    BY <1>5 DEF PasswordConflict, ClosureFails
  <2>2. LeavesWindow(s)
    BY <2>1, EndCallLeaves DEF AbortClosure, diskVars
  <2> QED BY <2>2, LeavesWindowInv
<1>6. CASE Commit(s)
  <2>1. CASE NamesHeldFile(s)
    <3>1. StaysInWindow(s)
      BY <1>6, <2>1 DEF Commit, StillCurrent, StaysInWindow, InWindow, Writing,
         lockVars, histVars
    <3> QED BY <3>1, StaysInWindowInv
  <2>2. CASE ~NamesHeldFile(s)
    <3>1. LeavesWindow(s)
      BY <1>6, <2>2 DEF Commit, StillCurrent, LeavesWindow, InWindow, lockVars,
         histVars
    <3> QED BY <3>1, LeavesWindowInv
  <2> QED BY <2>1, <2>2
<1>7. CASE WriteTemp(s)
  <2>1. StaysInWindow(s)
    BY <1>7 DEF WriteTemp, StaysInWindow, InWindow, Writing, lockVars, bodyVars,
       histVars
  <2> QED BY <2>1, StaysInWindowInv
<1>8. CASE WriteFails(s)
  <2>1. LeavesWindow(s)
    BY <1>8 DEF WriteFails, LeavesWindow, InWindow, lockVars, bodyVars, histVars
  <2> QED BY <2>1, LeavesWindowInv
<1>9. CASE Rename(s)
  <2>1. Land(s) /\ EndCall(s, "idle") /\ disturbed' = (disturbed \ {s}) \cup Overrun(s)
    BY <1>9 DEF Rename, RecordWritten
  <2>2. UNCHANGED lockFile /\ phase'[s] = "idle" /\ base'[s] = NoFile
    BY <2>1 DEF EndCall, DropLock
  <2>3. \A t \in Sessions \ {s} :
          /\ phase'[t] = phase[t] /\ lk'[t] = lk[t]
          /\ handle'[t] = handle[t] /\ base'[t] = base[t]
    BY <2>1 DEF EndCall, DropLock
  <2>4. phase'[s] \notin InWindow
    BY <2>2 DEF InWindow
  <2>5. disturbed' \cup {s} = disturbed \cup Overrun(s) \cup {s}
    BY <2>1
  <2> QED BY <2>1, <2>2, <2>3, <2>4, <2>5, LandInv
<1>10. CASE RenameLosesReply(s)
  <2>1. /\ Land(s)
        /\ phase' = [phase EXCEPT ![s] = "readback"]
        /\ disturbed' = disturbed \cup Overrun(s)
        /\ UNCHANGED <<lockFile, lk, handle, base>>
    BY <1>10 DEF RenameLosesReply, lockVars, bodyVars
  <2>2. phase'[s] = "readback" /\ phase'[s] \notin InWindow
    BY <2>1 DEF InWindow
  <2>3. \A t \in Sessions \ {s} : phase'[t] = phase[t]
    BY <2>1
  <2> QED BY <2>1, <2>2, <2>3, LandInv
<1>11. CASE SealFails(s) \/ ReadBackFinds(s) \/ ReadBackFails(s)
  <2>1. EndCall(s, "idle") /\ UNCHANGED file /\ disturbed' = disturbed \ {s}
    BY <1>11 DEF SealFails, ReadBackFinds, ReadBackFails, BackOut, RecordWritten,
       diskVars
  <2> QED BY <2>1, EndCallLeaves, LeavesWindowInv
<1>12. CASE CreateFails(s)
  <2>1. Refuse(s) /\ UNCHANGED file /\ disturbed' = disturbed \ {s}
    BY <1>12 DEF CreateFails, diskVars
  <2> QED BY <2>1, RefuseLeaves, LeavesWindowInv
<1> QED
  BY <1>1, <1>2, <1>3, <1>4, <1>5, <1>6, <1>7, <1>8, <1>9, <1>10, <1>11, <1>12
     DEF CallStep

LEMMA CallerWindowInv ==
  ASSUME TypeOK, LockInv, WindowInv, NEW s \in Sessions,
         CallerStep(s) \/ LockBusy(s) \/ Crash(s)
  PROVE  WindowInv'
<1> USE ControlTypes
<1>1. CASE Open(s)
  <2>1. LeavesWindow(s)
    BY <1>1 DEF Open, LeavesWindow, WindowInv, NoBaseOutsideCall, InWindow,
       lockVars, diskVars, histVars
  <2> QED BY <2>1, LeavesWindowInv
<1>2. CASE Create(s) \/ StartTransact(s) \/ StartOverwrite(s)
  <2>1. /\ WantLock(s) /\ phase[s] \in {"closed", "idle"}
        /\ phase' = [phase EXCEPT ![s] = "acquire"]
        /\ UNCHANGED <<file, base, disturbed>>
    BY <1>2 DEF Create, StartTransact, StartOverwrite, StartCall, diskVars,
       bodyVars, histVars
  <2>2. LeavesWindow(s)
    BY <2>1 DEF WantLock, LeavesWindow, WindowInv, NoBaseOutsideCall, InWindow
  <2> QED BY <2>2, LeavesWindowInv
<1>3. CASE Close(s) \/ Crash(s)
  <2>1. Forget(s) /\ UNCHANGED <<file, lockFile>>
    BY <1>3 DEF Close, Crash, DropLock, lockVars, diskVars
  <2>2. \A t \in Sessions \ {s} : lk'[t] = lk[t] /\ handle'[t] = handle[t]
    BY <1>3 DEF Close, Crash, DropLock, lockVars
  <2>3. LeavesWindow(s)
    BY <2>1, <2>2 DEF Forget, LeavesWindow, InWindow
  <2> QED BY <2>3, LeavesWindowInv
<1>4. CASE QueueAudit(s) \/ Refresh(s) \/ ExamineConflict(s) \/ PreparePassword(s)
  <2>1. /\ phase[s] = "idle"
        /\ UNCHANGED <<file, lockFile, lk, handle, phase, base, disturbed>>
    BY <1>4 DEF QueueAudit, Refresh, ExamineConflict, PreparePassword, lockVars,
       diskVars, bodyVars, histVars
  <2>2. LeavesWindow(s)
    BY <2>1 DEF LeavesWindow, WindowInv, NoBaseOutsideCall, InWindow
  <2> QED BY <2>2, LeavesWindowInv
<1>5. CASE QueueInside(s)
  <2>1. StaysInWindow(s)
    BY <1>5 DEF QueueInside, StaysInWindow, InWindow, Writing, lockVars, diskVars
  <2> QED BY <2>1, StaysInWindowInv
<1>6. CASE LockBusy(s)
  <2>1. Refuse(s) /\ UNCHANGED <<file, disturbed>>
    BY <1>6 DEF LockBusy, diskVars, histVars
  <2> QED BY <2>1, RefuseLeaves, LeavesWindowInv
<1> QED BY <1>1, <1>2, <1>3, <1>4, <1>5, <1>6 DEF CallerStep

LEMMA IntruderWindowInv ==
  ASSUME TypeOK, LockInv, WindowInv,
         RestoreOlderCopy \/ ReplaceVault \/ LockFileRemoved
  PROVE  WindowInv'
<1> USE ControlTypes
<1>1. ASSUME NEW f, Interfere(f) PROVE WindowInv'
  <2>1. /\ UNCHANGED <<lockFile, lk, handle, phase, base>>
        /\ disturbed' = disturbed \cup {s \in Sessions : phase[s] \in InWindow}
    BY <1>1 DEF Interfere, lockVars, bodyVars
  <2> QED
    BY <2>1 DEF WindowInv, WindowUnderLock, WriterStillCurrent, BaseStillCurrent,
       NoBaseOutsideCall, NamesHeldFile, InWindow, Writing
<1>2. CASE LockFileRemoved
  <2>1. /\ lockFile' = 0
        /\ UNCHANGED <<file, lk, handle, phase, base>>
        /\ disturbed' = disturbed \cup {s \in Sessions : phase[s] \in Writing}
    BY <1>2 DEF LockFileRemoved, RemoveLockFile, diskVars, bodyVars
  <2>2. \A s \in Sessions : phase[s] \in InWindow => ~NamesHeldFile(s)'
    BY <2>1 DEF WindowInv, WindowUnderLock, LockInv, HandlesCreated, NamesHeldFile
  <2>3. WindowUnderLock' /\ NoBaseOutsideCall'
    BY <2>1 DEF WindowInv, WindowUnderLock, NoBaseOutsideCall
  <2>4. WriterStillCurrent' /\ BaseStillCurrent'
    BY <2>1, <2>2 DEF WriterStillCurrent, BaseStillCurrent, InWindow, Writing
  <2> QED BY <2>3, <2>4 DEF WindowInv
<1> QED BY <1>1, <1>2 DEF RestoreOlderCopy, ReplaceVault

LEMMA StepWindowInv ==
  ASSUME TypeOK, LockInv, WindowInv, [Next]_vars
  PROVE  WindowInv'
<1>1. ASSUME NEW s \in Sessions, CallStep(s) PROVE WindowInv'
  BY <1>1, CallStepWindowInv
<1>2. ASSUME NEW s \in Sessions, CallerStep(s) \/ LockBusy(s) \/ Crash(s)
      PROVE  WindowInv'
  BY <1>2, CallerWindowInv
<1>3. CASE RestoreOlderCopy \/ ReplaceVault \/ LockFileRemoved
  BY <1>3, IntruderWindowInv
<1>4. CASE UNCHANGED vars
  BY <1>4 DEF vars, lockVars, diskVars, bodyVars, histVars, WindowInv,
     WindowUnderLock, WriterStillCurrent, BaseStillCurrent, NoBaseOutsideCall,
     NamesHeldFile
<1> QED BY <1>1, <1>2, <1>3, <1>4 DEF Next

\* A writer's base is the file, and two writers hold the same inode.
LEMMA WriterInvImplies ==
  ASSUME WriterInv
  PROVE  NoWriterBetween /\ OneWriter
<1>1. \A s \in Sessions \ disturbed :
        phase[s] \in Writing => /\ NamesHeldFile(s) /\ OwnsLock(s)
                                /\ phase[s] \in InWindow
  BY DEF WriterInv, WindowUnderLock, WriterStillCurrent, OwnsLock, InWindow,
     Writing
<1>2. NoWriterBetween
  BY <1>1 DEF WriterInv, BaseStillCurrent, NoWriterBetween
<1>3. OneWriter
  BY <1>1 DEF WriterInv, LockExclusive, NamesHeldFile, OneWriter
<1> QED BY <1>2, <1>3

(* The inductive invariant: the lock is exclusive per inode, it is held    *)
(* from the read to the write, and while the path still names the locked   *)
(* inode the file is the one that was read.                                *)
THEOREM WriterInvariant == Spec => []WriterInv
<1>1. Init => WindowInv
  BY DEF Init, WindowInv, WindowUnderLock, WriterStillCurrent, BaseStillCurrent,
     NoBaseOutsideCall, InWindow, Writing
<1>2. TypeOK /\ LockInv /\ WindowInv /\ [Next]_vars => WindowInv'
  BY StepWindowInv
<1>3. LockInv /\ WindowInv => WriterInv
  BY DEF LockInv, WindowInv, WriterInv
<1> QED BY TypeCorrectness, VaultLockInv, <1>1, <1>2, <1>3, PTL DEF Spec

(* A session that nobody disturbed replaces exactly the file it read under *)
(* the lock (vault/mod.rs, transact and overwrite_unmerged).               *)
THEOREM NoWriterComesBetween == Spec => []NoWriterBetween
<1>1. WriterInv => NoWriterBetween
  BY WriterInvImplies
<1> QED BY WriterInvariant, <1>1, PTL

(* Two sessions that nobody disturbed are never both between the check of  *)
(* their lock and their rename (vault/lock.rs, ensure_current).            *)
THEOREM WritersExclude == Spec => []OneWriter
<1>1. WriterInv => OneWriter
  BY WriterInvImplies
<1> QED BY WriterInvariant, <1>1, PTL

-----------------------------------------------------------------------------
(* No update is lost.                                                      *)

InFlight == {"write", "rename", "readback"}

\* A generation names one image for ever.
GenerationsInv ==
  /\ file \in past
  /\ \A f \in past : f.gen <= seals /\ (f.gen = 0 => f = NoFile)
  /\ \A f, g \in past : f.gen = g.gen => f = g
  /\ \A s \in Sessions : phase[s] \in InFlight =>
       /\ sealed[s].gen \in 1..seals
       /\ \A f \in past : f.gen = sealed[s].gen => f = sealed[s]
       /\ \A t \in Sessions \ {s} :
            phase[t] \in InFlight => sealed[t].gen # sealed[s].gen

\* What a session knows, or would restore, it saw on disk.
SeenOnDisk(k) == k.gen = 0 \/ \E f \in past : f.gen = k.gen /\ f.log = k.log

KnownInv ==
  \A s \in Sessions : /\ SeenOnDisk(known[s])
                      /\ SeenOnDisk(undo[s].known)
                      /\ base[s] = NoFile \/ base[s] \in past

\* What a call is about to write, compared with what it read.
CallInv ==
  \A s \in Sessions :
    /\ goal[s] = "tx" /\ phase[s] \in {"closure", "commit"} =>
         Continues(base[s].log, mem[s].log)
    /\ goal[s] = "tx" /\ phase[s] \in Writing =>
         Continues(base[s].log, sealed[s].log)
    /\ goal[s] = "overwrite" /\ phase[s] \in InWindow =>
         confirmed[s].gen = base[s].gen
    /\ goal[s] = "create" /\ phase[s] \in InWindow => base[s] = NoFile

UpdateInv == GenerationsInv /\ KnownInv /\ CallInv

LEMMA ContinuesConcat ==
  ASSUME NEW p \in Seq(Entry), NEW q \in Seq(Entry), NEW r \in Seq(Entry),
         Continues(p, q)
  PROVE  Continues(p, q \o r)
<1>1. Len(q \o r) = Len(q) + Len(r) /\ Len(p) \in Nat /\ Len(q) \in Nat /\ Len(r) \in Nat
  BY ConcatProperties, LenProperties
<1>2. \A i \in 1..Len(q) : (q \o r)[i] = q[i]
  BY ConcatProperties
<1> QED BY <1>1, <1>2 DEF Continues

LEMMA ContinuesAppend ==
  ASSUME NEW p \in Seq(Entry), NEW q \in Seq(Entry), NEW e \in Entry,
         Continues(p, q)
  PROVE  Continues(p, Append(q, e))
<1>1. Len(Append(q, e)) = Len(q) + 1 /\ Len(p) \in Nat /\ Len(q) \in Nat
  BY AppendProperties, LenProperties
<1>2. \A i \in 1..Len(q) : Append(q, e)[i] = q[i]
  BY AppendProperties
<1> QED BY <1>1, <1>2 DEF Continues

\* Every session has a value of each of these.
LEMMA SessionTypes ==
  ASSUME TypeOK
  PROVE  /\ phase \in [Sessions -> Phases] /\ goal \in [Sessions -> Goals]
         /\ mem \in [Sessions -> Body] /\ known \in [Sessions -> Known]
         /\ base \in [Sessions -> Image] /\ undo \in [Sessions -> Undo]
         /\ sealed \in [Sessions -> Image]
         /\ confirmed \in [Sessions -> Conflict]
BY DEF TypeOK, CallTypeOK, MemoryTypeOK, WorkTypeOK, UserTypeOK

\* A step of s touches what no other session holds.
Alone(s) ==
  \A t \in Sessions \ {s} :
    /\ phase'[t] = phase[t] /\ goal'[t] = goal[t] /\ mem'[t] = mem[t]
    /\ known'[t] = known[t] /\ base'[t] = base[t] /\ undo'[t] = undo[t]
    /\ sealed'[t] = sealed[t] /\ confirmed'[t] = confirmed[t]

LEMMA CallStepAlone ==
  ASSUME TypeOK, NEW s \in Sessions, CallStep(s)
  PROVE  Alone(s)
<1> USE SessionTypes DEF Alone, bodyVars, userVars
<1>1. CASE Acquire(s)
  BY <1>1 DEF Acquire
<1>2. CASE CatchUp(s)
  BY <1>2 DEF CatchUp
<1>3. CASE OverwriteExamine(s)
  BY <1>3 DEF OverwriteExamine
<1>4. CASE CreateNewFile(s)
  BY <1>4 DEF CreateNewFile
<1>5. CASE \/ CatchUpRefused(s) \/ OverwriteRefused(s) \/ CreateRefused(s)
           \/ CreateFails(s) \/ LockFails(s) \/ ReadFails(s)
  BY <1>5 DEF CatchUpRefused, OverwriteRefused, CreateRefused, CreateFails,
     LockFails, ReadFails, Refuse, EndCall
<1>6. CASE \/ Flush(s) \/ Edit(s) \/ InstallPassword(s)
           \/ (\E d \in DeviceIds : AddDeviceKey(s, d) \/ RemoveDeviceKey(s, d))
  <2>1. PICK body, own : Closure(s, body, own)
    BY <1>6 DEF Flush, Edit, InstallPassword, AddDeviceKey, RemoveDeviceKey
  <2> QED BY <2>1 DEF Closure
<1>7. CASE PasswordConflict(s) \/ ClosureFails(s)
  BY <1>7 DEF PasswordConflict, ClosureFails, AbortClosure, RollBack, EndCall
<1>8. CASE Commit(s)
  BY <1>8 DEF Commit
<1>9. CASE SealFails(s) \/ ReadBackFails(s)
  <2>1. BackOut(s) /\ UNCHANGED confirmed
    BY <1>9 DEF SealFails, ReadBackFails
  <2>2. CASE RollBack(s)
    BY <2>1, <2>2 DEF BackOut, RollBack, EndCall
  <2>3. CASE RestoreSession(s)
    BY <2>1, <2>3 DEF BackOut, RestoreSession, EndCall
  <2> QED BY <2>1, <2>2, <2>3 DEF BackOut
<1>10. CASE WriteTemp(s) \/ WriteFails(s) \/ RenameLosesReply(s)
  BY <1>10 DEF WriteTemp, WriteFails, RenameLosesReply
<1>11. CASE Rename(s) \/ ReadBackFinds(s)
  BY <1>11 DEF Rename, ReadBackFinds, RecordWritten, EndCall
<1> QED
  BY <1>1, <1>2, <1>3, <1>4, <1>5, <1>6, <1>7, <1>8, <1>9, <1>10, <1>11
     DEF CallStep

LEMMA CallerStepAlone ==
  ASSUME TypeOK, NEW s \in Sessions, CallerStep(s) \/ LockBusy(s) \/ Crash(s)
  PROVE  Alone(s)
<1> USE SessionTypes DEF Alone, bodyVars, userVars
<1>1. CASE Open(s) \/ Create(s)
  BY <1>1 DEF Open, Create
<1>2. CASE Close(s) \/ Crash(s)
  BY <1>2 DEF Close, Crash, Forget
<1>3. CASE QueueAudit(s) \/ QueueInside(s) \/ Refresh(s)
  BY <1>3 DEF QueueAudit, QueueInside, Refresh, Adopt
<1>4. CASE ExamineConflict(s) \/ PreparePassword(s)
  BY <1>4 DEF ExamineConflict, PreparePassword
<1>5. CASE StartTransact(s) \/ StartOverwrite(s)
  BY <1>5 DEF StartTransact, StartOverwrite, StartCall
<1>6. CASE LockBusy(s)
  BY <1>6 DEF LockBusy, Refuse, EndCall
<1> QED BY <1>1, <1>2, <1>3, <1>4, <1>5, <1>6 DEF CallerStep

\* What s knows after its step is something it, or the file, already held.
KnowsNothingNew(s) ==
  \/ known'[s] = known[s] \/ known'[s].gen = 0 \/ known'[s] = undo[s].known
  \/ known'[s] = KnownOf(file) \/ known'[s] = KnownOf(base[s])

\* A step of s that writes nothing and forgets at most its base and undo.
Quiet(s) ==
  /\ Alone(s)
  /\ UNCHANGED <<file, past>>
  /\ seals' \in Nat /\ seals <= seals'
  /\ phase'[s] \in InFlight => phase[s] \in InFlight /\ sealed'[s] = sealed[s]
  /\ KnowsNothingNew(s)
  /\ base'[s] \in {base[s], NoFile, file}
  /\ undo'[s].known \in {undo[s].known, NoKnown, known[s]}

LEMMA QuietGenerations ==
  ASSUME TypeOK, GenerationsInv, NEW s \in Sessions, Quiet(s)
  PROVE  GenerationsInv'
<1>1. \A t \in Sessions : phase'[t] \in InFlight =>
        phase[t] \in InFlight /\ sealed'[t] = sealed[t]
  BY DEF Quiet, Alone
<1>2. seals \in Nat /\ past \subseteq Image
  BY DEF TypeOK, CountTypeOK
<1>3. \A f \in past : f.gen \in Nat
  BY <1>2 DEF Image
<1>4. \A t \in Sessions : sealed[t].gen \in Nat
  BY SessionTypes DEF Image
<1> QED
  BY <1>1, <1>2, <1>3, <1>4 DEF Quiet, GenerationsInv

LEMMA QuietKnown ==
  ASSUME TypeOK, GenerationsInv, KnownInv, NEW s \in Sessions, Quiet(s)
  PROVE  KnownInv'
<1>1. file \in past /\ KnownOf(file).gen = file.gen /\ KnownOf(file).log = file.log
  BY DEF GenerationsInv, KnownOf
<1>2. /\ KnownOf(base[s]).gen = base[s].gen
      /\ KnownOf(base[s]).log = base[s].log
      /\ base[s] = NoFile => base[s].gen = 0
      /\ base[s] = NoFile \/ base[s] \in past
  BY DEF KnownInv, KnownOf, NoFile, ImageOf
<1>3. NoKnown.gen = 0
  BY DEF NoKnown, NoFile, KnownOf, ImageOf
<1>4. SeenOnDisk(known[s])'
  BY <1>1, <1>2 DEF Quiet, KnowsNothingNew, KnownInv, SeenOnDisk
<1>5. SeenOnDisk(undo[s].known)' /\ (base'[s] = NoFile \/ base'[s] \in past')
  BY <1>1, <1>3 DEF Quiet, KnownInv, SeenOnDisk
<1>6. \A t \in Sessions \ {s} :
        /\ SeenOnDisk(known[t])' /\ SeenOnDisk(undo[t].known)'
        /\ base'[t] = NoFile \/ base'[t] \in past'
  BY DEF Quiet, Alone, KnownInv, SeenOnDisk
<1> QED BY <1>4, <1>5, <1>6 DEF KnownInv

\* The plan of a session outside its window is no one's concern.
LEMMA LeavesCall ==
  ASSUME CallInv, NEW s \in Sessions, Alone(s), phase'[s] \notin InWindow
  PROVE  CallInv'
BY DEF CallInv, Alone, InWindow, Writing

LEMMA StaysCall ==
  ASSUME CallInv, NEW s \in Sessions, Alone(s),
         phase[s] \in InWindow,
         phase'[s] \in {"closure", "commit"} => phase[s] \in {"closure", "commit"},
         phase'[s] \in Writing => phase[s] \in Writing,
         goal'[s] = goal[s], base'[s] = base[s], sealed'[s] = sealed[s],
         confirmed'[s] = confirmed[s],
         Continues(base[s].log, mem[s].log) => Continues(base[s].log, mem'[s].log)
  PROVE  CallInv'
BY DEF CallInv, Alone, InWindow, Writing

\* The ends of calls write nothing.
LEMMA EndCallQuiet ==
  ASSUME TypeOK, NEW s \in Sessions, NEW next \in {"idle", "closed"},
         EndCall(s, next), Alone(s), UNCHANGED <<file, past, seals>>,
         KnowsNothingNew(s)
  PROVE  Quiet(s) /\ phase'[s] \notin InWindow
<1>1. phase'[s] = next /\ base'[s] = NoFile /\ undo'[s] = NoUndo
  BY SessionTypes DEF EndCall
<1>2. seals \in Nat /\ NoUndo.known = NoKnown
  BY DEF TypeOK, CountTypeOK, NoUndo
<1> QED BY <1>1, <1>2 DEF Quiet, InFlight, InWindow

LEMMA RefuseQuiet ==
  ASSUME TypeOK, NEW s \in Sessions, Refuse(s), Alone(s),
         UNCHANGED <<file, past, seals>>
  PROVE  Quiet(s) /\ phase'[s] \notin InWindow
<1>1. known'[s] = known[s] \/ known'[s] = NoKnown
  BY SessionTypes DEF Refuse
<1>2. KnowsNothingNew(s)
  BY <1>1 DEF KnowsNothingNew, NoKnown, NoFile, KnownOf, ImageOf
<1> QED BY <1>2, EndCallQuiet DEF Refuse

LEMMA BackOutQuiet ==
  ASSUME TypeOK, NEW s \in Sessions, BackOut(s), Alone(s),
         UNCHANGED <<file, past, seals>>
  PROVE  Quiet(s) /\ phase'[s] \notin InWindow
<1>1. KnowsNothingNew(s)
  BY SessionTypes DEF BackOut, RollBack, RestoreSession, KnowsNothingNew
<1> QED BY <1>1, EndCallQuiet DEF BackOut

LEMMA QuietUpdateInv ==
  ASSUME TypeOK, UpdateInv, NEW s \in Sessions, Quiet(s), CallInv'
  PROVE  UpdateInv'
BY QuietGenerations, QuietKnown DEF UpdateInv

LEMMA QuietEnd ==
  ASSUME TypeOK, UpdateInv, NEW s \in Sessions, Quiet(s), phase'[s] \notin InWindow
  PROVE  UpdateInv'
BY LeavesCall, QuietUpdateInv DEF Quiet, UpdateInv

\* Beginning a write: what is read is the base, and what is built continues it.
LEMMA BeginUpdateInv ==
  ASSUME TypeOK, UpdateInv, WindowInv, NEW s \in Sessions, Alone(s),
         CatchUp(s) \/ OverwriteExamine(s) \/ CreateNewFile(s)
  PROVE  UpdateInv'
<1> USE SessionTypes
<1>1. /\ UNCHANGED <<file, past, seals, goal, sealed, confirmed>>
      /\ seals \in Nat /\ phase[s] = "acquire"
      /\ phase'[s] \in {"closure", "commit"}
  BY DEF CatchUp, OverwriteExamine, CreateNewFile, countVars, histVars, userVars,
     bodyVars, TypeOK, CountTypeOK
<1>2. phase'[s] \notin InFlight /\ phase'[s] \notin Writing
  BY <1>1 DEF InFlight, Writing
<1>3. CASE CatchUp(s)
  <2> DEFINE queue == IF file.gen = known[s].gen THEN Requeued(s) ELSE Settled(s, file)
             disk  == IF file.gen = known[s].gen THEN known[s] ELSE KnownOf(file)
  <2>1. /\ base'[s] = file /\ goal[s] = "tx" /\ file # NoFile
        /\ known'[s] = disk /\ undo' = undo
        /\ mem'[s].log = disk.log \o queue
    <3> DEFINE body == IF file.gen = known[s].gen THEN mem[s] ELSE BodyOf(file)
               next == [body EXCEPT !.log = disk.log \o queue]
    <3>1. /\ base' = [base EXCEPT ![s] = file] /\ goal[s] = "tx"
          /\ known' = [known EXCEPT ![s] = disk]
          /\ mem' = [mem EXCEPT ![s] = next]
      BY <1>3 DEF CatchUp
    <3>2. undo' = undo /\ file # NoFile
      BY <1>3 DEF CatchUp
    <3>3. body \in Body
      BY ConversionTypes DEF TypeOK, DiskTypeOK
    <3> HIDE DEF queue, disk, body
    <3>4. next.log = disk.log \o queue
      BY <3>3 DEF Body
    <3> HIDE DEF next
    <3>5. mem'[s] = next /\ base'[s] = file /\ known'[s] = disk
      BY <3>1
    <3> QED BY <3>1, <3>2, <3>4, <3>5
  <2>2. disk.log = file.log
    <3>1. CASE file.gen = known[s].gen
      <4>1. file.gen # 0
        BY <2>1 DEF UpdateInv, GenerationsInv
      <4>2. PICK f \in past : f.gen = known[s].gen /\ f.log = known[s].log
        BY <3>1, <4>1 DEF UpdateInv, KnownInv, SeenOnDisk
      <4>3. f = file
        BY <3>1, <4>2 DEF UpdateInv, GenerationsInv
      <4> QED BY <3>1, <4>2, <4>3
    <3>2. CASE file.gen # known[s].gen
      BY <3>2 DEF KnownOf
    <3> QED BY <3>1, <3>2
  <2>3. file.log \in Seq(Entry) /\ queue \in Seq(Entry)
    BY QueueTypes DEF TypeOK, DiskTypeOK, Image
  <2>4. Continues(file.log, file.log)
    BY <2>3, LenProperties DEF Continues
  <2>5. Continues(base'[s].log, mem'[s].log)
    BY <2>1, <2>2, <2>3, <2>4, ContinuesConcat
  <2>6. KnowsNothingNew(s)
    BY <2>1 DEF KnowsNothingNew
  <2>7. Quiet(s)
    BY <1>1, <1>2, <2>1, <2>6 DEF Quiet
  <2>8. CallInv'
    BY <1>1, <1>2, <2>1, <2>5 DEF UpdateInv, CallInv, Alone
  <2> QED BY <2>7, <2>8, QuietUpdateInv
<1>4. CASE OverwriteExamine(s)
  <2>1. /\ base'[s] = file /\ goal[s] = "overwrite"
        /\ known'[s].gen = known[s].gen /\ known'[s].log = known[s].log
        /\ undo'[s].known = known[s]
        /\ ConflictWith(s, file) = confirmed[s] /\ confirmed[s] # NoConflict
    BY <1>4 DEF OverwriteExamine, AsConfirmed, Known
  <2>2. confirmed[s].gen = file.gen
    BY <2>1 DEF ConflictWith, NoConflict, NoFile, ImageOf
  <2>3. CallInv'
    BY <1>1, <1>2, <2>1, <2>2 DEF UpdateInv, CallInv, Alone
  <2>4. GenerationsInv'
    BY <1>1, <1>2 DEF UpdateInv, GenerationsInv, Alone
  <2>5. KnownInv'
    <3>1. past' = past /\ file \in past /\ KnownInv
      BY <1>1 DEF UpdateInv, GenerationsInv
    <3>2. SeenOnDisk(known[s])' /\ SeenOnDisk(undo[s].known)'
      <4>1. SeenOnDisk(known[s])
        BY <3>1 DEF KnownInv
      <4>2. known'[s].gen = known[s].gen /\ known'[s].log = known[s].log
            /\ undo'[s].known = known[s] /\ past' = past
        BY <2>1, <3>1
      <4> QED BY <4>1, <4>2 DEF SeenOnDisk
    <3>3. ASSUME NEW t \in Sessions, t # s
          PROVE  /\ SeenOnDisk(known[t])' /\ SeenOnDisk(undo[t].known)'
                 /\ (base[t] = NoFile \/ base[t] \in past)'
      <4>1. /\ SeenOnDisk(known[t]) /\ SeenOnDisk(undo[t].known)
            /\ base[t] = NoFile \/ base[t] \in past
        BY <3>1 DEF KnownInv
      <4>2. /\ known'[t] = known[t] /\ undo'[t] = undo[t]
            /\ base'[t] = base[t] /\ past' = past
        BY <3>1, <3>3 DEF Alone
      <4> QED BY <4>1, <4>2 DEF SeenOnDisk
    <3>4. base'[s] \in past'
      BY <2>1, <3>1
    <3>5. \A t \in Sessions : /\ SeenOnDisk(known[t])' /\ SeenOnDisk(undo[t].known)'
                             /\ (base[t] = NoFile \/ base[t] \in past)'
      BY <3>2, <3>3, <3>4
    <3> QED BY <3>5 DEF KnownInv
  <2> QED BY <2>3, <2>4, <2>5 DEF UpdateInv
<1>5. CASE CreateNewFile(s)
  <2>1. /\ UNCHANGED bodyVars /\ goal[s] = "create" /\ base[s] = NoFile
    BY <1>1, <1>5 DEF CreateNewFile, WindowInv, NoBaseOutsideCall
  <2>2. Quiet(s)
    BY <1>1, <1>2, <2>1 DEF Quiet, KnowsNothingNew, bodyVars
  <2>3. CallInv'
    BY <1>1, <1>2, <2>1 DEF UpdateInv, CallInv, Alone, bodyVars
  <2> QED BY <2>2, <2>3, QuietUpdateInv
<1> QED BY <1>3, <1>4, <1>5

\* A closure adds to the log at most an entry of its own.
LEMMA ClosureUpdateInv ==
  ASSUME TypeOK, UpdateInv, NEW s \in Sessions, Alone(s),
         \/ Flush(s) \/ Edit(s) \/ InstallPassword(s)
         \/ (\E d \in DeviceIds : AddDeviceKey(s, d) \/ RemoveDeviceKey(s, d))
  PROVE  UpdateInv'
<1> USE SessionTypes
<1>1. PICK body, own : Closure(s, body, own) /\ body.log = mem[s].log
  <2>1. mem[s] \in Body
    OBVIOUS
  <2>2. CASE Flush(s) \/ Edit(s)
    BY <2>2 DEF Flush, Edit
  <2>3. CASE InstallPassword(s)
    <3>1. [mem[s] EXCEPT !.slot = entries + 1].log = mem[s].log
      BY <2>1 DEF Body
    <3> QED BY <2>3, <3>1 DEF InstallPassword
  <2>4. ASSUME NEW d \in DeviceIds, AddDeviceKey(s, d)
        PROVE  \E body, own : Closure(s, body, own) /\ body.log = mem[s].log
    <3>1. [mem[s] EXCEPT !.devices = @ \cup {d}].log = mem[s].log
      BY <2>1 DEF Body
    <3> QED BY <2>4, <3>1 DEF AddDeviceKey
  <2>5. ASSUME NEW d \in DeviceIds, RemoveDeviceKey(s, d)
        PROVE  \E body, own : Closure(s, body, own) /\ body.log = mem[s].log
    <3>1. [mem[s] EXCEPT !.devices = @ \ {d}, !.retired = @ \cup {d}].log
            = mem[s].log
      BY <2>1 DEF Body
    <3> QED BY <2>5, <3>1 DEF RemoveDeviceKey
  <2> QED BY <2>2, <2>3, <2>4, <2>5
<1>2. /\ phase[s] = "closure" /\ phase'[s] = "commit"
      /\ UNCHANGED <<file, past, seals, goal, known, base, undo, sealed, confirmed>>
  BY <1>1 DEF Closure, diskVars, histVars
<1>3. mem'[s].log = mem[s].log \/ mem'[s].log = Append(mem[s].log, entries + 1)
  <2>1. CASE own = 0
    BY <1>1, <2>1 DEF Closure
  <2>2. CASE own # 0
    <3>1. mem'[s] = [body EXCEPT !.log = Append(body.log, entries + 1)]
      BY <1>1, <2>2 DEF Closure
    <3>2. mem'[s] \in Body
      BY ClosureStepTypes DEF Typed, MemoryTypeOK
    <3> QED BY <1>1, <3>1, <3>2 DEF Body
  <2> QED BY <2>1, <2>2
<1>4. Continues(base[s].log, mem[s].log) => Continues(base[s].log, mem'[s].log)
  <2>1. /\ base[s].log \in Seq(Entry) /\ mem[s].log \in Seq(Entry)
        /\ entries + 1 \in Entry
    BY DEF Image, Body, TypeOK, CountTypeOK, Entry
  <2> QED BY <1>3, <2>1, ContinuesAppend
<1>5. Quiet(s)
  BY <1>2 DEF Quiet, KnowsNothingNew, InFlight, TypeOK, CountTypeOK
<1>6. CallInv'
  BY <1>2, <1>4, StaysCall DEF UpdateInv, InWindow, Writing
<1> QED BY <1>5, <1>6, QuietUpdateInv

\* A new image gets a generation no other image has.
LEMMA CommitUpdateInv ==
  ASSUME TypeOK, UpdateInv, NEW s \in Sessions, Alone(s), Commit(s)
  PROVE  UpdateInv'
<1> USE SessionTypes
<1> DEFINE log == mem[s].log \o pending[s]
<1>1. /\ phase[s] = "commit" /\ phase'[s] \in {"write", "readback"}
      /\ UNCHANGED <<file, past, goal, known, base, undo, confirmed>>
      /\ seals' = seals + 1 /\ seals \in Nat
  BY DEF Commit, histVars, userVars, TypeOK, CountTypeOK
<1>2. /\ sealed'[s].gen = seals + 1
      /\ sealed'[s].log = log
  BY DEF Commit, ImageOf, Body
<1>3. past \subseteq Image /\ \A f \in Image : f.gen \in Nat
  BY DEF TypeOK, CountTypeOK, Image
<1>4. \A t \in Sessions \ {s} :
        phase'[t] = phase[t] /\ sealed'[t] = sealed[t] /\ sealed[t].gen \in Nat
  BY <1>3 DEF Alone
<1>5. GenerationsInv'
  <2>1. \A f \in past : f.gen < seals + 1
    BY <1>1, <1>3 DEF UpdateInv, GenerationsInv
  <2>2. \A t \in Sessions \ {s} :
          phase[t] \in InFlight => sealed[t].gen \in 1..seals
    BY DEF UpdateInv, GenerationsInv
  <2>3. /\ file' \in past'
        /\ \A f \in past' : f.gen <= seals' /\ (f.gen = 0 => f = NoFile)
        /\ \A f, g \in past' : f.gen = g.gen => f = g
    BY <1>1, <1>3 DEF UpdateInv, GenerationsInv
  <2>4. ASSUME NEW t \in Sessions, phase'[t] \in InFlight
        PROVE  /\ sealed'[t].gen \in 1..seals'
               /\ \A f \in past' : f.gen = sealed'[t].gen => f = sealed'[t]
               /\ \A r \in Sessions \ {t} :
                    phase'[r] \in InFlight => sealed'[r].gen # sealed'[t].gen
    <3>1. CASE t = s
      <4>1. \A r \in Sessions \ {s} :
              phase'[r] \in InFlight => sealed'[r].gen # seals + 1
        BY <1>1, <1>4, <2>2
      <4> QED BY <1>1, <1>2, <2>1, <3>1, <4>1
    <3>2. CASE t # s
      <4>1. phase[t] \in InFlight /\ sealed'[t] = sealed[t] /\ sealed[t].gen \in 1..seals
        BY <1>4, <2>2, <2>4, <3>2
      <4>2. \A r \in Sessions \ {t} :
              phase'[r] \in InFlight => sealed'[r].gen # sealed[t].gen
        <5>1. \A r \in Sessions \ {t, s} :
                phase'[r] \in InFlight => sealed'[r].gen # sealed[t].gen
          BY <1>4, <4>1 DEF UpdateInv, GenerationsInv
        <5> QED BY <1>1, <1>2, <4>1, <5>1
      <4> QED BY <1>1, <4>1, <4>2 DEF UpdateInv, GenerationsInv
    <3> QED BY <3>1, <3>2
  <2> QED BY <2>3, <2>4 DEF GenerationsInv
<1>6. KnownInv'
  BY <1>1 DEF UpdateInv, KnownInv, SeenOnDisk
<1>7. CallInv'
  <2>1. /\ base[s].log \in Seq(Entry) /\ mem[s].log \in Seq(Entry)
        /\ pending[s] \in Seq(Entry)
    BY DEF Image, Body, TypeOK, MemoryTypeOK
  <2>2. goal[s] = "tx" => Continues(base[s].log, log)
    BY <1>1, <2>1, ContinuesConcat DEF UpdateInv, CallInv
  <2>3. /\ goal[s] = "overwrite" => confirmed[s].gen = base[s].gen
        /\ goal[s] = "create" => base[s] = NoFile
    BY <1>1 DEF UpdateInv, CallInv, InWindow
  <2> QED
    BY <1>1, <1>2, <2>2, <2>3 DEF UpdateInv, CallInv, Alone
<1> QED BY <1>5, <1>6, <1>7 DEF UpdateInv

\* Landing an image adds it, under its own generation.
LEMMA LandUpdateInv ==
  ASSUME TypeOK, UpdateInv, NEW s \in Sessions, Alone(s),
         Land(s), UNCHANGED seals,
         phase'[s] \in {"idle", "readback"}, sealed'[s] \in {sealed[s], NoFile},
         phase'[s] = "readback" => sealed'[s] = sealed[s],
         known'[s] \in {known[s], KnownOf(sealed[s])},
         base'[s] \in {base[s], NoFile},
         undo'[s].known \in {undo[s].known, NoKnown}
  PROVE  UpdateInv'
<1> USE SessionTypes
<1>1. /\ phase[s] = "rename" /\ phase[s] \in InFlight
      /\ file' = sealed[s] /\ past' = past \cup {sealed[s]}
  BY DEF Land, InFlight
<1>2. /\ sealed[s].gen \in 1..seals /\ seals \in Nat
      /\ \A f \in past : f.gen = sealed[s].gen => f = sealed[s]
  BY <1>1 DEF UpdateInv, GenerationsInv, TypeOK, CountTypeOK
<1>3. /\ file' \in past'
      /\ \A f \in past' : f.gen <= seals' /\ (f.gen = 0 => f = NoFile)
      /\ \A f, g \in past' : f.gen = g.gen => f = g
  BY <1>1, <1>2 DEF UpdateInv, GenerationsInv
<1>4. \A t \in Sessions : phase'[t] \in InFlight =>
        phase[t] \in InFlight /\ sealed'[t] = sealed[t]
  BY <1>1 DEF Alone, InFlight
<1>5. GenerationsInv'
  BY <1>1, <1>2, <1>3, <1>4 DEF UpdateInv, GenerationsInv
<1>6. /\ KnownOf(sealed[s]).gen = sealed[s].gen
      /\ KnownOf(sealed[s]).log = sealed[s].log /\ NoKnown.gen = 0
  BY DEF KnownOf, NoKnown, NoFile, ImageOf
<1>7. KnownInv'
  BY <1>1, <1>6 DEF UpdateInv, KnownInv, SeenOnDisk, Alone
<1>8. CallInv'
  BY LeavesCall DEF UpdateInv, InWindow
<1> QED BY <1>5, <1>7, <1>8 DEF UpdateInv

\* The other steps of a call write nothing.
LEMMA CallStepUpdateInv ==
  ASSUME TypeOK, WindowInv, UpdateInv, NEW s \in Sessions, CallStep(s)
  PROVE  UpdateInv'
<1> USE SessionTypes
<1>1. Alone(s)
  BY CallStepAlone
<1>2. seals \in Nat
  BY DEF TypeOK, CountTypeOK
<1>3. CASE Acquire(s)
  <2>1. Quiet(s) /\ phase'[s] \notin InWindow
    BY <1>1, <1>2, <1>3 DEF Acquire, Quiet, KnowsNothingNew, diskVars, bodyVars,
       countVars, histVars, InWindow
  <2> QED BY <2>1, QuietEnd
<1>4. CASE CatchUp(s) \/ OverwriteExamine(s) \/ CreateNewFile(s)
  BY <1>1, <1>4, BeginUpdateInv
<1>5. CASE \/ CatchUpRefused(s) \/ OverwriteRefused(s) \/ CreateRefused(s)
           \/ CreateFails(s) \/ LockFails(s) \/ ReadFails(s)
  <2>1. Refuse(s) /\ UNCHANGED <<file, past, seals>>
    BY <1>5 DEF CatchUpRefused, OverwriteRefused, CreateRefused, CreateFails,
       LockFails, ReadFails, diskVars, countVars, histVars
  <2> QED BY <1>1, <2>1, RefuseQuiet, QuietEnd
<1>6. CASE \/ Flush(s) \/ Edit(s) \/ InstallPassword(s)
           \/ (\E d \in DeviceIds : AddDeviceKey(s, d) \/ RemoveDeviceKey(s, d))
  BY <1>1, <1>6, ClosureUpdateInv
<1>7. CASE PasswordConflict(s) \/ ClosureFails(s)
  <2>1. /\ RollBack(s) /\ EndCall(s, "idle")
        /\ UNCHANGED <<file, past, seals>>
    BY <1>7 DEF PasswordConflict, ClosureFails, AbortClosure, diskVars, countVars
  <2>2. KnowsNothingNew(s)
    BY <2>1 DEF RollBack, KnowsNothingNew
  <2> QED BY <1>1, <2>1, <2>2, EndCallQuiet, QuietEnd
<1>8. CASE Commit(s)
  BY <1>1, <1>8, CommitUpdateInv
<1>9. CASE SealFails(s) \/ ReadBackFails(s)
  <2>1. BackOut(s) /\ UNCHANGED <<file, past, seals>>
    BY <1>9 DEF SealFails, ReadBackFails, diskVars
  <2> QED BY <1>1, <2>1, BackOutQuiet, QuietEnd
<1>10. CASE WriteTemp(s) \/ WriteFails(s)
  <2>1. /\ UNCHANGED <<file, past, seals, goal, bodyVars, confirmed>>
        /\ phase[s] \in Writing /\ phase'[s] \in {"rename", "readback"}
    BY <1>10 DEF WriteTemp, WriteFails, countVars, histVars, userVars, Writing
  <2>2. UNCHANGED <<mem, known, base, undo, sealed>>
    BY <2>1 DEF bodyVars
  <2>3. Quiet(s)
    BY <1>1, <1>2, <2>1, <2>2 DEF Quiet, KnowsNothingNew, InFlight, Writing
  <2>4. CallInv'
    BY <1>1, <2>1, <2>2, StaysCall DEF UpdateInv, InWindow, Writing
  <2> QED BY <2>3, <2>4, QuietUpdateInv
<1>11. CASE RenameLosesReply(s)
  <2>1. /\ Land(s) /\ UNCHANGED <<seals, bodyVars>> /\ phase'[s] = "readback"
    BY <1>11 DEF RenameLosesReply
  <2>2. UNCHANGED <<known, base, undo, sealed>>
    BY <2>1 DEF bodyVars
  <2> QED BY <1>1, <2>1, <2>2, LandUpdateInv
<1>12. CASE Rename(s)
  <2>1. /\ Land(s) /\ UNCHANGED seals /\ phase'[s] = "idle"
        /\ known'[s] = KnownOf(sealed[s]) /\ base'[s] = NoFile
        /\ undo'[s] = NoUndo /\ sealed'[s] = NoFile
    BY <1>12 DEF Rename, RecordWritten, EndCall, countVars
  <2>2. undo'[s].known = NoKnown
    BY <2>1 DEF NoUndo
  <2> QED BY <1>1, <2>1, <2>2, LandUpdateInv
<1>13. CASE ReadBackFinds(s)
  <2>1. /\ RecordWritten(s) /\ EndCall(s, "idle") /\ phase[s] = "readback"
        /\ UNCHANGED <<file, past, seals>>
        /\ known'[s] = KnownOf(sealed[s]) /\ file.gen = sealed[s].gen
    BY <1>13 DEF ReadBackFinds, RecordWritten, diskVars, countVars
  <2>2. file = sealed[s]
    BY <2>1 DEF UpdateInv, GenerationsInv, InFlight
  <2>3. KnowsNothingNew(s)
    BY <2>1, <2>2 DEF KnowsNothingNew
  <2> QED BY <1>1, <2>1, <2>3, EndCallQuiet, QuietEnd
<1> QED
  BY <1>3, <1>4, <1>5, <1>6, <1>7, <1>8, <1>9, <1>10, <1>11, <1>12, <1>13
     DEF CallStep

\* A caller's steps, a call that gives up and a death write nothing.
LEMMA CallerUpdateInv ==
  ASSUME TypeOK, UpdateInv, NEW s \in Sessions,
         CallerStep(s) \/ LockBusy(s) \/ Crash(s)
  PROVE  UpdateInv'
<1> USE SessionTypes
<1>1. Alone(s)
  BY CallerStepAlone
<1>2. seals \in Nat
  BY DEF TypeOK, CountTypeOK
<1>3. CASE Open(s) \/ Create(s)
  <2>1. /\ UNCHANGED <<file, past, base, undo, sealed>>
        /\ seals' \in {seals, seals + 1}
        /\ phase'[s] \in {"idle", "acquire"}
    BY <1>3 DEF Open, Create, diskVars, countVars, histVars
  <2>2. known'[s] = KnownOf(file) \/ known'[s] = [NoKnown EXCEPT !.ver = 1]
    BY <1>3 DEF Open, Create
  <2>3. KnowsNothingNew(s)
    BY <2>2 DEF KnowsNothingNew, NoKnown, KnownOf, NoFile, ImageOf
  <2>4. Quiet(s) /\ phase'[s] \notin InWindow
    BY <1>1, <1>2, <2>1, <2>3 DEF Quiet, InFlight, InWindow
  <2> QED BY <2>4, QuietEnd
<1>4. CASE Close(s) \/ Crash(s)
  <2>1. /\ Forget(s) /\ UNCHANGED <<file, past, seals>>
    BY <1>4 DEF Close, Crash, Forget, diskVars, countVars
  <2>2. /\ phase'[s] = "closed" /\ known'[s] = NoKnown /\ base'[s] = NoFile
        /\ undo'[s] = NoUndo
    BY <2>1 DEF Forget
  <2>3. undo'[s].known = NoKnown /\ KnowsNothingNew(s)
    BY <2>2 DEF NoUndo, KnowsNothingNew, NoKnown, KnownOf, NoFile, ImageOf
  <2>4. Quiet(s) /\ phase'[s] \notin InWindow
    BY <1>1, <1>2, <2>1, <2>2, <2>3 DEF Quiet, InFlight, InWindow
  <2> QED BY <2>4, QuietEnd
<1>5. CASE QueueAudit(s) \/ ExamineConflict(s) \/ PreparePassword(s)
  <2>1. /\ UNCHANGED <<file, past, seals, known, base, undo, sealed>>
        /\ phase' = phase /\ phase[s] = "idle"
    BY <1>5 DEF QueueAudit, ExamineConflict, PreparePassword, diskVars, bodyVars,
       countVars, histVars
  <2>2. Quiet(s) /\ phase'[s] \notin InWindow
    BY <1>1, <1>2, <2>1 DEF Quiet, KnowsNothingNew, InFlight, InWindow
  <2> QED BY <2>2, QuietEnd
<1>6. CASE QueueInside(s)
  <2>1. /\ UNCHANGED <<file, past, seals, known, base, undo, sealed, goal, mem, confirmed>>
        /\ phase' = phase /\ phase[s] = "closure"
    BY <1>6 DEF QueueInside, diskVars, userVars
  <2>2. Quiet(s)
    BY <1>1, <1>2, <2>1 DEF Quiet, KnowsNothingNew, InFlight
  <2>3. CallInv'
    BY <1>1, <2>1, StaysCall DEF UpdateInv, InWindow, Writing
  <2> QED BY <2>2, <2>3, QuietUpdateInv
<1>7. CASE Refresh(s)
  <2>1. /\ UNCHANGED <<file, past, seals, base, undo, sealed>>
        /\ phase' = phase /\ phase[s] = "idle"
    BY <1>7 DEF Refresh, diskVars, countVars, histVars
  <2>2. known'[s] \in {known[s], KnownOf(file)}
    BY <1>7 DEF Refresh, Adopt
  <2>3. Quiet(s) /\ phase'[s] \notin InWindow
    BY <1>1, <1>2, <2>1, <2>2 DEF Quiet, KnowsNothingNew, InFlight, InWindow
  <2> QED BY <2>3, QuietEnd
<1>8. CASE StartTransact(s) \/ StartOverwrite(s)
  <2>1. /\ UNCHANGED <<file, past, seals, known, base, undo, sealed>>
        /\ phase'[s] = "acquire"
    BY <1>8 DEF StartTransact, StartOverwrite, StartCall, diskVars, bodyVars,
       countVars, histVars
  <2>2. Quiet(s) /\ phase'[s] \notin InWindow
    BY <1>1, <1>2, <2>1 DEF Quiet, KnowsNothingNew, InFlight, InWindow
  <2> QED BY <2>2, QuietEnd
<1>9. CASE LockBusy(s)
  <2>1. Refuse(s) /\ UNCHANGED <<file, past, seals>>
    BY <1>9 DEF LockBusy, diskVars, countVars, histVars
  <2> QED BY <1>1, <2>1, RefuseQuiet, QuietEnd
<1> QED BY <1>3, <1>4, <1>5, <1>6, <1>7, <1>8, <1>9 DEF CallerStep

\* Another program puts an old image back, or one nobody has.
LEMMA IntruderUpdateInv ==
  ASSUME TypeOK, UpdateInv, RestoreOlderCopy \/ ReplaceVault \/ LockFileRemoved
  PROVE  UpdateInv'
<1>1. UNCHANGED <<phase, goal, mem, known, base, undo, sealed, confirmed>>
  BY DEF RestoreOlderCopy, ReplaceVault, LockFileRemoved, Interfere, bodyVars, userVars
<1>2. CallInv'
  BY <1>1 DEF UpdateInv, CallInv
<1>3. seals \in Nat /\ past \subseteq Image
  BY DEF TypeOK, CountTypeOK
<1>4. \A f \in past : f.gen \in Nat
  BY <1>3 DEF Image
<1>5. CASE RestoreOlderCopy \/ LockFileRemoved
  <2>1. /\ seals' = seals
        /\ \/ past' = past /\ file' \in past
           \/ past' = past \cup {NoFile} /\ file' = NoFile
    BY <1>5 DEF RestoreOlderCopy, LockFileRemoved, Interfere, diskVars, countVars,
       UpdateInv, GenerationsInv
  <2>2. NoFile.gen = 0
    BY DEF NoFile, ImageOf
  <2>3. KnownInv'
    BY <1>1, <2>1 DEF UpdateInv, KnownInv, SeenOnDisk
  <2>4. GenerationsInv'
    BY <1>1, <1>3, <1>4, <2>1, <2>2 DEF UpdateInv, GenerationsInv
  <2> QED BY <1>2, <2>3, <2>4 DEF UpdateInv
<1>6. CASE ReplaceVault
  <2> DEFINE new == ImageOf(NewBody(seals + 1), seals + 1, 1)
  <2>1. /\ seals' = seals + 1 /\ file' = new /\ past' = past \cup {new}
    BY <1>6 DEF ReplaceVault, Interfere
  <2>2. new.gen = seals + 1
    BY DEF ImageOf
  <2>3. KnownInv'
    BY <1>1, <2>1 DEF UpdateInv, KnownInv, SeenOnDisk
  <2> HIDE DEF new
  <2>4. /\ \A f \in past : f.gen < seals + 1
        /\ \A s \in Sessions : phase[s] \in InFlight => sealed[s].gen < seals + 1
    BY <1>3, <1>4 DEF UpdateInv, GenerationsInv
  <2>5. GenerationsInv'
    BY <1>1, <1>3, <1>4, <2>1, <2>2, <2>4 DEF UpdateInv, GenerationsInv
  <2> QED BY <1>2, <2>3, <2>5 DEF UpdateInv
<1> QED BY <1>5, <1>6

LEMMA InitUpdateInv == Init => UpdateInv
<1>1. Init => GenerationsInv
  <2> SUFFICES ASSUME Init PROVE GenerationsInv
    OBVIOUS
  <2>1. /\ past = {file} /\ NoFile.gen = 0
        /\ \A s \in Sessions : phase[s] \notin InFlight
    BY DEF Init, InFlight, NoFile, ImageOf
  <2>2. FirstFile.gen = 1
    BY DEF FirstFile, ImageOf
  <2>3. seals = 1 /\ file \in {FirstFile, NoFile}
    BY DEF Init
  <2> QED BY <2>1, <2>2, <2>3 DEF GenerationsInv
<1>2. Init => KnownInv
  <2>1. NoKnown.gen = 0 /\ NoUndo.known = NoKnown
    BY DEF NoKnown, NoUndo, KnownOf, NoFile, ImageOf
  <2>2. ASSUME Init, NEW s \in Sessions
        PROVE  known[s] = NoKnown /\ undo[s] = NoUndo /\ base[s] = NoFile
    BY <2>2 DEF Init
  <2> QED BY <2>1, <2>2 DEF KnownInv, SeenOnDisk
<1>3. Init => CallInv
  BY DEF Init, CallInv, InWindow, Writing
<1> QED BY <1>1, <1>2, <1>3 DEF UpdateInv

LEMMA StepUpdateInv ==
  ASSUME TypeOK, WindowInv, UpdateInv, [Next]_vars
  PROVE  UpdateInv'
<1>1. ASSUME NEW s \in Sessions, CallStep(s) PROVE UpdateInv'
  BY <1>1, CallStepUpdateInv
<1>2. ASSUME NEW s \in Sessions, CallerStep(s) \/ LockBusy(s) \/ Crash(s)
      PROVE  UpdateInv'
  BY <1>2, CallerUpdateInv
<1>3. CASE RestoreOlderCopy \/ ReplaceVault \/ LockFileRemoved
  BY <1>3, IntruderUpdateInv
<1>4. CASE UNCHANGED vars
  BY <1>4 DEF vars, diskVars, bodyVars, userVars, countVars, histVars, UpdateInv,
     GenerationsInv, KnownInv, SeenOnDisk, CallInv
<1> QED BY <1>1, <1>2, <1>3, <1>4 DEF Next

(* What a call builds continues its base, everything a session knows it    *)
(* saw on disk, and a generation names one image for ever.                 *)
THEOREM UpdateInvariant == Spec => []UpdateInv
<1>1. Init => UpdateInv
  BY InitUpdateInv
<1>2. WriterInv => WindowInv
  BY DEF WriterInv, WindowInv
<1>3. TypeOK /\ WindowInv /\ UpdateInv /\ [Next]_vars => UpdateInv'
  BY StepUpdateInv
<1> QED BY <1>1, <1>2, <1>3, TypeCorrectness, WriterInvariant, PTL DEF Spec

(* No update is lost: a transaction of a session nobody disturbed extends  *)
(* the log of the file it replaces, and an overwrite replaces only what    *)
(* its user agreed to discard (vault/mod.rs, transact, Tx::commit and      *)
(* overwrite_unmerged).  What a call builds continues its base, the lock   *)
(* makes the base the file, and a generation names one image for ever.     *)
THEOREM NoUpdateLost == Spec => NoLostUpdate
<1> DEFINE Kept == \A s \in Sessions \ disturbed : Replaces(s) =>
                     CASE goal[s] = "tx" -> Continues(file.log, file'.log)
                       [] goal[s] = "overwrite" -> confirmed[s].gen = file.gen
                       [] goal[s] = "create" -> file = NoFile
<1>1. TypeOK /\ NoWriterBetween /\ UpdateInv => [Kept]_vars
  <2> SUFFICES ASSUME TypeOK, NoWriterBetween, UpdateInv,
                      NEW s \in Sessions \ disturbed, Replaces(s)
               PROVE  CASE goal[s] = "tx" -> Continues(file.log, file'.log)
                        [] goal[s] = "overwrite" -> confirmed[s].gen = file.gen
                        [] goal[s] = "create" -> file = NoFile
    OBVIOUS
  <2>1. /\ phase[s] \in Writing /\ phase[s] \in InWindow /\ file' = sealed[s]
    BY DEF Replaces, Writing, InWindow
  <2>2. file = base[s]
    BY <2>1 DEF NoWriterBetween
  <2>3. goal[s] \in {"tx", "overwrite", "create"}
    BY SessionTypes DEF Goals
  <2> QED BY <2>1, <2>2, <2>3 DEF UpdateInv, CallInv
<1> QED BY <1>1, UpdateInvariant, TypeCorrectness, NoWriterComesBetween, PTL
           DEF NoLostUpdate
=============================================================================
