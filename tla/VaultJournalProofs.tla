--------------------------- MODULE VaultJournalProofs --------------------------
(***************************************************************************)
(* Three proofs about the log of the vault file.  First, that no draft     *)
(* queued in an open session is dropped, whichever of its calls fail and   *)
(* whenever: it is in the queue, in the write under way or in an image the *)
(* path has named.  Then, that the vault file is the journal SharedJournal *)
(* promises: every step of VaultFile, with its locks, temporaries,         *)
(* rollbacks, read-backs and faults, is one step of the journal or none.   *)
(* Last, that no entry is chained twice while no other program interferes. *)
(***************************************************************************)
EXTENDS VaultMemoryProofs


\* The queue still begins with the drafts of an unconfirmed write, and what
\* that write would have put on disk holds them.
Attempted(queue, w) ==
  /\ w.drafts <= Len(queue)
  /\ \A i \in 1..w.drafts : queue[i] \in Elems(w.log)

\* The queue is pending between calls; a write carries it.
QueueAttempted(s) ==
  IF phase[s] \in Building THEN Attempted(carried[s], unconf[s])
                           ELSE Attempted(pending[s], unconf[s])

\* What a write carries is in the log it writes.
CarriedInLog(s) ==
  /\ phase[s] \notin Building => carried[s] = <<>>
  /\ phase[s] \in {"closure", "commit"} => Elems(carried[s]) \subseteq Elems(mem[s].log)
  /\ phase[s] \in InFlight => Elems(carried[s]) \subseteq Elems(sealed[s].log)

\* An overwrite takes the whole queue, and nothing is queued behind it.
OverwriteCarriesAll(s) ==
  phase[s] \in Building /\ goal[s] = "overwrite" => pending[s] = <<>>

\* A session that is closed, or not there yet, has queued nothing.
NothingQueuedYet(s) ==
  /\ phase[s] = "closed" \/ goal[s] = "create" =>
       drafted[s] = {} /\ unconf[s] = NoWrite
  /\ phase[s] \in {"closed", "idle"} => goal[s] = "tx"

DraftsKept(s) ==
  drafted[s] \subseteq Elems(pending[s]) \cup Elems(carried[s]) \cup EverOnDisk

QueueInv(s) ==
  /\ QueueAttempted(s)
  /\ CarriedInLog(s)
  /\ OverwriteCarriesAll(s)
  /\ NothingQueuedYet(s)
  /\ DraftsKept(s)

DraftInv == \A s \in Sessions : QueueInv(s)
-----------------------------------------------------------------------------
(* What a queue and a log hold.                                            *)

LEMMA ElemsEmpty == Elems(<<>>) = {}
BY EmptySeq DEF Elems

LEMMA ElemsConcat ==
  ASSUME NEW p \in Seq(Entry), NEW q \in Seq(Entry)
  PROVE  Elems(p \o q) = Elems(p) \cup Elems(q)
<1>1. /\ Len(p \o q) = Len(p) + Len(q) /\ Len(p) \in Nat /\ Len(q) \in Nat
      /\ \A i \in 1..Len(p) : (p \o q)[i] = p[i]
      /\ \A i \in (Len(p) + 1)..(Len(p) + Len(q)) : (p \o q)[i] = q[i - Len(p)]
  BY ConcatProperties, LenProperties
<1>2. Elems(p \o q) \subseteq Elems(p) \cup Elems(q)
  <2> SUFFICES ASSUME NEW i \in 1..Len(p \o q)
               PROVE  (p \o q)[i] \in Elems(p) \cup Elems(q)
    BY DEF Elems
  <2>1. CASE i <= Len(p)
    BY <1>1, <2>1 DEF Elems
  <2>2. CASE i > Len(p)
    <3>1. i - Len(p) \in 1..Len(q) /\ (p \o q)[i] = q[i - Len(p)]
      BY <1>1, <2>2
    <3> QED BY <3>1 DEF Elems
  <2> QED BY <1>1, <2>1, <2>2
<1>3. Elems(p) \subseteq Elems(p \o q)
  BY <1>1 DEF Elems
<1>4. Elems(q) \subseteq Elems(p \o q)
  <2> SUFFICES ASSUME NEW i \in 1..Len(q) PROVE q[i] \in Elems(p \o q)
    BY DEF Elems
  <2>1. /\ i + Len(p) \in 1..Len(p \o q)
        /\ i + Len(p) \in (Len(p) + 1)..(Len(p) + Len(q))
        /\ (i + Len(p)) - Len(p) = i
    BY <1>1
  <2>2. (p \o q)[i + Len(p)] = q[i]
    BY <1>1, <2>1
  <2> QED BY <2>1, <2>2 DEF Elems
<1> QED BY <1>2, <1>3, <1>4

LEMMA ElemsAppend ==
  ASSUME NEW p \in Seq(Entry), NEW e \in Entry
  PROVE  Elems(Append(p, e)) = Elems(p) \cup {e}
<1>1. /\ Len(Append(p, e)) = Len(p) + 1 /\ Len(p) \in Nat
      /\ \A i \in 1..Len(p) : Append(p, e)[i] = p[i]
      /\ Append(p, e)[Len(p) + 1] = e
  BY AppendProperties, LenProperties
<1>2. 1..(Len(p) + 1) = 1..Len(p) \cup {Len(p) + 1}
  BY <1>1
<1> QED BY <1>1, <1>2 DEF Elems

LEMMA ElemsContinues ==
  ASSUME NEW p \in Seq(Entry), NEW q \in Seq(Entry), Continues(p, q)
  PROVE  Elems(p) \subseteq Elems(q)
BY LenProperties DEF Continues, Elems

\* A queue that grows behind still begins with what was attempted.
LEMMA AttemptedConcat ==
  ASSUME NEW q \in Seq(Entry), NEW r \in Seq(Entry), NEW w \in Write,
         Attempted(q, w)
  PROVE  Attempted(q \o r, w)
<1>1. /\ Len(q \o r) = Len(q) + Len(r) /\ Len(q) \in Nat /\ Len(r) \in Nat
      /\ \A i \in 1..Len(q) : (q \o r)[i] = q[i]
  BY ConcatProperties, LenProperties
<1> QED BY <1>1 DEF Attempted, Write

LEMMA AttemptedAppend ==
  ASSUME NEW q \in Seq(Entry), NEW e \in Entry, NEW w \in Write,
         Attempted(q, w)
  PROVE  Attempted(Append(q, e), w)
<1>1. /\ Len(Append(q, e)) = Len(q) + 1 /\ Len(q) \in Nat
      /\ \A i \in 1..Len(q) : Append(q, e)[i] = q[i]
  BY AppendProperties, LenProperties
<1> QED BY <1>1 DEF Attempted, Write

LEMMA NothingAttempted ==
  ASSUME NEW q \in Seq(Entry)
  PROVE  Attempted(q, NoWrite)
BY LenProperties DEF Attempted, NoWrite

LEMMA AllAttempted ==
  ASSUME NEW q \in Seq(Entry), NEW log, Elems(q) \subseteq Elems(log)
  PROVE  Attempted(q, [log |-> log, drafts |-> Len(q)])
BY LenProperties DEF Attempted, Elems

\* Every session has a value of each of these.
LEMMA QueueParts ==
  ASSUME TypeOK
  PROVE  /\ pending \in [Sessions -> Seq(Entry)]
         /\ carried \in [Sessions -> Seq(Entry)]
         /\ unconf \in [Sessions -> Write]
         /\ drafted \in [Sessions -> SUBSET Entry]
         /\ \A s \in Sessions : /\ mem[s].log \in Seq(Entry)
                                /\ known[s].log \in Seq(Entry)
                                /\ sealed[s].log \in Seq(Entry)
                                /\ unconf[s].log \in Seq(Entry)
                                /\ unconf[s].drafts \in Nat
         /\ entries + 1 \in Entry
         /\ file.log \in Seq(Entry)
<1>1. entries + 1 \in Entry
  BY DEF TypeOK, CountTypeOK, Entry
<1>2. file.log \in Seq(Entry)
  BY DEF TypeOK, DiskTypeOK, Image
<1>3. /\ pending \in [Sessions -> Seq(Entry)]
      /\ carried \in [Sessions -> Seq(Entry)]
      /\ unconf \in [Sessions -> Write]
      /\ drafted \in [Sessions -> SUBSET Entry]
  BY DEF TypeOK, MemoryTypeOK, WorkTypeOK, CountTypeOK
<1>4. ASSUME NEW s \in Sessions
      PROVE  /\ mem[s].log \in Seq(Entry) /\ known[s].log \in Seq(Entry)
             /\ sealed[s].log \in Seq(Entry)
             /\ unconf[s].log \in Seq(Entry) /\ unconf[s].drafts \in Nat
  <2>1. mem[s] \in Body /\ known[s] \in Known /\ sealed[s] \in Image
    BY SessionTypes
  <2>2. unconf[s] \in Write
    BY <1>3
  <2> QED BY <2>1, <2>2 DEF Body, Known, Image, Write
<1> QED BY <1>1, <1>2, <1>3, <1>4

\* With nothing of the chain unwritten, the queue is what is pending.
LEMMA RequeuedIsPending ==
  ASSUME TypeOK, NEW s \in Sessions, mem[s].log = known[s].log
  PROVE  Requeued(s) = pending[s]
<1> DEFINE n    == Len(mem[s].log)
           tail == SubSeq(mem[s].log, n + 1, n)
<1>1. n \in Nat /\ mem[s].log \in Seq(Entry) /\ pending[s] \in Seq(Entry)
  BY QueueParts, LenProperties
<1>2. tail = <<>>
  <2>1. tail \in Seq(Entry)
    BY <1>1, LogTypes
  <2>2. Len(tail) = 0
    BY <1>1, SubSeqProperties
  <2> QED BY <2>1, <2>2, EmptySeq
<1>3. Requeued(s) = tail \o pending[s]
  BY DEF Requeued
<1> QED BY <1>1, <1>2, <1>3, ConcatEmptySeq

\* What settling takes from the queue is in the log it settles against.
LEMMA SettledKeeps ==
  ASSUME TypeOK, NEW s \in Sessions, mem[s].log = known[s].log,
         Attempted(pending[s], unconf[s]), NEW f, f.log \in Seq(Entry)
  PROVE  Elems(pending[s]) \subseteq Elems(Settled(s, f)) \cup Elems(f.log)
<1> DEFINE q == pending[s]
           d == unconf[s].drafts
<1>1. /\ q \in Seq(Entry) /\ d \in Nat /\ Len(q) \in Nat /\ d <= Len(q)
      /\ unconf[s].log \in Seq(Entry)
  BY QueueParts, LenProperties DEF Attempted
<1>2. Requeued(s) = q
  BY RequeuedIsPending
<1>3. CASE Continues(unconf[s].log, f.log)
  <2> DEFINE rest == SubSeq(q, d + 1, Len(q))
  <2>1. Settled(s, f) = rest
    BY <1>2, <1>3 DEF Settled
  <2>2. Elems(unconf[s].log) \subseteq Elems(f.log)
    BY <1>1, <1>3, ElemsContinues
  <2>3. ASSUME NEW i \in 1..Len(q) PROVE q[i] \in Elems(rest) \cup Elems(f.log)
    <3>1. CASE i <= d
      BY <1>1, <2>2, <3>1 DEF Attempted
    <3>2. CASE i > d
      <4>1. /\ Len(rest) = Len(q) - d
            /\ \A j \in 1..(Len(q) - d) : rest[j] = q[d + j]
        <5>1. \A j \in (d + 1)..Len(q) : q[j] \in Entry
          BY <1>1, ElementOfSeq
        <5>2. Len(rest) = Len(q) - d
          BY <1>1, <5>1, SubSeqProperties
        <5>3. ASSUME NEW j \in 1..(Len(q) - d) PROVE rest[j] = q[d + j]
          <6>1. /\ d + 1 \in Int /\ Len(q) \in Int
                /\ j \in 1..(Len(q) - (d + 1) + 1)
            BY <1>1
          <6>2. rest[j] = q[(d + 1) + j - 1]
            BY <5>1, <6>1, SubSeqProperties
          <6>3. (d + 1) + j - 1 = d + j
            BY <1>1
          <6> QED BY <6>2, <6>3
        <5> QED BY <5>2, <5>3
      <4>2. i - d \in 1..Len(rest) /\ d + (i - d) = i
        BY SMTT(40), <1>1, <3>2, <4>1
      <4>3. rest[i - d] = q[i]
        BY <4>1, <4>2
      <4> QED BY <4>2, <4>3 DEF Elems
    <3> QED BY <1>1, <3>1, <3>2
  <2> QED BY <2>1, <2>3 DEF Elems
<1>4. CASE ~Continues(unconf[s].log, f.log)
  BY <1>2, <1>4 DEF Settled
<1> QED BY <1>3, <1>4
-----------------------------------------------------------------------------
(* What a step leaves a session with.                                      *)

\* A step of s leaves the queues of the others alone.
QueueAlone(s) ==
  \A t \in Sessions \ {s} :
    /\ pending'[t] = pending[t] /\ carried'[t] = carried[t]
    /\ unconf'[t] = unconf[t] /\ drafted'[t] = drafted[t]

LEMMA CallStepQueueAlone ==
  ASSUME TypeOK, NEW s \in Sessions, CallStep(s)
  PROVE  QueueAlone(s)
<1> USE QueueParts DEF QueueAlone, bodyVars, histVars
<1>1. CASE Acquire(s)
  BY <1>1 DEF Acquire
<1>2. CASE CatchUp(s)
  BY <1>2 DEF CatchUp
<1>3. CASE OverwriteExamine(s)
  BY <1>3 DEF OverwriteExamine
<1>4. CASE CreateNewFile(s)
  BY <1>4 DEF CreateNewFile
<1>5. CASE \/ CatchUpRefused(s) \/ OverwriteRefused(s) \/ CreateRefused(s)
           \/ CreateFails(s) \/ LockFails(s) \/ ReadFails(s)
  <2>1. Refuse(s) /\ UNCHANGED drafted
    BY <1>5 DEF CatchUpRefused, OverwriteRefused, CreateRefused, CreateFails,
       LockFails, ReadFails
  <2> QED BY <2>1 DEF Refuse, EndCall
<1>6. CASE \/ Flush(s) \/ Edit(s) \/ InstallPassword(s)
           \/ (\E d \in DeviceIds : AddDeviceKey(s, d) \/ RemoveDeviceKey(s, d))
  <2>1. PICK body, own : Closure(s, body, own)
    BY <1>6 DEF Flush, Edit, InstallPassword, AddDeviceKey, RemoveDeviceKey
  <2> QED BY <2>1 DEF Closure
<1>7. CASE PasswordConflict(s) \/ ClosureFails(s)
  BY <1>7 DEF PasswordConflict, ClosureFails, AbortClosure, RollBack, EndCall
<1>8. CASE Commit(s)
  BY <1>8 DEF Commit
<1>9. CASE SealFails(s) \/ ReadBackFails(s)
  <2>1. /\ BackOut(s) /\ UNCHANGED drafted
        /\ \A t \in Sessions \ {s} : unconf'[t] = unconf[t]
    BY <1>9 DEF SealFails, ReadBackFails
  <2> QED BY <2>1 DEF BackOut, RollBack, RestoreSession, EndCall
<1>10. CASE WriteTemp(s) \/ WriteFails(s) \/ RenameLosesReply(s)
  BY <1>10 DEF WriteTemp, WriteFails, RenameLosesReply
<1>11. CASE Rename(s) \/ ReadBackFinds(s)
  BY <1>11 DEF Rename, ReadBackFinds, RecordWritten, EndCall
<1> QED
  BY <1>1, <1>2, <1>3, <1>4, <1>5, <1>6, <1>7, <1>8, <1>9, <1>10, <1>11
     DEF CallStep

LEMMA CallerQueueAlone ==
  ASSUME TypeOK, NEW s \in Sessions, CallerStep(s) \/ LockBusy(s) \/ Crash(s)
  PROVE  QueueAlone(s)
<1> USE QueueParts DEF QueueAlone, bodyVars, histVars
<1>1. CASE Open(s) \/ Create(s)
  BY <1>1 DEF Open, Create
<1>2. CASE Close(s) \/ Crash(s)
  BY <1>2 DEF Close, Crash, Forget
<1>3. CASE QueueAudit(s) \/ QueueInside(s)
  BY <1>3 DEF QueueAudit, QueueInside
<1>4. CASE Refresh(s)
  BY <1>4 DEF Refresh, Adopt
<1>5. CASE ExamineConflict(s) \/ PreparePassword(s)
  BY <1>5 DEF ExamineConflict, PreparePassword
<1>6. CASE StartTransact(s) \/ StartOverwrite(s)
  BY <1>6 DEF StartTransact, StartOverwrite, StartCall
<1>7. CASE LockBusy(s)
  BY <1>7 DEF LockBusy, Refuse, EndCall
<1> QED BY <1>1, <1>2, <1>3, <1>4, <1>5, <1>6, <1>7 DEF CallerStep

\* Everything the queue's invariant reads is as it was.
QueueUntouched(s) ==
  /\ pending'[s] = pending[s] /\ carried'[s] = carried[s]
  /\ unconf'[s] = unconf[s] /\ drafted'[s] = drafted[s]
  /\ goal'[s] = goal[s] /\ mem'[s] = mem[s] /\ sealed'[s] = sealed[s]
  /\ past \subseteq past'
  /\ phase'[s] = phase[s] \/ (phase[s] \in InFlight /\ phase'[s] \in InFlight)

LEMMA EverOnDiskGrows ==
  ASSUME past \subseteq past'
  PROVE  EverOnDisk \subseteq EverOnDisk'
BY DEF EverOnDisk

LEMMA QueueUntouchedInv ==
  ASSUME NEW s \in Sessions, QueueInv(s), QueueUntouched(s)
  PROVE  QueueInv(s)'
<1> USE DEF QueueInv, QueueUntouched, InFlight, Building
<1>1. QueueAttempted(s)'
  BY DEF QueueAttempted, Attempted
<1>2. CarriedInLog(s)' /\ OverwriteCarriesAll(s)' /\ NothingQueuedYet(s)'
  BY DEF CarriedInLog, OverwriteCarriesAll, NothingQueuedYet
<1>3. DraftsKept(s)'
  BY EverOnDiskGrows DEF DraftsKept
<1> QED BY <1>1, <1>2, <1>3

LEMMA QueueStepInv ==
  ASSUME DraftInv, NEW s \in Sessions, Alone(s), QueueAlone(s),
         past \subseteq past', QueueInv(s)'
  PROVE  DraftInv'
<1>1. ASSUME NEW t \in Sessions, t # s PROVE QueueInv(t)'
  <2>1. QueueUntouched(t)
    BY <1>1 DEF Alone, QueueAlone, QueueUntouched
  <2> QED BY <2>1, QueueUntouchedInv DEF DraftInv
<1> QED BY <1>1 DEF DraftInv

\* It is gone, or never was there.
LEMMA GoneQueue ==
  ASSUME NEW s \in Sessions, phase'[s] = "closed", goal'[s] = "tx",
         pending'[s] \in Seq(Entry), carried'[s] = <<>>,
         drafted'[s] = {}, unconf'[s] = NoWrite
  PROVE  QueueInv(s)'
<1>1. Attempted(pending'[s], unconf'[s])
  BY NothingAttempted
<1> QED
  BY <1>1 DEF QueueInv, QueueAttempted, CarriedInLog, OverwriteCarriesAll,
     NothingQueuedYet, DraftsKept, Building, InFlight, Attempted

\* It is between calls.
LEMMA RestedQueue ==
  ASSUME NEW s \in Sessions, phase'[s] = "idle", goal'[s] = "tx",
         carried'[s] = <<>>, Attempted(pending'[s], unconf'[s]),
         drafted'[s] \subseteq Elems(pending'[s]) \cup EverOnDisk'
  PROVE  QueueInv(s)'
BY DEF QueueInv, QueueAttempted, CarriedInLog, OverwriteCarriesAll,
   NothingQueuedYet, DraftsKept, Building, InFlight, Attempted

\* Before a call has read the file, the chain is what is known of it.
LEMMA NothingUnwritten ==
  ASSUME MemoryInv, NEW s \in Sessions,
         phase[s] = "idle" \/ (phase[s] = "acquire" /\ goal[s] # "create")
  PROVE  mem[s].log = known[s].log
BY ImageFields DEF MemoryInv, SessionInv, Settles, Committed
-----------------------------------------------------------------------------
(* The ends of calls.                                                      *)

LEMMA RefuseQueue ==
  ASSUME TypeOK, DraftInv, NEW s \in Sessions, Refuse(s),
         UNCHANGED <<past, drafted>>, phase[s] = "acquire" \/ goal[s] = "create"
  PROVE  QueueInv(s)'
<1> USE SessionTypes, QueueParts
<1>1. /\ pending'[s] = pending[s] /\ unconf'[s] = unconf[s]
      /\ drafted'[s] = drafted[s] /\ carried'[s] = <<>> /\ goal'[s] = "tx"
  BY DEF Refuse, EndCall
<1>2. CASE goal[s] = "create"
  <2>1. phase'[s] = "closed"
    BY <1>2 DEF Refuse, EndCall
  <2>2. drafted[s] = {} /\ unconf[s] = NoWrite
    BY <1>2 DEF DraftInv, QueueInv, NothingQueuedYet
  <2> QED BY <1>1, <2>1, <2>2, GoneQueue
<1>3. CASE goal[s] # "create"
  <2>1. phase'[s] = "idle" /\ phase[s] \notin Building
    BY <1>3 DEF Refuse, EndCall, Building, InFlight
  <2>2. carried[s] = <<>> /\ Attempted(pending[s], unconf[s])
    BY <2>1 DEF DraftInv, QueueInv, QueueAttempted, CarriedInLog
  <2>3. drafted[s] \subseteq Elems(pending[s]) \cup EverOnDisk
    BY <2>2, ElemsEmpty DEF DraftInv, QueueInv, DraftsKept
  <2>4. EverOnDisk' = EverOnDisk
    BY DEF EverOnDisk
  <2> QED BY <1>1, <2>1, <2>2, <2>3, <2>4, RestedQueue
<1> QED BY <1>2, <1>3

\* The queue a failed write leaves is what it carried, and what came after.
LEMMA BackedOutQueue ==
  ASSUME TypeOK, DraftInv, NEW s \in Sessions, phase[s] \in Building,
         EndCall(s, "idle"), UNCHANGED <<past, drafted>>,
         \/ goal[s] = "tx" /\ RollBack(s)
         \/ goal[s] = "overwrite" /\ RestoreSession(s),
         unconf'[s] \in Write, Attempted(carried[s], unconf'[s])
  PROVE  QueueInv(s)'
<1> USE SessionTypes, QueueParts
<1>1. phase'[s] = "idle" /\ goal'[s] = "tx" /\ carried'[s] = <<>>
  BY DEF EndCall
<1>2. EverOnDisk' = EverOnDisk /\ drafted'[s] = drafted[s]
  BY DEF EverOnDisk
<1>3. drafted[s] \subseteq Elems(pending[s]) \cup Elems(carried[s]) \cup EverOnDisk
  BY DEF DraftInv, QueueInv, DraftsKept
<1>4. CASE goal[s] = "tx" /\ RollBack(s)
  <2>1. pending'[s] = carried[s] \o pending[s]
    BY <1>4 DEF RollBack
  <2>2. Attempted(pending'[s], unconf'[s])
    BY <2>1, AttemptedConcat
  <2>3. Elems(pending'[s]) = Elems(carried[s]) \cup Elems(pending[s])
    BY <2>1, ElemsConcat
  <2> QED BY <1>1, <1>2, <1>3, <2>2, <2>3, RestedQueue
<1>5. CASE goal[s] = "overwrite" /\ RestoreSession(s)
  <2>1. pending'[s] = carried[s] /\ pending[s] = <<>>
    BY <1>5 DEF RestoreSession, DraftInv, QueueInv, OverwriteCarriesAll
  <2> QED BY <1>1, <1>2, <1>3, <2>1, ElemsEmpty, RestedQueue
<1> QED BY <1>4, <1>5

\* A write that landed took its drafts to the file.
LEMMA WrittenQueue ==
  ASSUME TypeOK, DraftInv, NEW s \in Sessions, phase[s] \in InFlight,
         RecordWritten(s), UNCHANGED drafted, past \subseteq past',
         sealed[s] \in past'
  PROVE  QueueInv(s)'
<1> USE SessionTypes, QueueParts
<1>1. /\ phase'[s] = "idle" /\ goal'[s] = "tx" /\ carried'[s] = <<>>
      /\ pending'[s] = pending[s] /\ unconf'[s] = NoWrite
  BY DEF RecordWritten, EndCall
<1>2. Elems(carried[s]) \subseteq EverOnDisk'
  BY DEF DraftInv, QueueInv, CarriedInLog, EverOnDisk
<1>3. drafted[s] \subseteq Elems(pending[s]) \cup Elems(carried[s]) \cup EverOnDisk
  BY DEF DraftInv, QueueInv, DraftsKept
<1>4. Attempted(pending'[s], unconf'[s])
  BY <1>1, NothingAttempted
<1> QED BY <1>1, <1>2, <1>3, <1>4, EverOnDiskGrows, RestedQueue

-----------------------------------------------------------------------------
(* The beginnings of calls, the closure and the commit.                    *)

LEMMA StartQueue ==
  ASSUME TypeOK, DraftInv, NEW s \in Sessions, phase[s] \in {"closed", "idle"},
         phase'[s] = "acquire", goal'[s] = "create" => phase[s] = "closed",
         UNCHANGED <<pending, carried, unconf, drafted, past>>
  PROVE  QueueInv(s)'
<1>1. QueueAttempted(s)' /\ CarriedInLog(s)'
  BY DEF DraftInv, QueueInv, QueueAttempted, CarriedInLog, Attempted, Building,
     InFlight
<1>2. OverwriteCarriesAll(s)' /\ NothingQueuedYet(s)'
  BY DEF DraftInv, QueueInv, OverwriteCarriesAll, NothingQueuedYet, Building,
     InFlight
<1>3. DraftsKept(s)'
  BY EverOnDiskGrows DEF DraftInv, QueueInv, DraftsKept
<1> QED BY <1>1, <1>2, <1>3 DEF QueueInv

\* The queue goes with the write, less what has landed already.
LEMMA CatchUpQueue ==
  ASSUME TypeOK, UpdateInv, MemoryInv, DraftInv, NEW s \in Sessions, CatchUp(s)
  PROVE  QueueInv(s)'
<1> USE SessionTypes, QueueParts
<1> DEFINE queue == IF file.gen = known[s].gen THEN Requeued(s) ELSE Settled(s, file)
           disk  == IF file.gen = known[s].gen THEN known[s] ELSE KnownOf(file)
           body  == IF file.gen = known[s].gen THEN mem[s] ELSE BodyOf(file)
           next  == [body EXCEPT !.log = disk.log \o queue]
<1>1. /\ phase[s] = "acquire" /\ goal[s] = "tx" /\ phase'[s] = "closure"
      /\ carried'[s] = queue /\ pending'[s] = <<>> /\ unconf'[s] = NoWrite
      /\ mem'[s] = next
      /\ UNCHANGED <<goal, past, drafted>>
  BY DEF CatchUp, histVars
<1>2. body \in Body /\ disk.log \in Seq(Entry) /\ queue \in Seq(Entry)
  BY QueueTypes, ConversionTypes, ImageFields DEF TypeOK, DiskTypeOK
<1>3. /\ carried[s] = <<>> /\ Attempted(pending[s], unconf[s])
      /\ mem[s].log = known[s].log
  BY <1>1, NothingUnwritten DEF DraftInv, QueueInv, QueueAttempted, CarriedInLog,
     Building, InFlight
<1>4. Elems(pending[s]) \subseteq Elems(queue) \cup EverOnDisk
  <2>1. Elems(file.log) \subseteq EverOnDisk
    BY DEF UpdateInv, GenerationsInv, EverOnDisk
  <2> QED BY <1>3, <2>1, RequeuedIsPending, SettledKeeps
<1> HIDE DEF queue, disk, body
<1>5. next.log = disk.log \o queue
  BY <1>2 DEF Body
<1>6. Elems(carried'[s]) \subseteq Elems(mem'[s].log)
  BY <1>1, <1>2, <1>5, ElemsConcat
<1>7. drafted'[s] \subseteq Elems(carried'[s]) \cup EverOnDisk'
  <2>1. drafted[s] \subseteq Elems(pending[s]) \cup EverOnDisk
    BY <1>3, ElemsEmpty DEF DraftInv, QueueInv, DraftsKept
  <2>2. EverOnDisk' = EverOnDisk
    BY <1>1 DEF EverOnDisk
  <2> QED BY <1>1, <1>4, <2>1, <2>2
<1>8. Attempted(carried'[s], unconf'[s])
  BY <1>1, <1>2, NothingAttempted
<1>9. QueueAttempted(s)' /\ CarriedInLog(s)' /\ DraftsKept(s)'
  BY <1>1, <1>6, <1>7, <1>8 DEF QueueAttempted, Attempted, CarriedInLog,
     DraftsKept, Building, InFlight
<1>10. OverwriteCarriesAll(s)' /\ NothingQueuedYet(s)'
  BY <1>1 DEF OverwriteCarriesAll, NothingQueuedYet
<1> QED BY <1>9, <1>10 DEF QueueInv

LEMMA OverwriteQueue ==
  ASSUME TypeOK, DraftInv, NEW s \in Sessions, OverwriteExamine(s)
  PROVE  QueueInv(s)'
<1> USE SessionTypes, QueueParts
<1> DEFINE log == Append(mem[s].log \o pending[s], entries + 1)
<1>1. /\ phase[s] = "acquire" /\ goal[s] = "overwrite" /\ phase'[s] = "commit"
      /\ carried'[s] = pending[s] /\ pending'[s] = <<>>
      /\ UNCHANGED <<goal, past, drafted, unconf>>
  BY DEF OverwriteExamine, histVars
<1>2. mem'[s].log = log
  <2>1. \E d, r : mem'[s] = [mem[s] EXCEPT !.devices = d, !.retired = r, !.log = log]
    BY DEF OverwriteExamine
  <2>2. mem[s] \in Body
    OBVIOUS
  <2> HIDE DEF log
  <2> QED BY <2>1, <2>2 DEF Body
<1>3. Elems(pending[s]) \subseteq Elems(log)
  <2>1. mem[s].log \in Seq(Entry) /\ pending[s] \in Seq(Entry)
    OBVIOUS
  <2>2. mem[s].log \o pending[s] \in Seq(Entry)
    BY <2>1, LogTypes
  <2>3. Elems(pending[s]) \subseteq Elems(mem[s].log \o pending[s])
    BY <2>1, ElemsConcat
  <2>4. Elems(log) = Elems(mem[s].log \o pending[s]) \cup {entries + 1}
    BY <2>2, ElemsAppend
  <2> QED BY <2>3, <2>4
<1>4. carried[s] = <<>> /\ Attempted(pending[s], unconf[s])
  BY <1>1 DEF DraftInv, QueueInv, QueueAttempted, CarriedInLog, Building, InFlight
<1>5. drafted'[s] \subseteq Elems(carried'[s]) \cup EverOnDisk'
  <2>1. drafted[s] \subseteq Elems(pending[s]) \cup EverOnDisk
    BY <1>4, ElemsEmpty DEF DraftInv, QueueInv, DraftsKept
  <2>2. EverOnDisk' = EverOnDisk
    BY <1>1 DEF EverOnDisk
  <2> QED BY <1>1, <2>1, <2>2
<1> HIDE DEF log
<1>6. QueueAttempted(s)' /\ CarriedInLog(s)' /\ DraftsKept(s)'
  BY <1>1, <1>2, <1>3, <1>4, <1>5 DEF QueueAttempted, Attempted, CarriedInLog,
     DraftsKept, Building, InFlight
<1>7. OverwriteCarriesAll(s)' /\ NothingQueuedYet(s)'
  BY <1>1 DEF OverwriteCarriesAll, NothingQueuedYet
<1> QED BY <1>6, <1>7 DEF QueueInv

LEMMA CreateNewFileQueue ==
  ASSUME TypeOK, DraftInv, NEW s \in Sessions, CreateNewFile(s)
  PROVE  QueueInv(s)'
<1> USE SessionTypes, QueueParts
<1>1. /\ phase[s] = "acquire" /\ goal[s] = "create" /\ phase'[s] = "commit"
      /\ UNCHANGED <<goal, past, drafted, unconf, carried, pending, mem>>
  BY DEF CreateNewFile, histVars, bodyVars
<1>2. carried[s] = <<>> /\ drafted[s] = {} /\ unconf[s] = NoWrite
  BY <1>1 DEF DraftInv, QueueInv, CarriedInLog, NothingQueuedYet, Building, InFlight
<1>3. Attempted(carried'[s], unconf'[s])
  BY <1>1, <1>2, NothingAttempted
<1> QED
  BY <1>1, <1>2, <1>3, ElemsEmpty DEF QueueInv, QueueAttempted, Attempted,
     CarriedInLog, OverwriteCarriesAll, NothingQueuedYet, DraftsKept, Building,
     InFlight

LEMMA ClosureQueue ==
  ASSUME TypeOK, MemoryInv, DraftInv, NEW s \in Sessions,
         \/ Flush(s) \/ Edit(s) \/ InstallPassword(s)
         \/ (\E d \in DeviceIds : AddDeviceKey(s, d) \/ RemoveDeviceKey(s, d))
  PROVE  QueueInv(s)'
<1> USE SessionTypes, QueueParts
<1>1. PICK body \in Body, own \in {0, 1} :
        Closure(s, body, own) /\ body.log = mem[s].log
  BY ClosureEdits
<1>2. /\ phase[s] = "closure" /\ phase'[s] = "commit"
      /\ UNCHANGED <<goal, past, drafted, unconf, carried, pending>>
  BY <1>1 DEF Closure, histVars
<1>3. Elems(mem[s].log) \subseteq Elems(mem'[s].log)
  <2>1. CASE own = 0
    BY <1>1, <2>1 DEF Closure
  <2>2. CASE own # 0
    <3>1. mem'[s] = [body EXCEPT !.log = Append(body.log, entries + 1)]
      BY <1>1, <2>2 DEF Closure
    <3>2. mem'[s].log = Append(mem[s].log, entries + 1)
      BY <1>1, <3>1 DEF Body
    <3> QED BY <3>2, ElemsAppend
  <2> QED BY <2>1, <2>2
<1>4. goal[s] = "tx"
  BY <1>2 DEF MemoryInv, SessionInv, Restores, Building
<1>5. QueueAttempted(s)' /\ CarriedInLog(s)'
  BY <1>2, <1>3 DEF DraftInv, QueueInv, QueueAttempted, Attempted, CarriedInLog,
     Building, InFlight
<1>6. OverwriteCarriesAll(s)' /\ NothingQueuedYet(s)'
  BY <1>2, <1>4 DEF OverwriteCarriesAll, NothingQueuedYet
<1>7. DraftsKept(s)'
  BY <1>2, EverOnDiskGrows DEF DraftInv, QueueInv, DraftsKept
<1> QED BY <1>5, <1>6, <1>7 DEF QueueInv

\* A draft is queued, between calls or within a closure.
LEMMA QueuedQueue ==
  ASSUME TypeOK, MemoryInv, DraftInv, NEW s \in Sessions,
         QueueAudit(s) \/ QueueInside(s)
  PROVE  QueueInv(s)'
<1> USE SessionTypes, QueueParts
<1>1. /\ pending'[s] = Append(pending[s], entries + 1)
      /\ drafted'[s] = drafted[s] \cup {entries + 1}
      /\ phase[s] \in {"idle", "closure"}
      /\ UNCHANGED <<phase, goal, past, unconf, carried, mem>>
  BY DEF QueueAudit, QueueInside
<1>2. goal[s] = "tx"
  BY <1>1 DEF MemoryInv, SessionInv, Restores, Building, DraftInv, QueueInv,
     NothingQueuedYet
<1>3. QueueAttempted(s)'
  <2>1. CASE phase[s] = "closure"
    BY <1>1, <2>1 DEF DraftInv, QueueInv, QueueAttempted, Attempted, Building
  <2>2. CASE phase[s] = "idle"
    <3>1. Attempted(pending[s], unconf[s])
      BY <2>2 DEF DraftInv, QueueInv, QueueAttempted, Building, InFlight
    <3>2. Attempted(pending'[s], unconf[s])
      BY <1>1, <3>1, AttemptedAppend
    <3> QED BY <1>1, <2>2, <3>2 DEF QueueAttempted, Attempted, Building, InFlight
  <2> QED BY <1>1, <2>1, <2>2
<1>4. CarriedInLog(s)' /\ OverwriteCarriesAll(s)' /\ NothingQueuedYet(s)'
  BY <1>1, <1>2 DEF DraftInv, QueueInv, CarriedInLog, OverwriteCarriesAll,
     NothingQueuedYet, Building, InFlight
<1>5. DraftsKept(s)'
  <2>1. Elems(pending'[s]) = Elems(pending[s]) \cup {entries + 1}
    BY <1>1, ElemsAppend
  <2>2. EverOnDisk' = EverOnDisk
    BY <1>1 DEF EverOnDisk
  <2> QED BY <1>1, <2>1, <2>2 DEF DraftInv, QueueInv, DraftsKept
<1> QED BY <1>3, <1>4, <1>5 DEF QueueInv

LEMMA CommitQueue ==
  ASSUME TypeOK, DraftInv, NEW s \in Sessions, Commit(s)
  PROVE  QueueInv(s)'
<1> USE SessionTypes, QueueParts
<1> DEFINE log == mem[s].log \o pending[s]
<1>1. /\ phase[s] = "commit" /\ phase'[s] \in {"write", "readback"}
      /\ carried'[s] = carried[s] \o pending[s] /\ pending'[s] = <<>>
      /\ UNCHANGED <<goal, past, drafted, unconf>>
      /\ sealed'[s].log = log
  BY DEF Commit, histVars, ImageOf, Body
<1>2. phase[s] \in Building /\ phase'[s] \in Building /\ phase'[s] \in InFlight
  BY <1>1 DEF Building, InFlight
<1>3. Elems(carried'[s]) = Elems(carried[s]) \cup Elems(pending[s])
  BY <1>1, ElemsConcat
<1>4. Elems(carried'[s]) \subseteq Elems(sealed'[s].log)
  <2>1. Elems(carried[s]) \subseteq Elems(mem[s].log)
    BY <1>1 DEF DraftInv, QueueInv, CarriedInLog
  <2>2. Elems(log) = Elems(mem[s].log) \cup Elems(pending[s])
    BY ElemsConcat
  <2> QED BY <1>1, <1>3, <2>1, <2>2
<1>5. QueueAttempted(s)'
  <2>1. Attempted(carried[s], unconf[s])
    BY <1>2 DEF DraftInv, QueueInv, QueueAttempted
  <2>2. Attempted(carried'[s], unconf[s])
    BY <1>1, <2>1, AttemptedConcat
  <2> QED BY <1>1, <1>2, <2>2 DEF QueueAttempted, Attempted
<1>6. CarriedInLog(s)'
  BY <1>1, <1>2, <1>4 DEF CarriedInLog
<1>7. OverwriteCarriesAll(s)' /\ NothingQueuedYet(s)'
  BY <1>1 DEF DraftInv, QueueInv, OverwriteCarriesAll, NothingQueuedYet
<1>8. DraftsKept(s)'
  <2>1. EverOnDisk' = EverOnDisk
    BY <1>1 DEF EverOnDisk
  <2> QED BY <1>1, <1>3, <2>1 DEF DraftInv, QueueInv, DraftsKept
<1> QED BY <1>5, <1>6, <1>7, <1>8 DEF QueueInv
-----------------------------------------------------------------------------
(* The invariant, one action at a time.                                    *)

LEMMA CallStepDraftInv ==
  ASSUME TypeOK, TypeOK', UpdateInv, MemoryInv, DraftInv,
         NEW s \in Sessions, CallStep(s)
  PROVE  DraftInv'
<1> USE SessionTypes, QueueParts
<1>1. Alone(s) /\ QueueAlone(s)
  BY CallStepAlone, CallStepQueueAlone
<1>2. ASSUME UNCHANGED past, QueueInv(s)' PROVE DraftInv'
  BY <1>1, <1>2, QueueStepInv
<1>3. CASE Acquire(s)
  <2>1. QueueUntouched(s) /\ UNCHANGED past
    BY <1>3 DEF Acquire, QueueUntouched, bodyVars, histVars
  <2> QED BY <1>2, <2>1, QueueUntouchedInv DEF DraftInv
<1>4. CASE CatchUp(s)
  BY <1>2, <1>4, CatchUpQueue DEF CatchUp, histVars
<1>5. CASE OverwriteExamine(s)
  BY <1>2, <1>5, OverwriteQueue DEF OverwriteExamine, histVars
<1>6. CASE CreateNewFile(s)
  BY <1>2, <1>6, CreateNewFileQueue DEF CreateNewFile, histVars
<1>7. CASE \/ CatchUpRefused(s) \/ OverwriteRefused(s) \/ CreateRefused(s)
           \/ CreateFails(s) \/ LockFails(s) \/ ReadFails(s)
  <2>1. /\ Refuse(s) /\ UNCHANGED <<past, drafted>>
        /\ phase[s] = "acquire" \/ goal[s] = "create"
    BY <1>7 DEF CatchUpRefused, OverwriteRefused, CreateRefused, CreateFails,
       LockFails, ReadFails, histVars
  <2> QED BY <1>2, <2>1, RefuseQueue
<1>8. CASE \/ Flush(s) \/ Edit(s) \/ InstallPassword(s)
           \/ (\E d \in DeviceIds : AddDeviceKey(s, d) \/ RemoveDeviceKey(s, d))
  <2>1. PICK body \in Body, own \in {0, 1} : Closure(s, body, own)
    BY <1>8, ClosureEdits
  <2>2. UNCHANGED past
    BY <2>1 DEF Closure, histVars
  <2> QED BY <1>2, <1>8, <2>2, ClosureQueue
<1>9. CASE PasswordConflict(s) \/ ClosureFails(s)
  <2>1. /\ RollBack(s) /\ EndCall(s, "idle") /\ UNCHANGED <<past, drafted>>
        /\ phase[s] = "closure" /\ phase[s] \in Building /\ unconf'[s] = NoWrite
    BY <1>9 DEF PasswordConflict, ClosureFails, AbortClosure, Building
  <2>2. goal[s] = "tx"
    BY <2>1 DEF MemoryInv, SessionInv, Restores
  <2>3. Attempted(carried[s], unconf'[s]) /\ unconf'[s] \in Write
    BY <2>1, NothingAttempted, NothingTypes
  <2> QED BY <1>2, <2>1, <2>2, <2>3, BackedOutQueue
<1>10. CASE Commit(s)
  BY <1>2, <1>10, CommitQueue DEF Commit, histVars
<1>11. CASE SealFails(s) \/ ReadBackFails(s)
  <2>1. /\ BackOut(s) /\ EndCall(s, "idle") /\ UNCHANGED <<past, drafted>>
        /\ goal[s] # "create" /\ phase[s] \in Building
    BY <1>11 DEF SealFails, ReadBackFails, BackOut, Building, InFlight
  <2>2. \/ goal[s] = "tx" /\ RollBack(s)
        \/ goal[s] = "overwrite" /\ RestoreSession(s)
    BY <2>1 DEF BackOut, Goals
  <2>3. Attempted(carried[s], unconf'[s])
    <3>1. CASE SealFails(s)
      <4>1. unconf' = unconf
        BY <3>1 DEF SealFails
      <4> QED BY <2>1, <4>1 DEF DraftInv, QueueInv, QueueAttempted
    <3>2. CASE ReadBackFails(s)
      <4>1. /\ unconf'[s] = [log |-> sealed[s].log, drafts |-> Len(carried[s])]
            /\ phase[s] \in InFlight
        BY <3>2 DEF ReadBackFails, InFlight
      <4>2. Elems(carried[s]) \subseteq Elems(sealed[s].log)
        BY <4>1 DEF DraftInv, QueueInv, CarriedInLog
      <4> QED BY <4>1, <4>2, AllAttempted
    <3> QED BY <1>11, <3>1, <3>2
  <2>4. unconf'[s] \in Write
    BY DEF TypeOK, MemoryTypeOK
  <2> QED BY <1>2, <2>1, <2>2, <2>3, <2>4, BackedOutQueue
<1>12. CASE WriteTemp(s) \/ WriteFails(s)
  <2>1. /\ UNCHANGED <<past, drafted, goal, bodyVars>>
        /\ phase[s] \in InFlight /\ phase'[s] \in InFlight
    BY <1>12 DEF WriteTemp, WriteFails, histVars, Writing, InFlight
  <2>2. QueueUntouched(s)
    BY <2>1 DEF QueueUntouched, bodyVars
  <2> QED BY <1>2, <2>1, <2>2, QueueUntouchedInv DEF DraftInv
<1>13. CASE RenameLosesReply(s)
  <2>1. /\ past' = past \cup {sealed[s]} /\ UNCHANGED <<goal, bodyVars, drafted>>
        /\ phase[s] \in InFlight /\ phase'[s] \in InFlight
    BY <1>13 DEF RenameLosesReply, Land, InFlight
  <2>2. QueueUntouched(s)
    BY <2>1 DEF QueueUntouched, bodyVars
  <2>3. QueueInv(s)' /\ past \subseteq past'
    BY <2>1, <2>2, QueueUntouchedInv DEF DraftInv
  <2> QED BY <1>1, <2>3, QueueStepInv
<1>14. CASE Rename(s)
  <2>1. /\ past' = past \cup {sealed[s]} /\ RecordWritten(s)
        /\ phase[s] \in InFlight /\ UNCHANGED drafted
    BY <1>14 DEF Rename, Land, InFlight
  <2>2. QueueInv(s)' /\ past \subseteq past'
    BY <2>1, WrittenQueue
  <2> QED BY <1>1, <2>2, QueueStepInv
<1>15. CASE ReadBackFinds(s)
  <2>1. /\ RecordWritten(s) /\ phase[s] \in InFlight /\ past' = past
        /\ file.gen = sealed[s].gen /\ UNCHANGED drafted
    BY <1>15 DEF ReadBackFinds, InFlight
  <2>2. sealed[s] \in past
    BY <2>1 DEF UpdateInv, GenerationsInv
  <2> QED BY <1>2, <2>1, <2>2, WrittenQueue
<1> QED
  BY <1>3, <1>4, <1>5, <1>6, <1>7, <1>8, <1>9, <1>10, <1>11, <1>12, <1>13,
     <1>14, <1>15 DEF CallStep

LEMMA CallerDraftInv ==
  ASSUME TypeOK, TypeOK', UpdateInv, MemoryInv, DraftInv, NEW s \in Sessions,
         CallerStep(s) \/ LockBusy(s) \/ Crash(s)
  PROVE  DraftInv'
<1> USE SessionTypes, QueueParts
<1>1. Alone(s) /\ QueueAlone(s)
  BY CallerStepAlone, CallerQueueAlone
<1>2. ASSUME UNCHANGED past, QueueInv(s)' PROVE DraftInv'
  BY <1>1, <1>2, QueueStepInv
<1>3. CASE Open(s)
  <2>1. /\ phase[s] = "closed" /\ phase'[s] = "idle"
        /\ UNCHANGED <<goal, pending, carried, unconf, drafted, past>>
    BY <1>3 DEF Open, histVars
  <2>2. /\ goal[s] = "tx" /\ drafted[s] = {} /\ carried[s] = <<>>
        /\ Attempted(pending[s], unconf[s])
    BY <2>1 DEF DraftInv, QueueInv, QueueAttempted, CarriedInLog,
       NothingQueuedYet, Building, InFlight
  <2> QED BY <1>2, <2>1, <2>2, RestedQueue
<1>4. CASE Create(s)
  <2>1. /\ phase[s] = "closed" /\ phase'[s] = "acquire"
        /\ UNCHANGED <<pending, carried, unconf, drafted, past>>
    BY <1>4 DEF Create, histVars
  <2> QED BY <1>2, <2>1, StartQueue
<1>5. CASE StartTransact(s) \/ StartOverwrite(s)
  <2>1. /\ phase[s] = "idle" /\ phase'[s] = "acquire" /\ goal'[s] # "create"
        /\ UNCHANGED <<pending, carried, unconf, drafted, past>>
    BY <1>5 DEF StartTransact, StartOverwrite, StartCall, bodyVars, histVars
  <2> QED BY <1>2, <2>1, StartQueue
<1>6. CASE Close(s) \/ Crash(s)
  <2>1. /\ phase'[s] = "closed" /\ goal'[s] = "tx" /\ pending'[s] = <<>>
        /\ carried'[s] = <<>> /\ drafted'[s] = {} /\ unconf'[s] = NoWrite
        /\ UNCHANGED past
    BY <1>6 DEF Close, Crash, Forget
  <2>2. pending'[s] \in Seq(Entry)
    BY <2>1, NothingTypes
  <2> QED BY <1>2, <2>1, <2>2, GoneQueue
<1>7. CASE QueueAudit(s) \/ QueueInside(s)
  BY <1>2, <1>7, QueuedQueue DEF QueueAudit, QueueInside
<1>8. CASE ExamineConflict(s) \/ PreparePassword(s)
  <2>1. QueueUntouched(s) /\ UNCHANGED past
    BY <1>8 DEF ExamineConflict, PreparePassword, QueueUntouched, bodyVars, histVars
  <2> QED BY <1>2, <2>1, QueueUntouchedInv DEF DraftInv
<1>9. CASE Refresh(s)
  <2>1. /\ phase[s] = "idle" /\ phase'[s] = "idle"
        /\ unconf'[s] = NoWrite
        /\ pending'[s] = pending[s] \/ pending'[s] = Settled(s, file)
        /\ UNCHANGED <<goal, carried, drafted, past>>
    BY <1>9 DEF Refresh, Adopt, histVars
  <2>2. /\ goal[s] = "tx" /\ carried[s] = <<>>
        /\ Attempted(pending[s], unconf[s])
        /\ drafted[s] \subseteq Elems(pending[s]) \cup EverOnDisk
    BY <2>1, ElemsEmpty DEF DraftInv, QueueInv, QueueAttempted, CarriedInLog,
       NothingQueuedYet, DraftsKept, Building, InFlight
  <2>3. Attempted(pending'[s], unconf'[s])
    BY <2>1, QueueTypes, NothingAttempted
  <2>4. Elems(pending[s]) \subseteq Elems(pending'[s]) \cup EverOnDisk
    <3>1. Elems(file.log) \subseteq EverOnDisk
      BY DEF UpdateInv, GenerationsInv, EverOnDisk
    <3>2. mem[s].log = known[s].log
      BY <2>1, NothingUnwritten
    <3> QED BY <2>1, <2>2, <3>1, <3>2, SettledKeeps
  <2>5. EverOnDisk' = EverOnDisk
    BY <2>1 DEF EverOnDisk
  <2> QED BY <1>2, <2>1, <2>2, <2>3, <2>4, <2>5, RestedQueue
<1>10. CASE LockBusy(s)
  <2>1. Refuse(s) /\ UNCHANGED <<past, drafted>> /\ phase[s] = "acquire"
    BY <1>10 DEF LockBusy, histVars
  <2> QED BY <1>2, <2>1, RefuseQueue
<1> QED
  BY <1>3, <1>4, <1>5, <1>6, <1>7, <1>8, <1>9, <1>10 DEF CallerStep

LEMMA StepDraftInv ==
  ASSUME TypeOK, TypeOK', UpdateInv, MemoryInv, DraftInv, [Next]_vars
  PROVE  DraftInv'
<1>1. ASSUME NEW s \in Sessions, CallStep(s) PROVE DraftInv'
  BY <1>1, CallStepDraftInv
<1>2. ASSUME NEW s \in Sessions, CallerStep(s) \/ LockBusy(s) \/ Crash(s)
      PROVE  DraftInv'
  BY <1>2, CallerDraftInv
<1>3. CASE \/ RestoreOlderCopy \/ ReplaceVault \/ LockFileRemoved
           \/ UNCHANGED vars
  <2>1. \A s \in Sessions : QueueUntouched(s)
    BY <1>3 DEF RestoreOlderCopy, ReplaceVault, LockFileRemoved, Interfere,
       QueueUntouched, vars, bodyVars, histVars
  <2> QED BY <2>1, QueueUntouchedInv DEF DraftInv
<1> QED BY <1>1, <1>2, <1>3 DEF Next

LEMMA InitDraftInv == Init => DraftInv
<1> SUFFICES ASSUME Init, NEW s \in Sessions PROVE QueueInv(s)
  BY DEF DraftInv
<1>1. /\ phase[s] = "closed" /\ goal[s] = "tx" /\ carried[s] = <<>>
      /\ pending[s] = <<>> /\ drafted[s] = {} /\ unconf[s] = NoWrite
  BY DEF Init
<1>2. Attempted(pending[s], unconf[s])
  BY <1>1, NothingAttempted, NothingTypes
<1> QED
  BY <1>1, <1>2 DEF QueueInv, QueueAttempted, CarriedInLog, OverwriteCarriesAll,
     NothingQueuedYet, DraftsKept, Building, InFlight

LEMMA DraftInvariant == Spec => []DraftInv
<1>1. Init => DraftInv
  BY InitDraftInv
<1>2. TypeOK /\ TypeOK' /\ UpdateInv /\ MemoryInv /\ DraftInv /\ [Next]_vars
        => DraftInv'
  BY StepDraftInv
<1> QED BY <1>1, <1>2, TypeCorrectness, UpdateInvariant, MemoryInvariant,
           PTL DEF Spec

(* No draft queued in an open session is dropped: whichever of its calls   *)
(* fail, it waits in the queue, is carried by the write under way, or has  *)
(* been on disk (queue_audit, requeue_unsaved_audit, settle_unconfirmed,   *)
(* roll_back and the tail of overwrite_unmerged in vault/mod.rs).          *)
THEOREM DraftsSurvive == Spec => []NoDraftLost
<1>1. DraftInv => NoDraftLost
  BY DEF DraftInv, QueueInv, DraftsKept, NoDraftLost
<1> QED BY <1>1, DraftInvariant, PTL

-------------------------------------------------------------------------------


(* What a session agreed to and knows before it has a file, and what its   *)
(* calls go back to.                                                       *)

\* A session that is closed, or not there yet, knows and agreed to nothing.
KnowsNothingYet(s) ==
  phase[s] = "closed" \/ goal[s] = "create" =>
    known[s].gen = 0 /\ known[s].log = <<>> /\ confirmed[s].gen = 0

\* Outside a call there is nothing but the next transaction.
GoalRests(s) == phase[s] \in {"closed", "idle"} => goal[s] = "tx"

\* A transaction has a base; an overwrite knows the version it would go back to.
BasisKnown(s) ==
  phase[s] \in Building =>
    /\ goal[s] = "tx" => base[s] # NoFile
    /\ goal[s] = "overwrite" => known[s].gen = undo[s].known.gen

BasisInv(s) == KnowsNothingYet(s) /\ GoalRests(s) /\ BasisKnown(s)

AllBasisInv == \A s \in Sessions : BasisInv(s)

\* A step of s that keeps its own leaves the others theirs.
LEMMA OwnBasis ==
  ASSUME AllBasisInv, NEW s \in Sessions, Alone(s), BasisInv(s)'
  PROVE  AllBasisInv'
<1>1. ASSUME NEW t \in Sessions, t # s PROVE BasisInv(t)'
  BY <1>1 DEF AllBasisInv, BasisInv, KnowsNothingYet, GoalRests, BasisKnown, Alone
<1> QED BY <1>1 DEF AllBasisInv

\* A session that is between calls has nothing to keep.
LEMMA RestedBasis ==
  ASSUME NEW s \in Sessions, phase'[s] = "idle", goal'[s] = "tx"
  PROVE  BasisInv(s)'
BY DEF BasisInv, KnowsNothingYet, GoalRests, BasisKnown, Building, InFlight

LEMMA GoneBasis ==
  ASSUME NEW s \in Sessions, phase'[s] = "closed", goal'[s] = "tx",
         known'[s] = NoKnown, confirmed'[s].gen = 0
  PROVE  BasisInv(s)'
BY ImageFields DEF BasisInv, KnowsNothingYet, GoalRests, BasisKnown, Building,
   InFlight, NoKnown

\* A step inside a call that moves nothing but the phase.
LEMMA MovedBasis ==
  ASSUME NEW s \in Sessions, BasisInv(s),
         goal'[s] = goal[s], known'[s] = known[s], base'[s] = base[s],
         undo'[s] = undo[s], confirmed'[s] = confirmed[s],
         \/ phase'[s] = phase[s]
         \/ phase[s] \in Building /\ phase'[s] \in Building
  PROVE  BasisInv(s)'
BY DEF BasisInv, KnowsNothingYet, GoalRests, BasisKnown, Building, InFlight

LEMMA RefuseBasis ==
  ASSUME TypeOK, NEW s \in Sessions, BasisInv(s), Refuse(s),
         confirmed'[s] = confirmed[s]
  PROVE  BasisInv(s)'
<1> USE SessionTypes
<1>1. CASE goal[s] = "create"
  <2>1. /\ phase'[s] = "closed" /\ goal'[s] = "tx" /\ known'[s] = NoKnown
        /\ confirmed'[s].gen = 0
    BY <1>1 DEF Refuse, EndCall, BasisInv, KnowsNothingYet
  <2> QED BY <2>1, GoneBasis
<1>2. CASE goal[s] # "create"
  <2>1. phase'[s] = "idle" /\ goal'[s] = "tx"
    BY <1>2 DEF Refuse, EndCall
  <2> QED BY <2>1, RestedBasis
<1> QED BY <1>1, <1>2

LEMMA CallStepBasis ==
  ASSUME TypeOK, NEW s \in Sessions, BasisInv(s), CallStep(s)
  PROVE  BasisInv(s)'
<1> USE SessionTypes
<1>1. CASE Acquire(s)
  BY <1>1, MovedBasis DEF Acquire, bodyVars, userVars
<1>2. CASE CatchUp(s)
  <2>1. /\ phase'[s] = "closure" /\ goal'[s] = "tx" /\ base'[s] = file
        /\ file # NoFile
    BY <1>2 DEF CatchUp
  <2> QED BY <2>1 DEF BasisInv, KnowsNothingYet, GoalRests, BasisKnown
<1>3. CASE OverwriteExamine(s)
  <2>1. phase'[s] = "commit" /\ goal'[s] = "overwrite"
    BY <1>3 DEF OverwriteExamine
  <2>2. undo'[s] = [mem |-> mem[s], known |-> known[s]]
    BY <1>3 DEF OverwriteExamine
  <2>3. known'[s].gen = known[s].gen
    BY <1>3 DEF OverwriteExamine, Known
  <2> QED BY <2>1, <2>2, <2>3 DEF BasisInv, KnowsNothingYet, GoalRests, BasisKnown
<1>4. CASE CreateNewFile(s)
  BY <1>4 DEF CreateNewFile, bodyVars, userVars, BasisInv, KnowsNothingYet,
     GoalRests, BasisKnown
<1>5. CASE \/ CatchUpRefused(s) \/ OverwriteRefused(s) \/ CreateRefused(s)
           \/ CreateFails(s) \/ LockFails(s) \/ ReadFails(s)
  <2>1. Refuse(s) /\ confirmed'[s] = confirmed[s]
    BY <1>5 DEF CatchUpRefused, OverwriteRefused, CreateRefused, CreateFails,
       LockFails, ReadFails, userVars
  <2> QED BY <2>1, RefuseBasis
<1>6. CASE \/ Flush(s) \/ Edit(s) \/ InstallPassword(s)
           \/ (\E d \in DeviceIds : AddDeviceKey(s, d) \/ RemoveDeviceKey(s, d))
  <2>1. PICK body, own : Closure(s, body, own)
    BY <1>6 DEF Flush, Edit, InstallPassword, AddDeviceKey, RemoveDeviceKey
  <2> QED BY <2>1, MovedBasis DEF Closure, Building
<1>7. CASE \/ PasswordConflict(s) \/ ClosureFails(s) \/ SealFails(s)
           \/ ReadBackFails(s) \/ Rename(s) \/ ReadBackFinds(s)
  <2>1. EndCall(s, "idle")
    BY <1>7 DEF PasswordConflict, ClosureFails, AbortClosure, SealFails,
       ReadBackFails, BackOut, Rename, ReadBackFinds, RecordWritten
  <2>2. phase'[s] = "idle" /\ goal'[s] = "tx"
    BY <2>1 DEF EndCall
  <2> QED BY <2>2, RestedBasis
<1>8. CASE Commit(s) \/ WriteTemp(s) \/ WriteFails(s) \/ RenameLosesReply(s)
  <2>1. /\ phase[s] \in Building /\ phase'[s] \in Building
        /\ UNCHANGED <<goal, known, base, undo, confirmed>>
    BY <1>8 DEF Commit, WriteTemp, WriteFails, RenameLosesReply, Land, bodyVars,
       userVars, Building, InFlight, Writing
  <2> QED BY <2>1, MovedBasis
<1> QED BY <1>1, <1>2, <1>3, <1>4, <1>5, <1>6, <1>7, <1>8 DEF CallStep

LEMMA CallerBasis ==
  ASSUME TypeOK, NEW s \in Sessions, BasisInv(s),
         CallerStep(s) \/ LockBusy(s) \/ Crash(s)
  PROVE  BasisInv(s)'
<1> USE SessionTypes
<1>1. CASE Open(s)
  BY <1>1, RestedBasis DEF Open, BasisInv, GoalRests
<1>2. CASE Create(s)
  <2>1. /\ phase'[s] = "acquire" /\ goal'[s] = "create"
        /\ known'[s] = [NoKnown EXCEPT !.ver = 1]
        /\ confirmed'[s] = confirmed[s] /\ confirmed[s].gen = 0
    BY <1>2 DEF Create, userVars, BasisInv, KnowsNothingYet
  <2>2. known'[s].gen = 0 /\ known'[s].log = <<>>
    BY <2>1, ImageFields DEF NoKnown, KnownOf
  <2> QED
    BY <2>1, <2>2 DEF BasisInv, KnowsNothingYet, GoalRests, BasisKnown, Building,
       InFlight
<1>3. CASE Close(s) \/ Crash(s)
  <2>1. /\ phase'[s] = "closed" /\ goal'[s] = "tx" /\ known'[s] = NoKnown
        /\ confirmed'[s].gen = 0
    BY <1>3 DEF Close, Crash, Forget, NoConflict
  <2> QED BY <2>1, GoneBasis
<1>4. CASE \/ QueueAudit(s) \/ Refresh(s) \/ ExamineConflict(s)
           \/ PreparePassword(s)
  <2>1. phase[s] = "idle" /\ phase'[s] = "idle" /\ goal'[s] = goal[s]
    BY <1>4 DEF QueueAudit, Refresh, ExamineConflict, PreparePassword
  <2> QED BY <2>1, RestedBasis DEF BasisInv, GoalRests
<1>5. CASE QueueInside(s)
  BY <1>5, MovedBasis DEF QueueInside, userVars
<1>6. CASE StartTransact(s) \/ StartOverwrite(s)
  BY <1>6 DEF StartTransact, StartOverwrite, StartCall, BasisInv,
     KnowsNothingYet, GoalRests, BasisKnown, Building, InFlight
<1>7. CASE LockBusy(s)
  BY <1>7, RefuseBasis DEF LockBusy, userVars
<1> QED BY <1>1, <1>2, <1>3, <1>4, <1>5, <1>6, <1>7 DEF CallerStep

LEMMA StepBasis ==
  ASSUME TypeOK, AllBasisInv, [Next]_vars
  PROVE  AllBasisInv'
<1>1. ASSUME NEW s \in Sessions,
             CallStep(s) \/ CallerStep(s) \/ LockBusy(s) \/ Crash(s)
      PROVE  AllBasisInv'
  <2>1. Alone(s)
    BY <1>1, CallStepAlone, CallerStepAlone
  <2>2. BasisInv(s)'
    BY <1>1, CallStepBasis, CallerBasis DEF AllBasisInv
  <2> QED BY <2>1, <2>2, OwnBasis
<1>2. CASE \/ RestoreOlderCopy \/ ReplaceVault \/ LockFileRemoved
           \/ UNCHANGED vars
  <2>1. UNCHANGED <<phase, goal, known, base, undo, confirmed>>
    BY <1>2 DEF RestoreOlderCopy, ReplaceVault, LockFileRemoved, Interfere, vars,
       bodyVars, userVars
  <2> QED
    BY <2>1 DEF AllBasisInv, BasisInv, KnowsNothingYet, GoalRests, BasisKnown
<1> QED BY <1>1, <1>2 DEF Next

LEMMA BasisAlways == Spec => []AllBasisInv
<1>1. Init => AllBasisInv
  <2>1. NoKnown.gen = 0 /\ NoKnown.log = <<>> /\ NoConflict.gen = 0
    BY ImageFields DEF NoKnown, NoConflict
  <2> SUFFICES ASSUME Init, NEW s \in Sessions PROVE BasisInv(s)
    BY DEF AllBasisInv
  <2>2. /\ phase[s] = "closed" /\ goal[s] = "tx" /\ known[s] = NoKnown
        /\ confirmed[s] = NoConflict
    BY DEF Init
  <2> QED
    BY <2>1, <2>2 DEF BasisInv, KnowsNothingYet, GoalRests, BasisKnown, Building,
       InFlight
<1>2. TypeOK /\ AllBasisInv /\ [Next]_vars => AllBasisInv'
  BY StepBasis
<1> QED BY <1>1, <1>2, TypeCorrectness, PTL DEF Spec
-----------------------------------------------------------------------------
(* The journal's own words for what a step did.                            *)

viewOf == [t \in Sessions |-> Version(known[t])]
agreedOf == [t \in Sessions |-> confirmed[t].gen]
othersMoves == <<interference, tampers>>
JournalStep == [Journal!JournalNext]_(Journal!journalVars)

\* A session's knowledge and agreement, where s alone may differ.
LEMMA ViewMoves ==
  ASSUME NEW s \in Sessions, Alone(s)
  PROVE  /\ viewOf' = [viewOf EXCEPT ![s] = Version(known[s])']
         /\ agreedOf' = [agreedOf EXCEPT ![s] = (confirmed[s].gen)']
BY DEF viewOf, agreedOf, Alone

LEMMA ViewStays ==
  ASSUME NEW s \in Sessions, Alone(s)
  PROVE  /\ Version(known[s])' = Version(known[s]) => viewOf' = viewOf
         /\ confirmed'[s] = confirmed[s] => agreedOf' = agreedOf
BY DEF viewOf, agreedOf, Alone

LEMMA JournalStutters ==
  ASSUME UNCHANGED <<file, viewOf, agreedOf, disturbed, othersMoves>>
  PROVE  JournalStep
BY DEF JournalStep, Journal!journalVars, viewOf, agreedOf, othersMoves

LEMMA JournalRefreshes ==
  ASSUME NEW s \in Sessions, Alone(s), confirmed'[s] = confirmed[s],
         UNCHANGED <<file, othersMoves>>,
         file.gen # 0, Continues(known[s].log, file.log),
         Version(known[s])' = Version(file),
         disturbed' \in {disturbed, disturbed \ {s}}
  PROVE  JournalStep
<1>1. viewOf' = [viewOf EXCEPT ![s] = Version(file)] /\ agreedOf' = agreedOf
  BY ViewMoves, ViewStays
<1>2. Version(file) # Journal!Nothing
  BY DEF Version, Journal!Nothing
<1>3. Journal!Extends(viewOf[s].log, Version(file).log)
  BY DEF Journal!Extends, Continues, viewOf, Version
<1>4. Journal!Refresh(s)
  BY <1>1, <1>2, <1>3 DEF Journal!Refresh, viewOf, agreedOf, othersMoves, Version
<1> QED BY <1>4 DEF JournalStep, Journal!JournalNext

LEMMA JournalWithdraws ==
  ASSUME NEW s \in Sessions, Alone(s), confirmed'[s] = confirmed[s],
         UNCHANGED <<file, othersMoves>>,
         Version(known[s])' = Version(known[s]),
         disturbed' = disturbed \ {s}
  PROVE  JournalStep
<1>1. viewOf' = viewOf /\ agreedOf' = agreedOf
  BY ViewStays
<1>2. Journal!Withdraw(s)
  BY <1>1 DEF Journal!Withdraw, viewOf, agreedOf, othersMoves
<1> QED BY <1>2 DEF JournalStep, Journal!JournalNext

LEMMA JournalDetaches ==
  ASSUME NEW s \in Sessions, Alone(s), UNCHANGED <<file, othersMoves>>,
         known'[s] = NoKnown, confirmed'[s] = NoConflict,
         disturbed' = disturbed \ {s}
  PROVE  JournalStep
<1>1. Version(known[s])' = Journal!Nothing /\ confirmed'[s].gen = 0
  BY ImageFields DEF Version, NoKnown, NoConflict, Journal!Nothing
<1>2. /\ viewOf' = [viewOf EXCEPT ![s] = Journal!Nothing]
      /\ agreedOf' = [agreedOf EXCEPT ![s] = 0]
  BY <1>1, ViewMoves
<1>3. Journal!Detach(s)
  BY <1>2 DEF Journal!Detach, viewOf, agreedOf, othersMoves
<1> QED BY <1>3 DEF JournalStep, Journal!JournalNext

LEMMA JournalIntruded ==
  ASSUME UNCHANGED <<known, confirmed>>,
         interference' + tampers' = interference + tampers + 1
  PROVE  JournalStep
<1>1. Journal!Intrude
  BY DEF Journal!Intrude
<1> QED BY <1>1 DEF JournalStep, Journal!JournalNext
-----------------------------------------------------------------------------
(* The write: where the session descends from what it wrote, and where its *)
(* reply is lost.                                                          *)

Lands(s) ==
  /\ phase[s] = "rename"
  /\ file' = sealed[s]
  /\ confirmed' = confirmed
  /\ UNCHANGED othersMoves
  /\ Version(known[s])' \in {Version(known[s]), Version(sealed[s])}

\* The author of a write knows the new version, or what it knew.
LEMMA AuthorSees ==
  ASSUME NEW s \in Sessions, Alone(s), Lands(s)
  PROVE  Journal!AuthorSees(s) /\ agreedOf' = agreedOf
<1>1. /\ viewOf' = [viewOf EXCEPT ![s] = Version(known[s])']
      /\ Version(known[s])' = Version(known[s]) => viewOf' = viewOf
      /\ agreedOf' = agreedOf
  BY ViewMoves, ViewStays DEF Lands
<1>2. Version(file)' = Version(sealed[s])
  BY DEF Lands, Version
<1>3. viewOf' \in {viewOf, [viewOf EXCEPT ![s] = Version(file)']}
  BY <1>1, <1>2 DEF Lands
<1> QED BY <1>1, <1>3 DEF Journal!AuthorSees, viewOf

\* A session somebody disturbed may overrun what it has not seen.
LEMMA JournalOverrun ==
  ASSUME NEW s \in Sessions, Alone(s), Lands(s), s \in disturbed
  PROVE  JournalStep
<1>1. Journal!Overrun(s)
  BY AuthorSees DEF Journal!Overrun, Lands, agreedOf, othersMoves
<1> QED BY <1>1 DEF JournalStep, Journal!JournalNext

LEMMA JournalTransacts ==
  ASSUME NEW s \in Sessions, Alone(s), Lands(s), disturbed' = disturbed,
         file.gen # 0, sealed[s].gen # file.gen,
         Continues(known[s].log, file.log), Continues(file.log, sealed[s].log)
  PROVE  JournalStep
<1>1. Version(file) # Journal!Nothing
  BY DEF Version, Journal!Nothing
<1>2. /\ Journal!Extends(viewOf[s].log, Version(file).log)
      /\ Journal!Extends(Version(file).log, Version(file)'.log)
      /\ Version(file)'.gen # Version(file).gen
  BY DEF Journal!Extends, Continues, viewOf, Version, Lands
<1>3. Journal!Transact(s)
  BY <1>1, <1>2, AuthorSees
     DEF Journal!Transact, Lands, agreedOf, viewOf, othersMoves
<1> QED BY <1>3 DEF JournalStep, Journal!JournalNext

LEMMA JournalOverrides ==
  ASSUME NEW s \in Sessions, Alone(s), Lands(s), disturbed' = disturbed,
         confirmed[s].gen = file.gen, sealed[s].gen # file.gen,
         Continues(known[s].log, sealed[s].log)
  PROVE  JournalStep
<1>1. /\ Journal!Extends(viewOf[s].log, Version(file)'.log)
      /\ Version(file)'.gen # Version(file).gen
      /\ agreedOf[s] = Version(file).gen
  BY DEF Journal!Extends, Continues, viewOf, agreedOf, Version, Lands
<1>2. Journal!Override(s)
  BY <1>1, AuthorSees DEF Journal!Override, Lands, agreedOf, viewOf, othersMoves
<1> QED BY <1>2 DEF JournalStep, Journal!JournalNext

\* Where the argument about the lock ends: the file a session nobody disturbed
\* replaces is its base, so it appends to it, or overrides what was agreed.
LEMMA LandStep ==
  ASSUME TypeOK, NoWriterBetween, UpdateInv, MemoryInv, AllBasisInv,
         NEW s \in Sessions, Alone(s), Lands(s),
         s \notin disturbed => disturbed' = disturbed
  PROVE  JournalStep
<1> USE SessionTypes
<1>1. /\ phase[s] \in Writing /\ phase[s] \in InWindow /\ phase[s] \in InFlight
      /\ phase[s] \in Building
  BY DEF Lands, Writing, InWindow, InFlight, Building
<1>2. Continues(known[s].log, sealed[s].log)
  BY <1>1 DEF MemoryInv, SessionInv, Descends
<1>3. /\ sealed[s].gen # 0 /\ file \in past
      /\ file.gen = sealed[s].gen => file = sealed[s]
      /\ file.gen = 0 => file = NoFile
  BY <1>1 DEF UpdateInv, GenerationsInv
<1>4. confirmed'[s] = confirmed[s]
  BY DEF Lands
<1>5. CASE s \in disturbed
  BY <1>5, JournalOverrun
<1>6. CASE s \notin disturbed /\ file.gen = sealed[s].gen
  <2>1. file = sealed[s] /\ file' = file
    BY <1>3, <1>6 DEF Lands
  <2>2. CASE Version(known[s])' = Version(known[s])
    <3>1. viewOf' = viewOf /\ agreedOf' = agreedOf
      BY <1>4, <2>2, ViewStays
    <3> QED BY <1>6, <2>1, <3>1, JournalStutters DEF Lands
  <2>3. CASE Version(known[s])' = Version(sealed[s])
    BY <1>2, <1>3, <1>4, <1>6, <2>1, <2>3, JournalRefreshes DEF Lands
  <2> QED BY <2>2, <2>3 DEF Lands
<1>7. CASE s \notin disturbed /\ file.gen # sealed[s].gen
  <2>1. file = base[s]
    BY <1>1, <1>7 DEF NoWriterBetween
  <2>2. CASE goal[s] = "tx"
    <3>1. file # NoFile /\ known[s] = KnownOf(file)
      BY <1>1, <2>1, <2>2
         DEF AllBasisInv, BasisInv, BasisKnown, MemoryInv, SessionInv, Restores
    <3>2. Continues(known[s].log, file.log)
      BY <3>1, ImageFields, ContinuesItself DEF Known
    <3>3. Continues(file.log, sealed[s].log)
      BY <1>2, <3>1, ImageFields
    <3> QED BY <1>3, <1>7, <3>1, <3>2, <3>3, JournalTransacts
  <2>3. CASE goal[s] = "overwrite"
    <3>1. confirmed[s].gen = file.gen
      BY <1>1, <2>1, <2>3 DEF UpdateInv, CallInv
    <3> QED BY <1>2, <1>7, <3>1, JournalOverrides
  <2>4. CASE goal[s] = "create"
    <3>1. confirmed[s].gen = 0 /\ file = NoFile
      BY <1>1, <2>1, <2>4
         DEF UpdateInv, CallInv, AllBasisInv, BasisInv, KnowsNothingYet
    <3> QED BY <1>2, <1>7, <3>1, ImageFields, JournalOverrides
  <2> QED BY <2>2, <2>3, <2>4 DEF Goals
<1> QED BY <1>5, <1>6, <1>7
-----------------------------------------------------------------------------
(* The other ends of calls.                                                *)

\* Nothing of what the journal sees moves.
Unseen(s) ==
  /\ UNCHANGED <<file, disturbed, othersMoves>>
  /\ confirmed'[s] = confirmed[s]
  /\ Version(known[s])' = Version(known[s])

LEMMA UnseenStep ==
  ASSUME NEW s \in Sessions, Alone(s), Unseen(s)
  PROVE  JournalStep
BY ViewStays, JournalStutters DEF Unseen

\* A call that is refused leaves what the session knew; one that creates a
\* vault knew nothing.
LEMMA RefuseKnows ==
  ASSUME TypeOK, NEW s \in Sessions, BasisInv(s), Refuse(s)
  PROVE  /\ Version(known[s])' = Version(known[s])
         /\ UNCHANGED tampers
<1> USE SessionTypes
<1>1. UNCHANGED tampers
  BY DEF Refuse, EndCall, DropLock
<1>2. CASE goal[s] = "create"
  <2>1. known'[s] = NoKnown /\ known[s].gen = 0 /\ known[s].log = <<>>
    BY <1>2 DEF Refuse, BasisInv, KnowsNothingYet
  <2> QED BY <1>1, <2>1, ImageFields DEF Version, NoKnown
<1>3. CASE goal[s] # "create"
  <2>1. known'[s] = known[s]
    BY <1>3 DEF Refuse
  <2> QED BY <1>1, <2>1 DEF Version
<1> QED BY <1>2, <1>3

\* A failed call goes back to the version it knew.
LEMMA BackOutKnows ==
  ASSUME TypeOK, MemoryInv, AllBasisInv, NEW s \in Sessions, phase[s] \in Building,
         \/ goal[s] = "tx" /\ RollBack(s)
         \/ goal[s] = "overwrite" /\ RestoreSession(s)
  PROVE  Version(known[s])' = Version(known[s])
<1> USE SessionTypes
<1>1. CASE goal[s] = "tx" /\ RollBack(s)
  <2>1. known'[s] = known[s]
    BY <1>1 DEF RollBack, MemoryInv, SessionInv, Restores
  <2> QED BY <2>1 DEF Version
<1>2. CASE goal[s] = "overwrite" /\ RestoreSession(s)
  <2>1. known'[s] = undo[s].known
    BY <1>2 DEF RestoreSession
  <2>2. known[s].gen = undo[s].known.gen /\ known[s].log = undo[s].known.log
    BY <1>2 DEF MemoryInv, SessionInv, Restores, AllBasisInv, BasisInv, BasisKnown
  <2> QED BY <2>1, <2>2 DEF Version
<1> QED BY <1>1, <1>2
-----------------------------------------------------------------------------
(* Every step of the vault is a step of the journal or none.               *)

LEMMA CallStepJournal ==
  ASSUME TypeOK, NoWriterBetween, UpdateInv, MemoryInv, AllBasisInv,
         NEW s \in Sessions, CallStep(s)
  PROVE  JournalStep
<1> USE SessionTypes DEF othersMoves
<1>1. Alone(s)
  BY CallStepAlone
<1>2. CASE Acquire(s) \/ CreateNewFile(s) \/ Commit(s) \/ WriteTemp(s) \/ WriteFails(s)
  <2>1. Unseen(s)
    BY <1>2 DEF Acquire, AcquireStep, OpenLockFile, TryLock, VerifyLock,
       CreateNewFile, Commit, WriteTemp, WriteFails, Unseen, Version, lockVars,
       diskVars, bodyVars, userVars, countVars, histVars
  <2> QED BY <1>1, <2>1, UnseenStep
<1>3. CASE CatchUp(s)
  <2>1. /\ UNCHANGED <<file, disturbed, confirmed, interference, tampers>>
        /\ file # NoFile
    BY <1>3 DEF CatchUp, lockVars, userVars, countVars, histVars
  <2>2. CASE file.gen = known[s].gen
    <3>1. known'[s] = known[s]
      BY <1>3, <2>2 DEF CatchUp
    <3> QED BY <1>1, <2>1, <3>1, UnseenStep DEF Unseen, Version
  <2>3. CASE file.gen # known[s].gen
    <3>1. known'[s] = KnownOf(file) /\ Continues(known[s].log, file.log)
      BY <1>3, <2>3 DEF CatchUp, Adoptable, ContinuesKnown
    <3>2. Version(known[s])' = Version(file)
      BY <3>1, ImageFields DEF Version
    <3>3. file.gen # 0
      BY <2>1 DEF UpdateInv, GenerationsInv
    <3> QED BY <1>1, <2>1, <3>1, <3>2, <3>3, JournalRefreshes
  <2> QED BY <2>2, <2>3
<1>4. CASE OverwriteExamine(s)
  <2>1. UNCHANGED <<file, disturbed, confirmed, interference, tampers>>
    BY <1>4 DEF OverwriteExamine, lockVars, userVars, histVars
  <2>2. known'[s].gen = known[s].gen /\ known'[s].log = known[s].log
    BY <1>4 DEF OverwriteExamine, Known
  <2> QED BY <1>1, <2>1, <2>2, UnseenStep DEF Unseen, Version
<1>5. CASE \/ CatchUpRefused(s) \/ OverwriteRefused(s) \/ CreateRefused(s)
           \/ LockFails(s) \/ ReadFails(s)
  <2>1. Refuse(s) /\ UNCHANGED <<file, disturbed, confirmed, interference>>
    BY <1>5 DEF CatchUpRefused, OverwriteRefused, CreateRefused, LockFails,
       ReadFails, diskVars, userVars, countVars, histVars
  <2>2. Version(known[s])' = Version(known[s]) /\ UNCHANGED tampers
    BY <2>1, RefuseKnows DEF AllBasisInv
  <2> QED BY <1>1, <2>1, <2>2, UnseenStep DEF Unseen
<1>6. CASE CreateFails(s)
  <2>1. /\ Refuse(s) /\ UNCHANGED <<file, confirmed, interference>>
        /\ disturbed' = disturbed \ {s}
    BY <1>6 DEF CreateFails, diskVars, userVars
  <2>2. Version(known[s])' = Version(known[s]) /\ UNCHANGED tampers
    BY <2>1, RefuseKnows DEF AllBasisInv
  <2> QED BY <1>1, <2>1, <2>2, JournalWithdraws
<1>7. CASE \/ Flush(s) \/ Edit(s) \/ InstallPassword(s)
           \/ (\E d \in DeviceIds : AddDeviceKey(s, d) \/ RemoveDeviceKey(s, d))
  <2>1. PICK body, own : Closure(s, body, own)
    BY <1>7 DEF Flush, Edit, InstallPassword, AddDeviceKey, RemoveDeviceKey
  <2>2. Unseen(s)
    BY <2>1 DEF Closure, Unseen, Version, lockVars, diskVars, histVars
  <2> QED BY <1>1, <2>2, UnseenStep
<1>8. CASE PasswordConflict(s) \/ ClosureFails(s)
  <2>1. /\ RollBack(s) /\ phase[s] = "closure" /\ phase[s] \in Building
        /\ UNCHANGED <<file, confirmed, interference, tampers>>
        /\ disturbed' = disturbed \ {s}
    BY <1>8 DEF PasswordConflict, ClosureFails, AbortClosure, EndCall, DropLock,
       diskVars, countVars, Building
  <2>2. goal[s] = "tx"
    BY <2>1 DEF MemoryInv, SessionInv, Restores
  <2>3. Version(known[s])' = Version(known[s])
    BY <2>1, <2>2, BackOutKnows
  <2> QED BY <1>1, <2>1, <2>3, JournalWithdraws
<1>9. CASE SealFails(s) \/ ReadBackFails(s)
  <2>1. /\ BackOut(s) /\ goal[s] # "create" /\ phase[s] \in Building
        /\ UNCHANGED <<file, confirmed, interference, tampers>>
        /\ disturbed' = disturbed \ {s}
    BY <1>9 DEF SealFails, ReadBackFails, BackOut, EndCall, DropLock, diskVars,
       userVars, Building, InFlight
  <2>2. goal[s] \in {"tx", "overwrite"}
    BY <2>1 DEF Goals
  <2>3. Version(known[s])' = Version(known[s])
    BY <2>1, <2>2, BackOutKnows DEF BackOut
  <2> QED BY <1>1, <2>1, <2>3, JournalWithdraws
<1>10. CASE Rename(s)
  <2>1. /\ phase[s] = "rename" /\ file' = sealed[s] /\ confirmed' = confirmed
        /\ UNCHANGED <<interference, tampers>> /\ known'[s] = KnownOf(sealed[s])
        /\ disturbed' = (disturbed \ {s}) \cup Overrun(s)
    BY <1>10 DEF Rename, Land, RecordWritten, EndCall, DropLock, userVars,
       countVars
  <2>2. Lands(s)
    BY <2>1, ImageFields DEF Lands, Version
  <2>3. s \notin disturbed => disturbed' = disturbed
    BY <2>1 DEF Overrun
  <2> QED BY <1>1, <2>2, <2>3, LandStep
<1>11. CASE RenameLosesReply(s)
  <2>1. /\ phase[s] = "rename" /\ file' = sealed[s] /\ known' = known
        /\ UNCHANGED <<confirmed, interference, tampers>>
        /\ disturbed' = disturbed \cup Overrun(s)
    BY <1>11 DEF RenameLosesReply, Land, lockVars, bodyVars, userVars
  <2>2. Lands(s)
    BY <2>1 DEF Lands, Version
  <2>3. s \notin disturbed => disturbed' = disturbed
    BY <2>1 DEF Overrun
  <2> QED BY <1>1, <2>2, <2>3, LandStep
<1>12. CASE ReadBackFinds(s)
  <2>1. /\ phase[s] \in InFlight /\ file.gen = sealed[s].gen
        /\ known'[s] = KnownOf(sealed[s])
        /\ UNCHANGED <<file, confirmed, interference, tampers>>
        /\ disturbed' = disturbed \ {s}
    BY <1>12 DEF ReadBackFinds, RecordWritten, EndCall, DropLock, diskVars,
       userVars, countVars, InFlight
  <2>2. file = sealed[s] /\ file.gen # 0
    BY <2>1 DEF UpdateInv, GenerationsInv
  <2>3. Continues(known[s].log, file.log)
    BY <2>1, <2>2 DEF MemoryInv, SessionInv, Descends
  <2>4. Version(known[s])' = Version(file)
    BY <2>1, <2>2, ImageFields DEF Version
  <2> QED BY <1>1, <2>1, <2>2, <2>3, <2>4, JournalRefreshes
<1> QED
  BY <1>2, <1>3, <1>4, <1>5, <1>6, <1>7, <1>8, <1>9, <1>10, <1>11, <1>12
     DEF CallStep

LEMMA CallerJournal ==
  ASSUME TypeOK, UpdateInv, AllBasisInv, NEW s \in Sessions,
         CallerStep(s) \/ LockBusy(s) \/ Crash(s)
  PROVE  JournalStep
<1> USE SessionTypes DEF othersMoves
<1>1. Alone(s)
  BY CallerStepAlone
<1>2. CASE Open(s)
  <2>1. /\ UNCHANGED <<file, disturbed, confirmed, interference, tampers>>
        /\ known'[s] = KnownOf(file) /\ phase[s] = "closed"
    BY <1>2 DEF Open, lockVars, diskVars, userVars, countVars, histVars
  <2>2. viewOf[s] = Journal!Nothing
    BY <2>1 DEF viewOf, Version, Journal!Nothing, AllBasisInv, BasisInv,
       KnowsNothingYet
  <2>3. Version(known[s])' = Version(file)
    BY <2>1, ImageFields DEF Version
  <2>4. viewOf' = [viewOf EXCEPT ![s] = Version(file)] /\ agreedOf' = agreedOf
    BY <1>1, <2>1, <2>3, ViewMoves, ViewStays
  <2>5. Journal!Attach(s)
    BY <2>1, <2>2, <2>4 DEF Journal!Attach, viewOf, agreedOf
  <2> QED BY <2>5 DEF JournalStep, Journal!JournalNext
<1>3. CASE Create(s)
  <2>1. /\ UNCHANGED <<file, disturbed, confirmed, interference, tampers>>
        /\ known'[s] = [NoKnown EXCEPT !.ver = 1]
        /\ phase[s] = "closed"
    BY <1>3 DEF Create, WantLock, diskVars, userVars, histVars
  <2>2. known'[s].gen = 0 /\ known'[s].log = <<>>
    BY <2>1, ImageFields DEF NoKnown, KnownOf
  <2>3. known[s].gen = 0 /\ known[s].log = <<>>
    BY <2>1 DEF AllBasisInv, BasisInv, KnowsNothingYet
  <2> QED BY <1>1, <2>1, <2>2, <2>3, UnseenStep DEF Unseen, Version
<1>4. CASE Close(s) \/ Crash(s)
  <2>1. /\ UNCHANGED <<file, interference, tampers>>
        /\ known'[s] = NoKnown /\ confirmed'[s] = NoConflict
        /\ disturbed' = disturbed \ {s}
    BY <1>4 DEF Close, Crash, Forget, DropLock, lockVars, diskVars, countVars
  <2> QED BY <1>1, <2>1, JournalDetaches
<1>5. CASE Refresh(s)
  <2>1. /\ UNCHANGED <<file, disturbed, confirmed, interference, tampers>>
        /\ file # NoFile
    BY <1>5 DEF Refresh, lockVars, diskVars, userVars, countVars, histVars
  <2>2. CASE file.gen = known[s].gen
    <3>1. known'[s] = known[s]
      BY <1>5, <2>2 DEF Refresh
    <3> QED BY <1>1, <2>1, <3>1, UnseenStep DEF Unseen, Version
  <2>3. CASE file.gen # known[s].gen
    <3>1. known'[s] = KnownOf(file) /\ Continues(known[s].log, file.log)
      BY <1>5, <2>3 DEF Refresh, Adopt, Adoptable, ContinuesKnown
    <3>2. Version(known[s])' = Version(file)
      BY <3>1, ImageFields DEF Version
    <3>3. file.gen # 0
      BY <2>1 DEF UpdateInv, GenerationsInv
    <3> QED BY <1>1, <2>1, <3>1, <3>2, <3>3, JournalRefreshes
  <2> QED BY <2>2, <2>3
<1>6. CASE ExamineConflict(s)
  <2>1. /\ UNCHANGED <<file, disturbed, known, interference, tampers>>
        /\ confirmed'[s] = ConflictWith(s, file)
        /\ ConflictWith(s, file) # NoConflict
    BY <1>6 DEF ExamineConflict, lockVars, diskVars, bodyVars, countVars, histVars
  <2>2. (confirmed[s].gen)' = file.gen
    <3>1. CASE file = NoFile
      BY <2>1, <3>1, ImageFields DEF ConflictWith
    <3>2. CASE file # NoFile
      BY <2>1, <3>2 DEF ConflictWith
    <3> QED BY <3>1, <3>2
  <2>3. viewOf' = viewOf /\ agreedOf' = [agreedOf EXCEPT ![s] = Version(file).gen]
    BY <1>1, <2>1, <2>2, ViewMoves DEF Version, viewOf
  <2>4. Journal!Agree(s)
    BY <2>1, <2>3 DEF Journal!Agree, viewOf, agreedOf
  <2> QED BY <2>4 DEF JournalStep, Journal!JournalNext
<1>7. CASE \/ QueueAudit(s) \/ PreparePassword(s) \/ QueueInside(s)
           \/ StartTransact(s) \/ StartOverwrite(s)
  <2>1. Unseen(s)
    BY <1>7 DEF QueueAudit, PreparePassword, QueueInside, StartTransact,
       StartOverwrite, StartCall, WantLock, Unseen, Version, lockVars, diskVars,
       bodyVars, userVars, countVars, histVars
  <2> QED BY <1>1, <2>1, UnseenStep
<1>8. CASE LockBusy(s)
  <2>1. Refuse(s) /\ UNCHANGED <<file, disturbed, confirmed, interference>>
    BY <1>8 DEF LockBusy, diskVars, userVars, countVars, histVars
  <2>2. Version(known[s])' = Version(known[s]) /\ UNCHANGED tampers
    BY <2>1, RefuseKnows DEF AllBasisInv
  <2> QED BY <1>1, <2>1, <2>2, UnseenStep DEF Unseen
<1> QED BY <1>2, <1>3, <1>4, <1>5, <1>6, <1>7, <1>8 DEF CallerStep

LEMMA IntruderJournal ==
  ASSUME TypeOK, RestoreOlderCopy \/ ReplaceVault \/ LockFileRemoved
  PROVE  JournalStep
<1>1. interference \in Nat /\ tampers \in Nat
  BY DEF TypeOK, LockTypeOK, CountTypeOK
<1>2. /\ UNCHANGED <<known, confirmed>>
      /\ \/ interference' = interference + 1 /\ tampers' = tampers
         \/ interference' = interference /\ tampers' = tampers + 1
  BY DEF RestoreOlderCopy, ReplaceVault, Interfere, LockFileRemoved,
     RemoveLockFile, lockVars, bodyVars, userVars, countVars
<1>3. interference' + tampers' = interference + tampers + 1
  BY <1>1, <1>2
<1> QED BY <1>2, <1>3, JournalIntruded

(* The vault file implements the journal: whatever locks, temporaries,     *)
(* rollbacks and faults do, a transaction is one append to what its author *)
(* had caught up with, an overwrite discards only what its user agreed to, *)
(* and nobody takes up a file that went backwards (vault/mod.rs, transact, *)
(* overwrite_unmerged, refresh_if_changed; vault/lock.rs).                 *)
THEOREM VaultImplementsJournal == Spec => ImplementsJournal
<1>1. Init => Journal!JournalInit
  <2>1. NoKnown.gen = 0 /\ NoKnown.log = <<>> /\ NoConflict.gen = 0
    BY ImageFields DEF NoKnown, NoConflict
  <2> QED
    BY <2>1 DEF Init, LockInit, Journal!JournalInit, Journal!Nothing, Version
<1>2. TypeOK /\ NoWriterBetween /\ UpdateInv /\ MemoryInv /\ AllBasisInv /\ [Next]_vars
        => [Journal!JournalNext]_(Journal!journalVars)
  <2> SUFFICES ASSUME TypeOK, NoWriterBetween, UpdateInv, MemoryInv, AllBasisInv,
                      [Next]_vars
               PROVE  JournalStep
    BY DEF JournalStep
  <2>1. CASE UNCHANGED vars
    <3>1. UNCHANGED <<file, known, confirmed, disturbed, interference, tampers>>
      BY <2>1 DEF vars, lockVars, diskVars, bodyVars, userVars, countVars, histVars
    <3> QED BY <3>1, JournalStutters DEF viewOf, agreedOf, othersMoves
  <2> QED BY <2>1, CallStepJournal, CallerJournal, IntruderJournal DEF Next
<1> QED BY <1>1, <1>2, TypeCorrectness, NoWriterComesBetween, UpdateInvariant,
           MemoryInvariant, BasisAlways, PTL
        DEF Spec, ImplementsJournal, Journal!JournalSpec
-----------------------------------------------------------------------------
(* No entry is chained twice, as long as no other program replaces the     *)
(* vault file or removes its lock file.                                    *)

Calm == tampers = 0 /\ interference = 0

Once(log) == \A i, j \in 1..Len(log) : log[i] = log[j] => i = j

\* A session holds no entry twice: what it would chain again after a failure is not
\* in what it would go back to.
HeldOnce(s) ==
  /\ Once(mem[s].log) /\ Once(pending[s]) /\ Once(carried[s])
  /\ Elems(mem[s].log) \cap Elems(pending[s]) = {}
  /\ Elems(known[s].log) \cap Elems(carried[s]) = {}

\* The entries a session has: they were given out.
Held(s) == Elems(mem[s].log) \cup Elems(pending[s]) \cup Elems(carried[s])

\* The entries a session may yet put on disk.
Unwritten(s) ==
  (Elems(mem[s].log) \ Elems(known[s].log)) \cup Elems(pending[s]) \cup Elems(carried[s])

HoldsLock(s) == phase[s] \in Building => lk[s] = "held"

\* A session that is closed, or not there yet, holds nothing.
HoldsNothing(s) ==
  phase[s] = "closed" \/ goal[s] = "create" =>
    /\ mem[s].log = <<>> /\ known[s].log = <<>> /\ pending[s] = <<>>
    /\ base[s] = NoFile

\* Any other has seen a file, and nobody has a conflict to override.
SawFile(s) ==
  /\ phase[s] # "closed" /\ goal[s] # "create" => known[s].gen # 0
  /\ confirmed[s] = NoConflict /\ goal[s] # "overwrite"

\* The file is what the write under way is built on, until that has landed.
OnBase(s) ==
  phase[s] \in Building =>
    /\ known[s].log = base[s].log
    /\ goal[s] = "tx" => mem[s].vid = base[s].vid
    /\ file = base[s] \/ (phase[s] = "readback" /\ file = sealed[s])

\* Of what is pending, the file has only what an unconfirmed write put there.
OnlyLanded(s) ==
  phase[s] \notin Building =>
    \A i \in 1..Len(pending[s]) : pending[s][i] \in Elems(file.log) =>
      Continues(unconf[s].log, file.log) /\ i <= unconf[s].drafts

CalmSession(s) ==
  /\ HeldOnce(s) /\ Held(s) \subseteq 1..entries
  /\ HoldsLock(s) /\ HoldsNothing(s) /\ SawFile(s)
  /\ OnBase(s) /\ OnlyLanded(s)

\* The file continues every image there was.
FileGrows ==
  \A f \in past \ {NoFile} :
    /\ file # NoFile /\ file.vid = f.vid /\ f.ver <= file.ver
    /\ Continues(f.log, file.log)

OnceInv ==
  Calm =>
    /\ \A s \in Sessions : CalmSession(s)
    /\ \A s, t \in Sessions : s # t => Unwritten(s) \cap Unwritten(t) = {}
    /\ FileGrows
    /\ Once(file.log) /\ Elems(file.log) \subseteq 1..entries
-----------------------------------------------------------------------------
(* Logs without repetition.                                                *)

LEMMA OnceEmpty == Once(<<>>) /\ Elems(<<>>) = {}
BY EmptySeq, ElemsEmpty DEF Once

LEMMA OnceConcat ==
  ASSUME NEW p \in Seq(Entry), NEW q \in Seq(Entry),
         Once(p), Once(q), Elems(p) \cap Elems(q) = {}
  PROVE  Once(p \o q)
<1>1. /\ Len(p \o q) = Len(p) + Len(q) /\ Len(p) \in Nat /\ Len(q) \in Nat
      /\ \A i \in 1..Len(p) : (p \o q)[i] = p[i]
      /\ \A i \in (Len(p) + 1)..(Len(p) + Len(q)) : (p \o q)[i] = q[i - Len(p)]
  BY ConcatProperties, LenProperties
<1>2. ASSUME NEW i \in 1..Len(p \o q)
      PROVE  \/ i \in 1..Len(p) /\ (p \o q)[i] = p[i]
             \/ i - Len(p) \in 1..Len(q) /\ (p \o q)[i] = q[i - Len(p)]
  BY <1>1
<1>3. \A i \in 1..Len(p), j \in 1..Len(q) : p[i] # q[j]
  BY DEF Elems
<1> SUFFICES ASSUME NEW i \in 1..Len(p \o q), NEW j \in 1..Len(p \o q),
                    (p \o q)[i] = (p \o q)[j]
             PROVE  i = j
  BY DEF Once
<1>4. CASE i \in 1..Len(p) /\ (p \o q)[i] = p[i]
  <2>1. j \in 1..Len(p) /\ (p \o q)[j] = p[j]
    BY <1>2, <1>3, <1>4
  <2> QED BY <1>4, <2>1 DEF Once
<1>5. CASE i - Len(p) \in 1..Len(q) /\ (p \o q)[i] = q[i - Len(p)]
  <2>1. j - Len(p) \in 1..Len(q) /\ (p \o q)[j] = q[j - Len(p)]
    BY <1>2, <1>3, <1>5
  <2>2. i - Len(p) = j - Len(p)
    BY <1>5, <2>1 DEF Once
  <2> QED BY <1>1, <2>2
<1> QED BY <1>2, <1>4, <1>5

LEMMA OnceAppend ==
  ASSUME NEW q \in Seq(Entry), NEW e \in Entry, Once(q), e \notin Elems(q)
  PROVE  Once(Append(q, e))
<1>1. /\ Len(Append(q, e)) = Len(q) + 1 /\ Len(q) \in Nat
      /\ \A i \in 1..Len(q) : Append(q, e)[i] = q[i]
      /\ Append(q, e)[Len(q) + 1] = e
  BY AppendProperties, LenProperties
<1>2. \A i \in 1..Len(q) : q[i] # e
  BY DEF Elems
<1>3. \A i \in 1..(Len(q) + 1) : i \in 1..Len(q) \/ i = Len(q) + 1
  BY <1>1
<1> QED BY <1>1, <1>2, <1>3 DEF Once

\* What a log without repetition begins with has none.
LEMMA OncePrefix ==
  ASSUME NEW p \in Seq(Entry), NEW q \in Seq(Entry), Continues(p, q), Once(q)
  PROVE  Once(p)
<1>1. Len(p) \in Nat /\ Len(q) \in Nat
  BY LenProperties
<1>2. \A i \in 1..Len(p) : i \in 1..Len(q) /\ q[i] = p[i]
  BY <1>1 DEF Continues
<1> QED BY <1>2 DEF Once

LEMMA ContinuesThrough ==
  ASSUME NEW p \in Seq(Entry), NEW q \in Seq(Entry), NEW r \in Seq(Entry),
         Continues(p, q), Continues(q, r)
  PROVE  Continues(p, r)
<1>1. Len(p) \in Nat /\ Len(q) \in Nat /\ Len(r) \in Nat
  BY LenProperties
<1>2. \A i \in 1..Len(p) : i \in 1..Len(q)
  BY <1>1 DEF Continues
<1> QED BY <1>1, <1>2 DEF Continues

LEMMA ContinuesEmpty ==
  ASSUME NEW q \in Seq(Entry)
  PROVE  Continues(<<>>, q)
BY EmptySeq, LenProperties DEF Continues

\* Settling keeps what the file does not have, and nothing else.
LEMMA SettledOnce ==
  ASSUME TypeOK, NEW s \in Sessions, mem[s].log = known[s].log, NEW f,
         Once(pending[s]),
         \A i \in 1..Len(pending[s]) : pending[s][i] \in Elems(f.log) =>
           Continues(unconf[s].log, f.log) /\ i <= unconf[s].drafts
  PROVE  \/ Settled(s, f) = pending[s] /\ Elems(pending[s]) \cap Elems(f.log) = {}
         \/ /\ Once(Settled(s, f))
            /\ Elems(Settled(s, f)) \subseteq Elems(pending[s])
            /\ Elems(Settled(s, f)) \cap Elems(f.log) = {}
<1> DEFINE q == pending[s]
           d == unconf[s].drafts
<1>1. q \in Seq(Entry) /\ d \in Nat /\ Len(q) \in Nat
  BY QueueParts, LenProperties
<1>2. Requeued(s) = q
  BY RequeuedIsPending
<1>3. CASE Continues(unconf[s].log, f.log)
  <2> DEFINE rest == SubSeq(q, d + 1, Len(q))
  <2>1. Settled(s, f) = rest
    BY <1>2, <1>3 DEF Settled
  <2>2. \A j \in (d + 1)..Len(q) : q[j] \in Entry
    BY <1>1, ElementOfSeq
  <2>3. Len(rest) = IF d + 1 <= Len(q) THEN Len(q) - (d + 1) + 1 ELSE 0
    <3>1. d + 1 \in Int /\ Len(q) \in Int
      BY <1>1
    <3> QED BY <2>2, <3>1, SubSeqProperties
  <2>4. ASSUME NEW j \in 1..Len(rest)
        PROVE  d + j \in 1..Len(q) /\ ~(d + j <= d) /\ rest[j] = q[d + j]
    <3>1. /\ d + 1 \in Int /\ Len(q) \in Int
          /\ j \in 1..(Len(q) - (d + 1) + 1) /\ (d + 1) + j - 1 = d + j
          /\ d + j \in 1..Len(q) /\ ~(d + j <= d)
      <4> HIDE DEF rest, q, d
      <4> QED BY <1>1, <2>3
    <3>2. rest[j] = q[(d + 1) + j - 1]
      BY <2>2, <3>1, SubSeqProperties
    <3> QED BY <3>1, <3>2
  <2> HIDE DEF rest
  <2>5. Once(rest)
    <3> SUFFICES ASSUME NEW j \in 1..Len(rest), NEW k \in 1..Len(rest),
                        rest[j] = rest[k]
                 PROVE  j = k
      BY DEF Once
    <3>1. d + j = d + k
      BY <2>4 DEF Once
    <3> QED BY <1>1, <3>1
  <2>6. Elems(rest) \subseteq Elems(q)
    BY <2>4 DEF Elems
  <2>7. Elems(rest) \cap Elems(f.log) = {}
    <3> SUFFICES ASSUME NEW j \in 1..Len(rest), rest[j] \in Elems(f.log)
                 PROVE  FALSE
      BY DEF Elems
    <3> QED BY <2>4
  <2> QED BY <2>1, <2>5, <2>6, <2>7
<1>4. CASE ~Continues(unconf[s].log, f.log)
  <2>1. Settled(s, f) = q
    BY <1>2, <1>4 DEF Settled
  <2>2. Elems(q) \cap Elems(f.log) = {}
    <3> SUFFICES ASSUME NEW i \in 1..Len(q), q[i] \in Elems(f.log) PROVE FALSE
      BY DEF Elems
    <3> QED BY <1>4
  <2> QED BY <2>1, <2>2
<1> QED BY <1>3, <1>4
-----------------------------------------------------------------------------
(* What a step leaves a session with.                                      *)

\* A step of s leaves the locks of the others and the intruders' counts alone.
LockAlone(s) ==
  /\ \A t \in Sessions \ {s} : lk'[t] = lk[t]
  /\ tampers' = tampers /\ interference' = interference
  /\ entries <= entries'

LEMMA CallStepLockAlone ==
  ASSUME TypeOK, MemoryInv, NEW s \in Sessions, CallStep(s)
  PROVE  LockAlone(s)
<1>1. lk \in [Sessions -> LockStates] /\ entries \in Nat
  BY DEF TypeOK, LockTypeOK, CountTypeOK
<1> USE <1>1 DEF LockAlone, lockVars, countVars
<1>2. CASE Acquire(s)
  BY <1>2 DEF Acquire, AcquireStep, OpenLockFile, TryLock, VerifyLock
<1>3. CASE CatchUp(s) \/ OverwriteExamine(s) \/ CreateNewFile(s)
  BY <1>3 DEF CatchUp, OverwriteExamine, CreateNewFile
<1>4. CASE \/ CatchUpRefused(s) \/ OverwriteRefused(s) \/ CreateRefused(s)
           \/ CreateFails(s) \/ LockFails(s) \/ ReadFails(s)
  <2>1. Refuse(s) /\ UNCHANGED <<entries, interference>>
    BY <1>4 DEF CatchUpRefused, OverwriteRefused, CreateRefused, CreateFails,
       LockFails, ReadFails
  <2> QED BY <2>1 DEF Refuse, EndCall, DropLock
<1>5. CASE \/ Flush(s) \/ Edit(s) \/ InstallPassword(s)
           \/ (\E d \in DeviceIds : AddDeviceKey(s, d) \/ RemoveDeviceKey(s, d))
  <2>1. PICK body \in Body, own \in {0, 1} : Closure(s, body, own)
    BY <1>5, ClosureEdits
  <2> QED BY <2>1 DEF Closure
<1>6. CASE PasswordConflict(s) \/ ClosureFails(s)
  BY <1>6 DEF PasswordConflict, ClosureFails, AbortClosure, EndCall, DropLock
<1>7. CASE Commit(s) \/ WriteTemp(s) \/ WriteFails(s) \/ RenameLosesReply(s)
  <2>1. UNCHANGED <<lk, tampers, interference, entries>>
    BY Zenon, <1>7 DEF Commit, WriteTemp, WriteFails, RenameLosesReply
  <2> QED BY <2>1
<1>8. CASE SealFails(s) \/ ReadBackFails(s)
  BY <1>8 DEF SealFails, ReadBackFails, BackOut, EndCall, DropLock
<1>9. CASE Rename(s) \/ ReadBackFinds(s)
  BY <1>9 DEF Rename, ReadBackFinds, RecordWritten, EndCall, DropLock
<1> QED
  BY <1>2, <1>3, <1>4, <1>5, <1>6, <1>7, <1>8, <1>9 DEF CallStep

LEMMA CallerLockAlone ==
  ASSUME TypeOK, NEW s \in Sessions, CallerStep(s) \/ LockBusy(s) \/ Crash(s)
  PROVE  LockAlone(s)
<1>1. lk \in [Sessions -> LockStates] /\ entries \in Nat
  BY DEF TypeOK, LockTypeOK, CountTypeOK
<1> USE <1>1 DEF LockAlone, lockVars, countVars
<1>2. CASE \/ Open(s) \/ Close(s) \/ Refresh(s) \/ ExamineConflict(s)
           \/ PreparePassword(s)
  BY <1>2 DEF Open, Close, Refresh, ExamineConflict, PreparePassword
<1>3. CASE QueueAudit(s) \/ QueueInside(s)
  BY <1>3 DEF QueueAudit, QueueInside
<1>4. CASE Create(s) \/ StartTransact(s) \/ StartOverwrite(s)
  BY <1>4 DEF Create, StartTransact, StartOverwrite, StartCall, WantLock
<1>5. CASE LockBusy(s) \/ Crash(s)
  BY <1>5 DEF LockBusy, Refuse, EndCall, Crash, DropLock
<1> QED BY <1>2, <1>3, <1>4, <1>5 DEF CallerStep

\* After a step of s, what it may yet write it had, or was given out just now.
NothingTaken(s) ==
  Unwritten(s)' \subseteq Unwritten(s) \cup {e \in Nat : entries < e}

\* It has what it had.
LEMMA HeldSame ==
  ASSUME NEW s \in Sessions, HeldOnce(s), mem'[s] = mem[s],
         known'[s] = known[s], pending'[s] = pending[s], carried'[s] = carried[s]
  PROVE  HeldOnce(s)' /\ Unwritten(s)' = Unwritten(s) /\ Held(s)' = Held(s)
<1>1. HeldOnce(s)'
  <2>1. Once(mem[s].log)' /\ Once(pending[s])' /\ Once(carried[s])'
    BY DEF HeldOnce, Once
  <2>2. /\ Elems(mem[s].log)' = Elems(mem[s].log)
        /\ Elems(pending[s])' = Elems(pending[s])
        /\ Elems(carried[s])' = Elems(carried[s])
        /\ Elems(known[s].log)' = Elems(known[s].log)
    BY Zenon DEF Elems
  <2> QED BY <2>1, <2>2 DEF HeldOnce
<1>2. Unwritten(s)' = Unwritten(s)
  BY Zenon DEF Unwritten, Elems
<1>3. Held(s)' = Held(s)
  BY Zenon DEF Held, Elems
<1> QED BY <1>1, <1>2, <1>3

\* Another session's step leaves a session with what it had.
LEMMA CalmOther ==
  ASSUME TypeOK, TypeOK', NEW s \in Sessions, NEW t \in Sessions \ {s},
         Alone(s), QueueAlone(s), LockAlone(s), UNCHANGED file, CalmSession(t)
  PROVE  CalmSession(t)' /\ Unwritten(t)' = Unwritten(t)
<1>1. /\ phase'[t] = phase[t] /\ goal'[t] = goal[t] /\ mem'[t] = mem[t]
      /\ known'[t] = known[t] /\ base'[t] = base[t] /\ sealed'[t] = sealed[t]
      /\ confirmed'[t] = confirmed[t] /\ pending'[t] = pending[t]
      /\ carried'[t] = carried[t] /\ unconf'[t] = unconf[t] /\ lk'[t] = lk[t]
  BY DEF Alone, QueueAlone, LockAlone
<1>2. 1..entries \subseteq 1..entries'
  BY DEF LockAlone, TypeOK, CountTypeOK
<1>3. HeldOnce(t)' /\ Unwritten(t)' = Unwritten(t) /\ Held(t)' = Held(t)
  BY HeldSame, <1>1 DEF CalmSession
<1>4. HoldsLock(t)' /\ HoldsNothing(t)' /\ SawFile(t)' /\ OnBase(t)'
  BY <1>1 DEF CalmSession, HoldsLock, HoldsNothing, SawFile, OnBase
<1>5. OnlyLanded(t)'
  BY <1>1 DEF CalmSession, OnlyLanded, Elems, Continues
<1> QED BY <1>2, <1>3, <1>4, <1>5 DEF CalmSession

LEMMA OnceStep ==
  ASSUME TypeOK, TypeOK', Calm, OnceInv, NEW s \in Sessions,
         Alone(s), QueueAlone(s), LockAlone(s), UNCHANGED <<file, past>>,
         CalmSession(s)', NothingTaken(s)
  PROVE  OnceInv'
<1>1. \A t \in Sessions \ {s} : CalmSession(t)' /\ Unwritten(t)' = Unwritten(t)
  BY CalmOther DEF OnceInv
<1>2. 1..entries \subseteq 1..entries'
  BY DEF LockAlone, TypeOK, CountTypeOK
<1>3. \A t \in Sessions : Unwritten(t) \subseteq 1..entries
  <2> TAKE t \in Sessions
  <2>1. Held(t) \subseteq 1..entries
    BY DEF OnceInv, CalmSession
  <2> QED BY <2>1 DEF Unwritten, Held
<1>4. \A t \in Sessions \ {s} : Unwritten(s)' \cap Unwritten(t)' = {}
  <2> TAKE t \in Sessions \ {s}
  <2>1. Unwritten(s) \cap Unwritten(t) = {}
    BY DEF OnceInv
  <2>2. \A e \in 1..entries : ~(entries < e)
    BY DEF TypeOK, CountTypeOK
  <2> QED BY <1>1, <1>3, <2>1, <2>2 DEF NothingTaken
<1>5. \A t, u \in Sessions : t # u => Unwritten(t)' \cap Unwritten(u)' = {}
  BY <1>1, <1>4 DEF OnceInv
<1>6. FileGrows' /\ Once(file.log)' /\ Elems(file.log)' \subseteq 1..entries
  BY DEF OnceInv, FileGrows, Once, Elems, Continues
<1>7. \A t \in Sessions : CalmSession(t)'
  BY <1>1
<1> QED BY <1>2, <1>5, <1>6, <1>7 DEF OnceInv

\* It is gone, or was never there.
LEMMA GoneOnce ==
  ASSUME TypeOK, TypeOK', NEW s \in Sessions, phase'[s] = "closed", goal'[s] = "tx",
         mem'[s].log = <<>>, known'[s].log = <<>>, pending'[s] = <<>>,
         carried'[s] = <<>>, base'[s] = NoFile, confirmed'[s] = NoConflict
  PROVE  CalmSession(s)' /\ NothingTaken(s)
<1>1. HeldOnce(s)' /\ Held(s)' = {} /\ Unwritten(s)' = {}
  BY OnceEmpty DEF HeldOnce, Held, Unwritten
<1>2. HoldsLock(s)' /\ HoldsNothing(s)' /\ SawFile(s)' /\ OnBase(s)'
  BY DEF HoldsLock, HoldsNothing, SawFile, OnBase, Building, InFlight
<1>3. OnlyLanded(s)'
  BY EmptySeq DEF OnlyLanded
<1> QED BY <1>1, <1>2, <1>3 DEF CalmSession, NothingTaken

\* It is between calls, with a file it saw.
LEMMA RestedOnce ==
  ASSUME TypeOK, TypeOK', NEW s \in Sessions, phase'[s] = "idle", goal'[s] = "tx",
         mem'[s].log = known'[s].log, Once(mem'[s].log), Once(pending'[s]),
         Elems(mem'[s].log) \cap Elems(pending'[s]) = {},
         Elems(mem'[s].log) \cup Elems(pending'[s]) \subseteq 1..entries',
         Elems(pending'[s]) \subseteq Unwritten(s) \cup {e \in Nat : entries < e},
         carried'[s] = <<>>, known'[s].gen # 0, confirmed'[s] = NoConflict,
         OnlyLanded(s)'
  PROVE  CalmSession(s)' /\ NothingTaken(s)
<1>1. HeldOnce(s)' /\ Held(s)' \subseteq 1..entries'
  BY OnceEmpty DEF HeldOnce, Held, Once
<1>2. Unwritten(s)' = Elems(pending'[s])
  BY OnceEmpty DEF Unwritten, Elems
<1>3. HoldsLock(s)' /\ HoldsNothing(s)' /\ SawFile(s)' /\ OnBase(s)'
  BY DEF HoldsLock, HoldsNothing, SawFile, OnBase, Building, InFlight
<1> QED BY <1>1, <1>2, <1>3 DEF CalmSession, NothingTaken

\* It waits for the lock, or has given up waiting, with all it had.
LEMMA WaitingOnce ==
  ASSUME TypeOK, TypeOK', NEW s \in Sessions, CalmSession(s),
         phase[s] \in {"idle", "acquire"}, phase'[s] \in {"idle", "acquire"},
         goal'[s] = goal[s] \/ (goal[s] # "create" /\ goal'[s] = "tx"),
         mem'[s] = mem[s], known'[s] = known[s], pending'[s] = pending[s],
         carried'[s] = carried[s], unconf'[s] = unconf[s],
         confirmed'[s] = confirmed[s], base'[s] = base[s] \/ goal[s] # "create",
         UNCHANGED <<file, entries>>
  PROVE  CalmSession(s)' /\ NothingTaken(s)
<1>1. /\ HeldOnce(s)' /\ Unwritten(s)' = Unwritten(s) /\ Held(s)' = Held(s)
      /\ 1..entries = 1..entries'
  BY HeldSame DEF CalmSession
<1>2. HoldsLock(s)' /\ HoldsNothing(s)' /\ SawFile(s)' /\ OnBase(s)'
  BY DEF CalmSession, HoldsLock, HoldsNothing, SawFile, OnBase, Building, InFlight
<1>3. OnlyLanded(s)'
  BY DEF CalmSession, OnlyLanded, Elems, Continues, Building, InFlight
<1> QED BY <1>1, <1>2, <1>3 DEF CalmSession, NothingTaken
-----------------------------------------------------------------------------
(* The beginnings of calls, the closure and the commit.                    *)

\* What holds before a step that disturbs nobody.
OnceContext ==
  /\ TypeOK /\ TypeOK' /\ LockInv /\ Untampered /\ UpdateInv /\ MemoryInv
  /\ DraftInv /\ Calm /\ OnceInv

LEMMA NoConflictWith ==
  ASSUME NEW s \in Sessions, NEW f, f # NoFile, Adoptable(s, f)
  PROVE  ConflictWith(s, f) = NoConflict
BY DEF ConflictWith, Adoptable, Opens, ContinuesKnown, Continues, NoConflict

\* Between calls, and until a call has read the file, that continues what the
\* session knows, and there is no conflict.
LEMMA NothingToOverride ==
  ASSUME OnceContext, NEW s \in Sessions,
         phase[s] = "idle" \/ (phase[s] = "acquire" /\ goal[s] # "create")
  PROVE  /\ file # NoFile /\ file.gen # 0
         /\ Adoptable(s, file) /\ ConflictWith(s, file) = NoConflict
         /\ file.gen = known[s].gen => /\ mem[s] = BodyOf(file)
                                       /\ known[s] = KnownOf(file)
         /\ mem[s].log = known[s].log /\ carried[s] = <<>> /\ goal[s] = "tx"
         /\ \A i \in 1..Len(pending[s]) : pending[s][i] \in Elems(file.log) =>
              Continues(unconf[s].log, file.log) /\ i <= unconf[s].drafts
<1> USE SessionTypes DEF OnceContext
<1>1. CalmSession(s) /\ FileGrows
  BY DEF OnceInv
<1>2. goal[s] = "tx" /\ phase[s] # "closed" /\ phase[s] \notin Building
  BY <1>1 DEF DraftInv, QueueInv, NothingQueuedYet, CalmSession, SawFile, Goals,
     Building, InFlight
<1>3. carried[s] = <<>> /\ mem[s].log = known[s].log
  BY <1>2, NothingUnwritten DEF DraftInv, QueueInv, CarriedInLog
<1>4. PICK f \in past : mem[s] = BodyOf(f) /\ known[s] = KnownOf(f)
  BY DEF MemoryInv, SessionInv, Settles, Committed
<1>5. known[s].gen # 0
  BY <1>1, <1>2 DEF CalmSession, SawFile
<1>6. f # NoFile
  BY <1>4, <1>5, ImageFields
<1>7. /\ file # NoFile /\ file.vid = f.vid /\ f.ver <= file.ver
      /\ Continues(f.log, file.log)
  BY <1>1, <1>4, <1>6 DEF FileGrows
<1>8. file.gen # 0 /\ (file.gen = f.gen => f = file)
  BY <1>4, <1>7 DEF UpdateInv, GenerationsInv
<1>9. Adoptable(s, file)
  <2>1. mem[s].vid = f.vid /\ known[s].ver = f.ver /\ known[s].log = f.log
    BY <1>4, ImageFields
  <2>2. f.ver \in Nat /\ file.ver \in Nat
    BY <1>4 DEF TypeOK, DiskTypeOK, CountTypeOK, Image
  <2> QED BY <1>7, <2>1, <2>2 DEF Adoptable, Opens, ContinuesKnown
<1>10. ConflictWith(s, file) = NoConflict
  BY <1>7, <1>9, NoConflictWith
<1>11. file.gen = known[s].gen => mem[s] = BodyOf(file) /\ known[s] = KnownOf(file)
  BY <1>4, <1>8, ImageFields
<1>12. \A i \in 1..Len(pending[s]) : pending[s][i] \in Elems(file.log) =>
         Continues(unconf[s].log, file.log) /\ i <= unconf[s].drafts
  BY <1>1, <1>2 DEF CalmSession, OnlyLanded
<1> QED BY <1>2, <1>3, <1>7, <1>8, <1>9, <1>10, <1>11, <1>12

\* What the session chains, or still has queued, after it met the file.
LEMMA QueueMetFile ==
  ASSUME OnceContext, NEW s \in Sessions,
         phase[s] = "idle" \/ (phase[s] = "acquire" /\ goal[s] # "create"),
         NEW queue, \/ queue = Settled(s, file)
                    \/ queue = pending[s] /\ file.gen = known[s].gen
  PROVE  /\ queue \in Seq(Entry) /\ Once(queue)
         /\ Elems(queue) \subseteq Elems(pending[s])
         /\ Elems(queue) \cap Elems(file.log) = {}
<1> USE SessionTypes, QueueParts, NothingToOverride DEF OnceContext
<1>1. HeldOnce(s)
  BY DEF OnceInv, CalmSession
<1>2. CASE queue = Settled(s, file)
  <2>1. queue \in Seq(Entry)
    BY <1>2, QueueTypes
  <2>2. \/ queue = pending[s] /\ Elems(pending[s]) \cap Elems(file.log) = {}
        \/ /\ Once(queue) /\ Elems(queue) \subseteq Elems(pending[s])
           /\ Elems(queue) \cap Elems(file.log) = {}
    BY <1>1, <1>2, SettledOnce DEF HeldOnce
  <2> QED BY <1>1, <2>1, <2>2 DEF HeldOnce
<1>3. CASE queue = pending[s] /\ file.gen = known[s].gen
  <2>1. mem[s].log = file.log
    BY <1>3, ImageFields
  <2> QED BY <1>1, <1>3, <2>1 DEF HeldOnce
<1> QED BY <1>2, <1>3

LEMMA CatchUpOnce ==
  ASSUME OnceContext, NEW s \in Sessions, CatchUp(s)
  PROVE  CalmSession(s)' /\ NothingTaken(s)
<1> USE SessionTypes, QueueParts DEF OnceContext
<1> DEFINE queue == IF file.gen = known[s].gen THEN Requeued(s) ELSE Settled(s, file)
           disk  == IF file.gen = known[s].gen THEN known[s] ELSE KnownOf(file)
           body  == IF file.gen = known[s].gen THEN mem[s] ELSE BodyOf(file)
           next  == [body EXCEPT !.log = disk.log \o queue]
<1>1. /\ phase[s] = "acquire" /\ goal[s] = "tx" /\ phase'[s] = "closure"
      /\ lk[s] = "held"
      /\ carried'[s] = queue /\ pending'[s] = <<>> /\ base'[s] = file
      /\ mem'[s] = next /\ known'[s] = disk
      /\ UNCHANGED <<goal, file, confirmed, lk, entries>>
  BY DEF CatchUp, histVars, userVars, countVars, lockVars
<1>2. /\ file.gen # 0 /\ mem[s].log = known[s].log
      /\ file.gen = known[s].gen => mem[s] = BodyOf(file) /\ known[s] = KnownOf(file)
  BY <1>1, NothingToOverride
<1>3. body = BodyOf(file) /\ disk = KnownOf(file) /\ body \in Body
  BY <1>2, ConversionTypes DEF TypeOK, DiskTypeOK
<1>4. /\ queue \in Seq(Entry) /\ Once(queue)
      /\ Elems(queue) \subseteq Elems(pending[s])
      /\ Elems(queue) \cap Elems(file.log) = {}
  BY <1>1, <1>2, RequeuedIsPending, QueueMetFile
<1> HIDE DEF queue, disk, body
<1>5. mem'[s].log = file.log \o queue /\ mem'[s].vid = file.vid
  <2>1. next.log = disk.log \o queue /\ next.vid = body.vid
    BY <1>3 DEF Body
  <2>2. disk.log = file.log /\ body.vid = file.vid
    BY <1>3, ImageFields
  <2> QED BY <1>1, <2>1, <2>2
<1>6. known'[s].log = file.log /\ known'[s].gen = file.gen
  BY <1>1, <1>3, ImageFields
<1>7. Once(file.log) /\ Elems(file.log) \subseteq 1..entries /\ CalmSession(s)
  BY DEF OnceInv
<1>8. Elems(mem'[s].log) = Elems(file.log) \cup Elems(queue) /\ Once(mem'[s].log)
  BY <1>4, <1>5, <1>7, ElemsConcat, OnceConcat
<1>9. HeldOnce(s)'
  BY <1>1, <1>4, <1>6, <1>8, OnceEmpty DEF HeldOnce
<1>10. Held(s)' \subseteq 1..entries'
  <2>1. Elems(pending[s]) \subseteq 1..entries
    BY <1>7 DEF CalmSession, Held
  <2> QED BY <1>1, <1>4, <1>7, <1>8, <2>1, OnceEmpty DEF Held
<1>11. HoldsLock(s)' /\ HoldsNothing(s)' /\ SawFile(s)'
  BY <1>1, <1>2, <1>6, <1>7 DEF HoldsLock, HoldsNothing, SawFile, CalmSession
<1>12. OnBase(s)' /\ OnlyLanded(s)'
  BY <1>1, <1>5, <1>6 DEF OnBase, OnlyLanded, Building
<1>13. NothingTaken(s)
  BY <1>1, <1>4, <1>6, <1>8, OnceEmpty DEF NothingTaken, Unwritten
<1> QED BY <1>9, <1>10, <1>11, <1>12, <1>13 DEF CalmSession

LEMMA CreateNewFileOnce ==
  ASSUME OnceContext, NEW s \in Sessions, CreateNewFile(s)
  PROVE  CalmSession(s)' /\ NothingTaken(s)
<1> USE SessionTypes, QueueParts DEF OnceContext
<1>1. /\ phase[s] = "acquire" /\ goal[s] = "create" /\ phase'[s] = "commit"
      /\ lk[s] = "held" /\ file = NoFile
      /\ UNCHANGED <<goal, file, mem, known, base, pending, carried, confirmed,
                     lk, entries>>
  BY DEF CreateNewFile, histVars, userVars, countVars, lockVars, bodyVars
<1>2. CalmSession(s)
  BY DEF OnceInv
<1>3. HeldOnce(s)' /\ Unwritten(s)' = Unwritten(s) /\ Held(s)' \subseteq 1..entries'
  BY <1>1, <1>2, HeldSame DEF CalmSession
<1>4. HoldsLock(s)' /\ HoldsNothing(s)' /\ SawFile(s)'
  BY <1>1, <1>2 DEF CalmSession, HoldsLock, HoldsNothing, SawFile
<1>5. OnBase(s)' /\ OnlyLanded(s)'
  BY <1>1, <1>2, ImageFields DEF CalmSession, HoldsNothing, OnBase, OnlyLanded,
     Building
<1> QED BY <1>3, <1>4, <1>5 DEF CalmSession, NothingTaken

\* A new entry is nobody's yet.
LEMMA NewEntry ==
  ASSUME OnceContext, NEW s \in Sessions
  PROVE  /\ entries + 1 \in Entry /\ entries < entries + 1 /\ entries \in Nat
         /\ entries + 1 \notin Held(s) /\ entries + 1 \notin Elems(file.log)
         /\ 1..entries \subseteq 1..(entries + 1)
<1>1. entries \in Nat /\ entries + 1 \in Entry
  BY QueueParts DEF OnceContext, TypeOK, CountTypeOK
<1>2. entries + 1 \notin 1..entries /\ 1..entries \subseteq 1..(entries + 1)
  BY <1>1
<1> QED BY <1>1, <1>2 DEF OnceContext, OnceInv, CalmSession

LEMMA ClosureOnce ==
  ASSUME OnceContext, NEW s \in Sessions, NEW body \in Body, NEW own \in {0, 1},
         Closure(s, body, own), body.log = mem[s].log, body.vid = mem[s].vid
  PROVE  CalmSession(s)' /\ NothingTaken(s)
<1> USE SessionTypes, QueueParts, NewEntry DEF OnceContext
<1>1. /\ phase[s] = "closure" /\ phase'[s] = "commit" /\ entries' = entries + own
      /\ UNCHANGED <<goal, file, known, base, pending, carried, confirmed, lk>>
  BY DEF Closure, lockVars, diskVars
<1>2. CalmSession(s) /\ goal[s] = "tx"
  BY <1>1 DEF OnceInv, MemoryInv, SessionInv, Restores, Building
<1>3. /\ mem'[s].vid = mem[s].vid /\ Once(mem'[s].log)
      /\ Elems(mem[s].log) \subseteq Elems(mem'[s].log)
      /\ Elems(mem'[s].log) \subseteq Elems(mem[s].log) \cup {entries + 1}
      /\ own = 0 => Elems(mem'[s].log) = Elems(mem[s].log)
  <2>1. Once(mem[s].log) /\ entries + 1 \notin Elems(mem[s].log)
    BY <1>2 DEF CalmSession, HeldOnce, Held
  <2>2. CASE own = 0
    <3>1. mem'[s] = body
      BY <2>2 DEF Closure
    <3> QED BY <2>1, <2>2, <3>1
  <2>3. CASE own = 1
    <3>1. mem'[s] = [body EXCEPT !.log = Append(body.log, entries + 1)]
      BY <2>3 DEF Closure
    <3>2. mem'[s].log = Append(mem[s].log, entries + 1) /\ mem'[s].vid = body.vid
      BY <3>1 DEF Body
    <3>3. Once(mem'[s].log)
      BY <2>1, <3>2, OnceAppend
    <3>4. Elems(mem'[s].log) = Elems(mem[s].log) \cup {entries + 1}
      BY <3>2, ElemsAppend
    <3> QED BY <2>3, <3>2, <3>3, <3>4
  <2> QED BY <2>2, <2>3
<1>4. /\ Elems(pending[s])' = Elems(pending[s])
      /\ Elems(carried[s])' = Elems(carried[s])
      /\ Elems(known[s].log)' = Elems(known[s].log)
      /\ Once(pending[s])' /\ Once(carried[s])'
  BY <1>1, <1>2 DEF Elems, Once, CalmSession, HeldOnce
<1>5. HeldOnce(s)' /\ Held(s)' \subseteq 1..entries'
  <2>1. entries + 1 \notin Elems(pending[s]) /\ Held(s) \subseteq 1..entries
    BY <1>2 DEF Held, CalmSession
  <2>2. HeldOnce(s)'
    BY <1>2, <1>3, <1>4, <2>1 DEF CalmSession, HeldOnce
  <2>3. CASE own = 0
    <3>1. entries' = entries
      BY <1>1, <2>3
    <3> QED BY <1>3, <1>4, <2>1, <2>2, <2>3, <3>1 DEF Held
  <2>4. CASE own = 1
    <3>1. 1..entries' = 1..entries \cup {entries + 1}
      BY <1>1, <2>4
    <3> QED BY <1>3, <1>4, <2>1, <2>2, <3>1 DEF Held
  <2> QED BY <2>3, <2>4
<1>6. HoldsLock(s)' /\ HoldsNothing(s)' /\ SawFile(s)'
  BY <1>1, <1>2 DEF HoldsLock, HoldsNothing, SawFile, CalmSession, Building
<1>7. OnBase(s)' /\ OnlyLanded(s)'
  BY <1>1, <1>2, <1>3 DEF CalmSession, OnBase, OnlyLanded, Building
<1>8. NothingTaken(s)
  BY <1>3, <1>4 DEF NothingTaken, Unwritten
<1> QED BY <1>5, <1>6, <1>7, <1>8 DEF CalmSession

\* A draft is queued, between calls or within a closure.
LEMMA QueuedOnce ==
  ASSUME OnceContext, NEW s \in Sessions, QueueAudit(s) \/ QueueInside(s)
  PROVE  CalmSession(s)' /\ NothingTaken(s)
<1> USE SessionTypes, QueueParts, NewEntry DEF OnceContext
<1>1. /\ pending'[s] = Append(pending[s], entries + 1)
      /\ phase[s] \in {"idle", "closure"} /\ entries' = entries + 1
      /\ UNCHANGED <<phase, goal, file, mem, known, base, sealed, carried, unconf,
                     confirmed, lk>>
  BY DEF QueueAudit, QueueInside, lockVars, diskVars, userVars
<1>2. CalmSession(s) /\ goal[s] = "tx"
  BY <1>1 DEF OnceInv, MemoryInv, SessionInv, Restores, Building, DraftInv, QueueInv,
     NothingQueuedYet
<1>3. entries + 1 \notin Elems(mem[s].log) /\ entries + 1 \notin Elems(pending[s])
  BY DEF Held
<1>4. Elems(pending'[s]) = Elems(pending[s]) \cup {entries + 1} /\ Once(pending'[s])
  BY <1>1, <1>2, <1>3, ElemsAppend, OnceAppend DEF CalmSession, HeldOnce
<1>5. /\ Elems(mem[s].log)' = Elems(mem[s].log)
      /\ Elems(carried[s])' = Elems(carried[s])
      /\ Elems(known[s].log)' = Elems(known[s].log)
      /\ Once(mem[s].log)' /\ Once(carried[s])'
  BY <1>1, <1>2 DEF Elems, Once, CalmSession, HeldOnce
<1>6. HeldOnce(s)'
  BY <1>2, <1>3, <1>4, <1>5 DEF CalmSession, HeldOnce
<1>7. Held(s)' \subseteq 1..entries'
  <2>1. Held(s) \subseteq 1..entries /\ entries + 1 \in 1..entries'
    BY <1>1, <1>2 DEF CalmSession
  <2> QED BY <1>1, <1>4, <1>5, <2>1 DEF Held
<1>8. HoldsLock(s)' /\ HoldsNothing(s)' /\ SawFile(s)' /\ OnBase(s)'
  BY <1>1, <1>2 DEF HoldsLock, HoldsNothing, SawFile, OnBase, CalmSession, Building,
     InFlight
<1>9. OnlyLanded(s)'
  <2> SUFFICES ASSUME phase[s] \notin Building, NEW i \in 1..Len(pending'[s]),
                      pending'[s][i] \in Elems(file.log)
               PROVE  Continues(unconf[s].log, file.log) /\ i <= unconf[s].drafts
    BY <1>1 DEF OnlyLanded, Elems, Continues
  <2>1. /\ Len(pending'[s]) = Len(pending[s]) + 1 /\ Len(pending[s]) \in Nat
        /\ \A j \in 1..Len(pending[s]) : pending'[s][j] = pending[s][j]
        /\ pending'[s][Len(pending[s]) + 1] = entries + 1
    BY <1>1, AppendProperties, LenProperties
  <2>2. i \in 1..Len(pending[s])
    <3>1. i # Len(pending[s]) + 1
      BY <2>1
    <3> QED BY <2>1, <3>1
  <2> QED BY <1>2, <2>1, <2>2 DEF CalmSession, OnlyLanded
<1>10. NothingTaken(s)
  BY <1>4, <1>5 DEF NothingTaken, Unwritten
<1> QED BY <1>6, <1>7, <1>8, <1>9, <1>10 DEF CalmSession

\* What a write carries is in the chain it is built on, none of which is
\* still queued.
LEMMA ChainHas ==
  ASSUME OnceContext, NEW s \in Sessions, phase[s] \in Building
  PROVE  /\ Elems(carried[s]) \subseteq Elems(mem[s].log)
         /\ Elems(known[s].log) \subseteq Elems(mem[s].log)
         /\ Continues(known[s].log, mem[s].log)
         /\ phase[s] \in InFlight => mem[s].log = sealed[s].log
<1> USE SessionTypes, QueueParts DEF OnceContext
<1>1. CASE phase[s] \in InFlight
  <2>1. mem[s].log = sealed[s].log /\ Continues(known[s].log, sealed[s].log)
    BY <1>1, ImageFields DEF MemoryInv, SessionInv, Descends
  <2>2. Elems(carried[s]) \subseteq Elems(sealed[s].log)
    BY <1>1 DEF DraftInv, QueueInv, CarriedInLog
  <2> QED BY <2>1, <2>2, ElemsContinues
<1>2. CASE phase[s] \notin InFlight
  <2>1. phase[s] \in {"closure", "commit"}
    BY <1>2 DEF Building
  <2>2. /\ Continues(known[s].log, mem[s].log)
        /\ Elems(carried[s]) \subseteq Elems(mem[s].log)
    BY <2>1 DEF MemoryInv, SessionInv, Descends, DraftInv, QueueInv, CarriedInLog
  <2> QED BY <1>2, <2>2, ElemsContinues
<1> QED BY <1>1, <1>2

LEMMA CommitOnce ==
  ASSUME OnceContext, NEW s \in Sessions, Commit(s)
  PROVE  CalmSession(s)' /\ NothingTaken(s)
<1> USE SessionTypes, QueueParts DEF OnceContext
<1> DEFINE log == mem[s].log \o pending[s]
<1>1. /\ phase[s] = "commit" /\ phase'[s] \in {"write", "readback"}
      /\ carried'[s] = carried[s] \o pending[s] /\ pending'[s] = <<>>
      /\ UNCHANGED <<goal, file, known, base, confirmed, lk, entries>>
  BY DEF Commit, lockVars, userVars
<1>2. mem'[s] = [mem[s] EXCEPT !.log = log]
  BY DEF Commit
<1>3. mem'[s].log = log /\ mem'[s].vid = mem[s].vid
  <2>1. mem[s] \in Body
    OBVIOUS
  <2> HIDE DEF log
  <2> QED BY <1>2, <2>1 DEF Body
<1>4. CalmSession(s) /\ phase[s] \in Building
  BY <1>1 DEF OnceInv, Building
<1>5. /\ Elems(carried[s]) \subseteq Elems(mem[s].log)
      /\ Elems(known[s].log) \subseteq Elems(mem[s].log)
  BY <1>4, ChainHas
<1>6. Elems(mem'[s].log) = Elems(mem[s].log) \cup Elems(pending[s])
      /\ Once(mem'[s].log)
  BY <1>3, <1>4, ElemsConcat, OnceConcat DEF CalmSession, HeldOnce
<1>7. Elems(carried'[s]) = Elems(carried[s]) \cup Elems(pending[s])
      /\ Once(carried'[s])
  BY <1>1, <1>4, <1>5, ElemsConcat, OnceConcat DEF CalmSession, HeldOnce
<1>8. Elems(known[s].log)' = Elems(known[s].log)
  BY <1>1 DEF Elems
<1>9. HeldOnce(s)'
  BY <1>1, <1>4, <1>5, <1>6, <1>7, <1>8, OnceEmpty DEF HeldOnce, CalmSession
<1>10. Held(s)' \subseteq 1..entries'
  <2>1. Held(s) \subseteq 1..entries
    BY <1>4 DEF CalmSession
  <2> QED BY <1>1, <1>6, <1>7, <2>1, OnceEmpty DEF Held
<1>11. HoldsLock(s)' /\ SawFile(s)' /\ OnlyLanded(s)'
  BY <1>1, <1>4 DEF HoldsLock, SawFile, OnlyLanded, CalmSession, Building, InFlight
<1>12. HoldsNothing(s)'
  <2>1. SUFFICES ASSUME goal[s] = "create"
                 PROVE  mem'[s].log = <<>> /\ known'[s].log = <<>> /\ base'[s] = NoFile
    BY <1>1 DEF HoldsNothing
  <2>2. mem[s].log = <<>> /\ pending[s] = <<>>
    BY <1>4, <2>1 DEF CalmSession, HoldsNothing
  <2>3. log = <<>>
    BY <2>2, ConcatEmptySeq, NothingTypes
  <2> QED BY <1>1, <1>3, <1>4, <2>1, <2>3 DEF CalmSession, HoldsNothing
<1>13. OnBase(s)'
  BY <1>1, <1>3, <1>4 DEF OnBase, CalmSession
<1>14. NothingTaken(s)
  BY <1>1, <1>6, <1>7, <1>8, OnceEmpty DEF NothingTaken, Unwritten
<1> QED BY <1>9, <1>10, <1>11, <1>12, <1>13, <1>14 DEF CalmSession

\* A temporary is written, or is not.
LEMMA MovesOnOnce ==
  ASSUME OnceContext, NEW s \in Sessions, WriteTemp(s) \/ WriteFails(s)
  PROVE  CalmSession(s)' /\ NothingTaken(s)
<1> USE SessionTypes, QueueParts DEF OnceContext
<1>1. /\ phase[s] \in {"write", "rename"} /\ phase'[s] \in {"rename", "readback"}
      /\ UNCHANGED <<goal, file, mem, known, base, pending, carried, confirmed,
                     lk, entries>>
  BY DEF WriteTemp, WriteFails, Writing, bodyVars, userVars, countVars, lockVars
<1>2. CalmSession(s)
  BY DEF OnceInv
<1>3. HeldOnce(s)' /\ Unwritten(s)' = Unwritten(s) /\ Held(s)' \subseteq 1..entries'
  BY <1>1, <1>2, HeldSame DEF CalmSession
<1>4. HoldsLock(s)' /\ HoldsNothing(s)' /\ SawFile(s)'
  BY <1>1, <1>2 DEF CalmSession, HoldsLock, HoldsNothing, SawFile, Building, InFlight
<1>5. OnBase(s)' /\ OnlyLanded(s)'
  BY <1>1, <1>2 DEF CalmSession, OnBase, OnlyLanded, Building, InFlight
<1> QED BY <1>3, <1>4, <1>5 DEF CalmSession, NothingTaken
-----------------------------------------------------------------------------
(* The ends of calls.                                                      *)

\* The file is the base of a write that fails, unless that landed unnoticed.
LEMMA RollBackOnce ==
  ASSUME OnceContext, NEW s \in Sessions, phase[s] \in Building, goal[s] = "tx",
         RollBack(s), EndCall(s, "idle"),
         UNCHANGED <<file, entries>>, confirmed'[s] = confirmed[s],
         \/ phase[s] # "readback"
         \/ unconf'[s] = [log |-> sealed[s].log, drafts |-> Len(carried[s])]
  PROVE  CalmSession(s)' /\ NothingTaken(s)
<1> USE SessionTypes, QueueParts DEF OnceContext
<1> DEFINE queue == carried[s] \o pending[s]
<1>1. /\ phase'[s] = "idle" /\ goal'[s] = "tx" /\ carried'[s] = <<>>
      /\ mem'[s] = BodyOf(base[s]) /\ known'[s] = KnownOf(base[s])
      /\ pending'[s] = queue
  BY DEF EndCall, RollBack
<1>2. CalmSession(s) /\ known[s] = KnownOf(base[s]) /\ phase[s] # "closed"
  BY DEF OnceInv, MemoryInv, SessionInv, Restores, Building, InFlight
<1>3. /\ mem'[s].log = known[s].log /\ known'[s] = known[s]
      /\ known[s].log = base[s].log /\ known[s].gen # 0 /\ confirmed[s] = NoConflict
  BY <1>1, <1>2, ImageFields DEF CalmSession, SawFile
<1>4. /\ Elems(carried[s]) \subseteq Elems(mem[s].log)
      /\ Elems(known[s].log) \subseteq Elems(mem[s].log)
      /\ Continues(known[s].log, mem[s].log)
      /\ phase[s] \in InFlight => mem[s].log = sealed[s].log
  BY ChainHas
<1>5. Once(queue) /\ Elems(queue) = Elems(carried[s]) \cup Elems(pending[s])
  BY <1>2, <1>4, ElemsConcat, OnceConcat DEF CalmSession, HeldOnce
<1>6. Once(known[s].log)
  BY <1>2, <1>4, OncePrefix DEF CalmSession, HeldOnce
<1>7. Elems(known[s].log) \cap Elems(queue) = {}
  BY <1>2, <1>4, <1>5 DEF CalmSession, HeldOnce
<1>8. Elems(known[s].log) \cup Elems(queue) \subseteq 1..entries
  BY <1>2, <1>4, <1>5 DEF CalmSession, Held
<1>9. ASSUME NEW i \in 1..Len(queue), queue[i] \in Elems(file.log)
      PROVE  Continues(unconf'[s].log, file.log) /\ i <= unconf'[s].drafts
  <2>1. file # base[s]
    BY <1>3, <1>7, <1>9 DEF Elems
  <2>2. phase[s] = "readback" /\ file = sealed[s] /\ mem[s].log = file.log
    BY <1>2, <1>4, <2>1 DEF CalmSession, OnBase, InFlight
  <2>3. unconf'[s].log = file.log /\ unconf'[s].drafts = Len(carried[s])
    BY <2>2
  <2>4. /\ Len(queue) = Len(carried[s]) + Len(pending[s])
        /\ Len(carried[s]) \in Nat /\ Len(pending[s]) \in Nat
        /\ \A j \in (Len(carried[s]) + 1)..(Len(carried[s]) + Len(pending[s])) :
             queue[j] = pending[s][j - Len(carried[s])]
    BY ConcatProperties, LenProperties
  <2> HIDE DEF queue
  <2>5. ASSUME ~(i <= Len(carried[s])) PROVE FALSE
    <3>1. /\ i \in (Len(carried[s]) + 1)..(Len(carried[s]) + Len(pending[s]))
          /\ i - Len(carried[s]) \in 1..Len(pending[s])
      BY <2>4, <2>5
    <3>2. queue[i] \in Elems(pending[s])
      BY <2>4, <3>1 DEF Elems
    <3> QED BY <1>2, <1>9, <2>2, <3>2 DEF CalmSession, HeldOnce
  <2> QED BY <2>3, <2>5, ContinuesItself
<1> HIDE DEF queue
<1>10. OnlyLanded(s)'
  BY <1>1, <1>9 DEF OnlyLanded, Elems, Continues
<1>11. Elems(queue) \subseteq Unwritten(s)
  BY <1>5 DEF Unwritten
<1>12. /\ mem'[s].log = known'[s].log /\ Once(mem'[s].log) /\ Once(pending'[s])
       /\ Elems(mem'[s].log) \cap Elems(pending'[s]) = {}
       /\ Elems(mem'[s].log) \cup Elems(pending'[s]) \subseteq 1..entries'
       /\ Elems(pending'[s]) \subseteq Unwritten(s) \cup {e \in Nat : entries < e}
       /\ known'[s].gen # 0 /\ confirmed'[s] = NoConflict
  BY <1>1, <1>3, <1>5, <1>6, <1>7, <1>8, <1>11
<1> QED BY <1>1, <1>10, <1>12, RestedOnce

\* A write that landed.
LEMMA WrittenOnce ==
  ASSUME OnceContext, NEW s \in Sessions, phase[s] \in InFlight, RecordWritten(s),
         file' = sealed[s], UNCHANGED entries, confirmed'[s] = confirmed[s]
  PROVE  CalmSession(s)' /\ NothingTaken(s)
<1> USE SessionTypes, QueueParts DEF OnceContext
<1>1. /\ phase'[s] = "idle" /\ goal'[s] = "tx" /\ carried'[s] = <<>>
      /\ mem'[s] = mem[s] /\ known'[s] = KnownOf(sealed[s])
      /\ pending'[s] = pending[s]
  BY DEF RecordWritten, EndCall
<1>2. CalmSession(s) /\ phase[s] \in Building
  BY DEF OnceInv, Building
<1>3. mem[s].log = sealed[s].log
  BY <1>2, ChainHas
<1>4. known'[s].gen # 0 /\ known'[s].log = sealed[s].log
  <2>1. sealed[s].gen # 0
    BY DEF UpdateInv, GenerationsInv
  <2> QED BY <1>1, <2>1, ImageFields
<1>5. Elems(sealed[s].log) \cap Elems(pending[s]) = {}
  BY <1>2, <1>3 DEF CalmSession, HeldOnce
<1>6. OnlyLanded(s)'
  <2>1. \A i \in 1..Len(pending[s]) : pending[s][i] \notin Elems(sealed[s].log)
    BY <1>5 DEF Elems
  <2>2. Elems(file.log)' = Elems(sealed[s].log)
    BY DEF Elems
  <2> QED BY <1>1, <2>1, <2>2 DEF OnlyLanded
<1>7. /\ mem'[s].log = known'[s].log /\ Once(mem'[s].log) /\ Once(pending'[s])
      /\ Elems(mem'[s].log) \cap Elems(pending'[s]) = {}
      /\ Elems(mem'[s].log) \cup Elems(pending'[s]) \subseteq 1..entries'
      /\ Elems(pending'[s]) \subseteq Unwritten(s) \cup {e \in Nat : entries < e}
      /\ confirmed'[s] = NoConflict
  BY <1>1, <1>2, <1>3, <1>4 DEF CalmSession, HeldOnce, Held, SawFile, Unwritten
<1> QED BY <1>1, <1>4, <1>6, <1>7, RestedOnce

\* A write that landed and whose reply was lost.
LEMMA ReplyLostOnce ==
  ASSUME OnceContext, NEW s \in Sessions, RenameLosesReply(s)
  PROVE  CalmSession(s)' /\ NothingTaken(s)
<1> USE SessionTypes, QueueParts DEF OnceContext
<1>1. /\ phase[s] = "rename" /\ phase'[s] = "readback" /\ file' = sealed[s]
      /\ UNCHANGED <<goal, mem, known, base, sealed, pending, carried, confirmed,
                     lk, entries>>
  BY DEF RenameLosesReply, Land, bodyVars, userVars, lockVars
<1>2. CalmSession(s)
  BY DEF OnceInv
<1>3. HeldOnce(s)' /\ Unwritten(s)' = Unwritten(s) /\ Held(s)' \subseteq 1..entries'
  BY <1>1, <1>2, HeldSame DEF CalmSession
<1>4. HoldsLock(s)' /\ HoldsNothing(s)' /\ SawFile(s)'
  BY <1>1, <1>2 DEF CalmSession, HoldsLock, HoldsNothing, SawFile, Building, InFlight
<1>5. OnBase(s)' /\ OnlyLanded(s)'
  BY <1>1, <1>2 DEF CalmSession, OnBase, OnlyLanded, Building, InFlight
<1> QED BY <1>3, <1>4, <1>5 DEF CalmSession, NothingTaken

\* Landing: nobody else is in a call that has read the file, and the file that
\* is replaced is what the new one continues.
LEMMA LandOnce ==
  ASSUME OnceContext, NEW s \in Sessions, Land(s), UNCHANGED entries,
         Alone(s), QueueAlone(s), LockAlone(s), CalmSession(s)', NothingTaken(s)
  PROVE  OnceInv'
<1> USE SessionTypes, QueueParts DEF OnceContext
<1>1. /\ phase[s] = "rename" /\ phase[s] \in Building /\ phase[s] \in InFlight
      /\ file' = sealed[s] /\ past' = past \cup {sealed[s]}
  BY DEF Land, Building, InFlight
<1>2. CalmSession(s) /\ FileGrows /\ lk[s] = "held"
  BY <1>1 DEF OnceInv, CalmSession, HoldsLock
<1>3. file = base[s] /\ known[s].log = file.log
  BY <1>1, <1>2 DEF CalmSession, OnBase
<1>4. mem[s].log = sealed[s].log /\ Continues(file.log, sealed[s].log)
  BY <1>1, <1>3, ChainHas
<1>5. sealed[s].gen # 0 /\ sealed[s] # NoFile
  BY <1>1, ImageFields DEF UpdateInv, GenerationsInv
<1>6. /\ Once(sealed[s].log) /\ Elems(sealed[s].log) \subseteq 1..entries
      /\ Elems(sealed[s].log) \subseteq Unwritten(s) \cup Elems(file.log)
  BY <1>2, <1>3, <1>4 DEF CalmSession, HeldOnce, Held, Unwritten
<1>7. ASSUME NEW f \in past \ {NoFile}
      PROVE  f.vid = sealed[s].vid /\ f.ver <= sealed[s].ver
             /\ Continues(f.log, sealed[s].log)
  <2>1. /\ file # NoFile /\ file.vid = f.vid /\ f.ver <= file.ver
        /\ Continues(f.log, file.log)
    BY <1>2 DEF FileGrows
  <2>2. goal[s] = "tx"
    BY <1>2, <1>3, <2>1 DEF CalmSession, HoldsNothing, SawFile, Goals
  <2>3. mem[s].vid = file.vid /\ known[s].ver = file.ver
    BY <1>1, <1>2, <1>3, <2>2, ImageFields DEF CalmSession, OnBase, MemoryInv,
       SessionInv, Restores
  <2>4. sealed[s].vid = mem[s].vid /\ known[s].ver <= sealed[s].ver
    BY <1>1, ImageFields DEF MemoryInv, SessionInv, Descends
  <2>5. f.ver \in Nat /\ file.ver \in Nat /\ sealed[s].ver \in Nat /\ f.log \in Seq(Entry)
    <3>1. f \in Image /\ file \in Image /\ sealed[s] \in Image
      BY DEF TypeOK, CountTypeOK, DiskTypeOK
    <3> QED BY <3>1 DEF Image
  <2>6. Continues(f.log, sealed[s].log)
    BY <1>4, <2>1, <2>5, ContinuesThrough
  <2>7. f.ver <= sealed[s].ver
    BY <2>1, <2>3, <2>4, <2>5
  <2> QED BY <2>1, <2>3, <2>4, <2>6, <2>7
<1>8. FileGrows'
  <2>1. ASSUME NEW f \in past' \ {NoFile}
        PROVE  f.vid = sealed[s].vid /\ f.ver <= sealed[s].ver
               /\ Continues(f.log, sealed[s].log)
    <3>1. CASE f = sealed[s]
      <4>1. f.ver \in Nat
        BY <3>1 DEF Image
      <4> QED BY <3>1, <4>1, ContinuesItself
    <3> QED BY <1>1, <1>7, <3>1
  <2> QED BY <1>1, <1>5, <2>1 DEF FileGrows, Continues
<1>9. ASSUME NEW t \in Sessions \ {s}
      PROVE  CalmSession(t)' /\ Unwritten(t)' = Unwritten(t)
  <2>1. /\ phase'[t] = phase[t] /\ goal'[t] = goal[t] /\ mem'[t] = mem[t]
        /\ known'[t] = known[t] /\ base'[t] = base[t] /\ sealed'[t] = sealed[t]
        /\ confirmed'[t] = confirmed[t] /\ pending'[t] = pending[t]
        /\ carried'[t] = carried[t] /\ unconf'[t] = unconf[t] /\ lk'[t] = lk[t]
    BY DEF Alone, QueueAlone, LockAlone
  <2>2. CalmSession(t) /\ Unwritten(s) \cap Unwritten(t) = {}
    BY DEF OnceInv
  <2>3. HeldOnce(t)' /\ Unwritten(t)' = Unwritten(t) /\ Held(t)' \subseteq 1..entries'
    BY <2>1, <2>2, HeldSame DEF CalmSession
  <2>4. phase[t] \notin Building
    BY <1>2, <2>2, OneHolder DEF CalmSession, HoldsLock, Calm
  <2>5. HoldsLock(t)' /\ HoldsNothing(t)' /\ SawFile(t)' /\ OnBase(t)'
    BY <2>1, <2>2, <2>4 DEF CalmSession, HoldsLock, HoldsNothing, SawFile, OnBase
  <2>6. ASSUME NEW i \in 1..Len(pending[t]), pending[t][i] \in Elems(sealed[s].log)
        PROVE  Continues(unconf[t].log, sealed[s].log) /\ i <= unconf[t].drafts
    <3>1. pending[t][i] \in Unwritten(t)
      BY DEF Unwritten, Elems
    <3>2. pending[t][i] \in Elems(file.log)
      BY <1>6, <2>2, <2>6, <3>1
    <3>3. Continues(unconf[t].log, file.log) /\ i <= unconf[t].drafts
      BY <2>2, <2>4, <3>2 DEF CalmSession, OnlyLanded
    <3> QED BY <1>4, <3>3, ContinuesThrough
  <2>7. OnlyLanded(t)'
    BY <1>1, <2>1, <2>6 DEF OnlyLanded, Elems, Continues
  <2> QED BY <2>3, <2>5, <2>7 DEF CalmSession
<1>10. ASSUME NEW t \in Sessions \ {s} PROVE Unwritten(s)' \cap Unwritten(t)' = {}
  <2>1. Unwritten(s) \cap Unwritten(t) = {}
    BY DEF OnceInv
  <2>2. Unwritten(t) \subseteq 1..entries
    BY DEF OnceInv, CalmSession, Held, Unwritten
  <2>3. \A e \in 1..entries : ~(entries < e)
    BY DEF TypeOK, CountTypeOK
  <2> QED BY <1>9, <2>1, <2>2, <2>3 DEF NothingTaken
<1>11. \A t, u \in Sessions : t # u => Unwritten(t)' \cap Unwritten(u)' = {}
  BY <1>9, <1>10 DEF OnceInv
<1>12. \A t \in Sessions : CalmSession(t)'
  BY <1>9
<1>13. Once(file.log)' /\ Elems(file.log)' \subseteq 1..entries'
  BY <1>1, <1>6 DEF Once, Elems
<1> QED BY <1>8, <1>11, <1>12, <1>13 DEF OnceInv
-----------------------------------------------------------------------------
(* The invariant, one action at a time.                                    *)

\* An error before the file was read.
LEMMA RefuseOnce ==
  ASSUME OnceContext, NEW s \in Sessions, Refuse(s),
         UNCHANGED <<file, entries>>, confirmed'[s] = confirmed[s],
         phase[s] = "acquire" \/ goal[s] = "create"
  PROVE  CalmSession(s)' /\ NothingTaken(s)
<1> USE SessionTypes, QueueParts DEF OnceContext
<1>1. /\ carried'[s] = <<>> /\ base'[s] = NoFile /\ goal'[s] = "tx"
      /\ pending'[s] = pending[s] /\ unconf'[s] = unconf[s]
  BY DEF Refuse, EndCall
<1>2. CalmSession(s)
  BY DEF OnceInv
<1>3. CASE goal[s] = "create"
  <2>1. /\ phase'[s] = "closed" /\ mem'[s].log = <<>> /\ known'[s].log = <<>>
    BY <1>3, ImageFields DEF Refuse, EndCall, NoBody, NewBody, NoKnown
  <2>2. pending'[s] = <<>> /\ confirmed'[s] = NoConflict
    BY <1>1, <1>2, <1>3 DEF CalmSession, HoldsNothing, SawFile
  <2> QED BY <1>1, <2>1, <2>2, GoneOnce
<1>4. CASE goal[s] # "create"
  <2>1. /\ phase[s] = "acquire" /\ phase'[s] = "idle" /\ mem'[s] = mem[s]
        /\ known'[s] = known[s]
    BY <1>4 DEF Refuse, EndCall
  <2>2. carried[s] = <<>>
    BY <1>4, <2>1, NothingToOverride
  <2> QED BY <1>1, <1>2, <1>4, <2>1, <2>2, WaitingOnce
<1> QED BY <1>3, <1>4

LEMMA CallStepOnce ==
  ASSUME OnceContext, NEW s \in Sessions, CallStep(s)
  PROVE  OnceInv'
<1> USE SessionTypes, QueueParts DEF OnceContext
<1>1. Alone(s) /\ QueueAlone(s) /\ LockAlone(s)
  BY CallStepAlone, CallStepQueueAlone, CallStepLockAlone
<1>2. ASSUME CalmSession(s)' /\ NothingTaken(s), UNCHANGED <<file, past>>
      PROVE  OnceInv'
  BY <1>1, <1>2, OnceStep
<1>3. ASSUME CalmSession(s)' /\ NothingTaken(s), Land(s), UNCHANGED entries
      PROVE  OnceInv'
  BY <1>1, <1>3, LandOnce
<1>4. CalmSession(s) /\ goal[s] # "overwrite"
  BY DEF OnceInv, CalmSession, SawFile
<1>5. CASE Acquire(s)
  <2>1. /\ phase[s] = "acquire" /\ UNCHANGED <<phase, goal, mem, known, pending,
           carried, unconf, confirmed, base, file, entries, past>>
    BY <1>5 DEF Acquire, bodyVars, userVars, diskVars, countVars, histVars
  <2> QED BY <1>2, <1>4, <2>1, WaitingOnce
<1>6. CASE CatchUp(s)
  BY <1>2, <1>6, CatchUpOnce DEF CatchUp, histVars
<1>7. CASE CreateNewFile(s)
  BY <1>2, <1>7, CreateNewFileOnce DEF CreateNewFile, histVars
<1>8. CASE OverwriteExamine(s) \/ OverwriteRefused(s)
  BY <1>4, <1>8 DEF OverwriteExamine, OverwriteRefused
<1>9. CASE \/ CatchUpRefused(s) \/ CreateRefused(s)
           \/ CreateFails(s) \/ LockFails(s) \/ ReadFails(s)
  <2>1. /\ Refuse(s) /\ UNCHANGED <<past, file, entries, confirmed>>
        /\ phase[s] = "acquire" \/ goal[s] = "create"
    BY <1>9 DEF CatchUpRefused, CreateRefused, CreateFails, LockFails, ReadFails,
       histVars, userVars, countVars, diskVars
  <2> QED BY <1>2, <2>1, RefuseOnce
<1>10. CASE \/ Flush(s) \/ Edit(s) \/ InstallPassword(s)
            \/ (\E d \in DeviceIds : AddDeviceKey(s, d) \/ RemoveDeviceKey(s, d))
  <2>1. PICK body \in Body, own \in {0, 1} :
          /\ Closure(s, body, own)
          /\ body.log = mem[s].log /\ body.vid = mem[s].vid
    BY <1>10, ClosureEdits
  <2>2. UNCHANGED <<past, file>>
    BY <2>1 DEF Closure, histVars, diskVars
  <2> QED BY <1>2, <2>1, <2>2, ClosureOnce
<1>11. CASE PasswordConflict(s) \/ ClosureFails(s)
  <2>1. /\ RollBack(s) /\ EndCall(s, "idle") /\ phase[s] = "closure"
        /\ UNCHANGED <<past, file, entries, confirmed>>
    BY <1>11 DEF PasswordConflict, ClosureFails, AbortClosure, diskVars, countVars
  <2>2. goal[s] = "tx" /\ phase[s] \in Building
    BY <2>1 DEF MemoryInv, SessionInv, Restores, Building
  <2> QED BY <1>2, <2>1, <2>2, RollBackOnce
<1>12. CASE Commit(s)
  BY <1>2, <1>12, CommitOnce DEF Commit, histVars
<1>13. CASE WriteTemp(s) \/ WriteFails(s)
  BY <1>2, <1>13, MovesOnOnce DEF WriteTemp, WriteFails, histVars
<1>14. CASE SealFails(s) \/ ReadBackFails(s)
  <2>1. /\ BackOut(s) /\ goal[s] # "create" /\ phase[s] \in {"commit", "readback"}
        /\ UNCHANGED <<past, file, entries, confirmed>>
        /\ \/ phase[s] # "readback"
           \/ unconf'[s] = [log |-> sealed[s].log, drafts |-> Len(carried[s])]
    BY <1>14 DEF SealFails, ReadBackFails, diskVars, userVars
  <2>2. goal[s] = "tx" /\ phase[s] \in Building
    BY <1>4, <2>1 DEF Goals, Building, InFlight
  <2>3. RollBack(s) /\ EndCall(s, "idle")
    BY <2>1, <2>2 DEF BackOut
  <2> QED BY <1>2, <2>1, <2>2, <2>3, RollBackOnce
<1>15. CASE RenameLosesReply(s)
  BY <1>3, <1>15, ReplyLostOnce DEF RenameLosesReply
<1>16. CASE Rename(s)
  <2>1. /\ Land(s) /\ RecordWritten(s) /\ UNCHANGED <<entries, confirmed>>
        /\ phase[s] \in InFlight /\ file' = sealed[s]
    BY <1>16 DEF Rename, Land, InFlight, countVars, userVars
  <2> QED BY <1>3, <2>1, WrittenOnce
<1>17. CASE ReadBackFinds(s)
  <2>1. /\ RecordWritten(s) /\ UNCHANGED <<entries, confirmed, file, past>>
        /\ phase[s] \in InFlight /\ file.gen = sealed[s].gen
    BY <1>17 DEF ReadBackFinds, InFlight, countVars, userVars, diskVars
  <2>2. file = sealed[s]
    BY <2>1 DEF UpdateInv, GenerationsInv
  <2> QED BY <1>2, <2>1, <2>2, WrittenOnce
<1> QED
  BY <1>5, <1>6, <1>7, <1>8, <1>9, <1>10, <1>11, <1>12, <1>13, <1>14, <1>15,
     <1>16, <1>17 DEF CallStep

LEMMA CallerOnce ==
  ASSUME OnceContext, NEW s \in Sessions, CallerStep(s) \/ LockBusy(s) \/ Crash(s)
  PROVE  OnceInv'
<1> USE SessionTypes, QueueParts DEF OnceContext
<1>1. Alone(s) /\ QueueAlone(s) /\ LockAlone(s)
  BY CallerStepAlone, CallerQueueAlone, CallerLockAlone
<1>2. ASSUME CalmSession(s)' /\ NothingTaken(s), UNCHANGED <<file, past>>
      PROVE  OnceInv'
  BY <1>1, <1>2, OnceStep
<1>3. CalmSession(s) /\ confirmed[s] = NoConflict
  BY DEF OnceInv, CalmSession, SawFile
<1>4. CASE Open(s)
  <2>1. /\ phase[s] = "closed" /\ phase'[s] = "idle" /\ file # NoFile
        /\ mem'[s] = BodyOf(file) /\ known'[s] = KnownOf(file)
        /\ UNCHANGED <<goal, pending, carried, confirmed, file, past, entries>>
    BY <1>4 DEF Open, histVars, userVars, diskVars, countVars
  <2>2. /\ goal[s] = "tx" /\ carried[s] = <<>> /\ pending[s] = <<>>
    BY <1>3, <2>1 DEF DraftInv, QueueInv, CarriedInLog, NothingQueuedYet, Building,
       InFlight, CalmSession, HoldsNothing
  <2>3. mem'[s].log = file.log /\ known'[s].log = file.log /\ known'[s].gen # 0
    <3>1. file.gen # 0
      BY <2>1 DEF UpdateInv, GenerationsInv
    <3> QED BY <2>1, <3>1, ImageFields
  <2>4. OnlyLanded(s)'
    BY <2>1, <2>2, EmptySeq DEF OnlyLanded
  <2>5. Once(file.log) /\ Elems(file.log) \subseteq 1..entries
    BY DEF OnceInv
  <2>6. CalmSession(s)' /\ NothingTaken(s)
    BY <1>3, <2>1, <2>2, <2>3, <2>4, <2>5, OnceEmpty, RestedOnce
  <2> QED BY <1>2, <2>1, <2>6
<1>5. CASE Create(s)
  <2>1. /\ phase[s] = "closed" /\ phase'[s] = "acquire" /\ goal'[s] = "create"
        /\ mem'[s] = NewBody(seals + 1) /\ known'[s] = [NoKnown EXCEPT !.ver = 1]
        /\ UNCHANGED <<pending, carried, base, confirmed, file, past, entries>>
    BY <1>5 DEF Create, histVars, userVars, diskVars
  <2>2. /\ carried[s] = <<>> /\ pending[s] = <<>> /\ base[s] = NoFile
    BY <1>3, <2>1 DEF DraftInv, QueueInv, CarriedInLog, Building,
       InFlight, CalmSession, HoldsNothing
  <2>3. mem'[s].log = <<>> /\ known'[s].log = <<>>
    <3>1. known'[s].log = NoKnown.log
      BY <2>1, NothingTypes DEF Known
    <3> QED BY <2>1, <3>1, ImageFields DEF NewBody, NoKnown
  <2>4. HeldOnce(s)' /\ Held(s)' = {} /\ Unwritten(s)' = {}
    BY <2>1, <2>2, <2>3, OnceEmpty DEF HeldOnce, Held, Unwritten
  <2>5. HoldsLock(s)' /\ HoldsNothing(s)' /\ SawFile(s)' /\ OnBase(s)'
    BY <1>3, <2>1, <2>2, <2>3 DEF HoldsLock, HoldsNothing, SawFile, OnBase,
       Building, InFlight
  <2>6. OnlyLanded(s)'
    BY <2>1, <2>2, EmptySeq DEF OnlyLanded
  <2> QED BY <1>2, <2>1, <2>4, <2>5, <2>6 DEF CalmSession, NothingTaken
<1>6. CASE Close(s) \/ Crash(s)
  <2>1. /\ Forget(s) /\ UNCHANGED <<file, past>>
    BY <1>6 DEF Close, Crash, Forget, diskVars
  <2>2. /\ phase'[s] = "closed" /\ goal'[s] = "tx" /\ mem'[s] = NoBody
        /\ known'[s] = NoKnown /\ pending'[s] = <<>> /\ carried'[s] = <<>>
        /\ base'[s] = NoFile /\ confirmed'[s] = NoConflict
    BY <2>1 DEF Forget
  <2>3. mem'[s].log = <<>> /\ known'[s].log = <<>>
    BY <2>2, ImageFields DEF NoBody, NewBody, NoKnown
  <2> QED BY <1>2, <2>1, <2>2, <2>3, GoneOnce
<1>7. CASE QueueAudit(s) \/ QueueInside(s)
  BY <1>2, <1>7, QueuedOnce DEF QueueAudit, QueueInside, diskVars
<1>8. CASE ExamineConflict(s) \/ StartOverwrite(s)
  BY <1>3, <1>8, NothingToOverride DEF ExamineConflict, StartOverwrite
<1>9. CASE PreparePassword(s) \/ StartTransact(s)
  <2>1. /\ phase[s] = "idle" /\ phase'[s] \in {"idle", "acquire"}
        /\ goal'[s] \in {goal[s], "tx"}
        /\ UNCHANGED <<mem, known, pending, carried, unconf, confirmed, base,
                       file, entries, past>>
    BY <1>9 DEF PreparePassword, StartTransact, StartCall, bodyVars, userVars,
       diskVars, countVars, histVars
  <2>2. goal[s] = "tx"
    BY <2>1, NothingToOverride
  <2> QED BY <1>2, <1>3, <2>1, <2>2, WaitingOnce
<1>10. CASE LockBusy(s)
  <2>1. /\ Refuse(s) /\ UNCHANGED <<past, file, entries, confirmed>>
        /\ phase[s] = "acquire"
    BY <1>10 DEF LockBusy, histVars, userVars, countVars, diskVars
  <2> QED BY <1>2, <2>1, RefuseOnce
<1>11. CASE Refresh(s)
  <2>1. /\ phase[s] = "idle" /\ phase'[s] = "idle" /\ unconf'[s] = NoWrite
        /\ \/ /\ file.gen = known[s].gen /\ mem'[s] = mem[s]
              /\ known'[s] = known[s] /\ pending'[s] = pending[s]
           \/ /\ mem'[s] = BodyOf(file) /\ known'[s] = KnownOf(file)
              /\ pending'[s] = Settled(s, file)
        /\ UNCHANGED <<goal, carried, confirmed, file, entries, past>>
    BY <1>11 DEF Refresh, Adopt, histVars, userVars, diskVars, countVars
  <2>2. /\ goal[s] = "tx" /\ carried[s] = <<>> /\ file.gen # 0
        /\ file.gen = known[s].gen => /\ mem[s] = BodyOf(file)
                                      /\ known[s] = KnownOf(file)
    BY <2>1, NothingToOverride
  <2>3. /\ mem'[s].log = file.log /\ known'[s].log = file.log
        /\ known'[s].gen = file.gen
    BY <2>1, <2>2, ImageFields
  <2>4. /\ Once(pending'[s]) /\ Elems(pending'[s]) \subseteq Elems(pending[s])
        /\ Elems(pending'[s]) \cap Elems(file.log) = {}
    BY <2>1, QueueMetFile
  <2>5. /\ Once(file.log) /\ Elems(file.log) \subseteq 1..entries
        /\ Elems(pending[s]) \subseteq 1..entries
    BY <1>3 DEF OnceInv, CalmSession, Held
  <2>6. OnlyLanded(s)'
    BY <2>1, <2>4 DEF OnlyLanded, Elems
  <2>7. Elems(pending'[s]) \subseteq Unwritten(s)
    BY <2>4 DEF Unwritten
  <2>8. CalmSession(s)' /\ NothingTaken(s)
    BY <1>3, <2>1, <2>2, <2>3, <2>4, <2>5, <2>6, <2>7, RestedOnce
  <2> QED BY <1>2, <2>1, <2>8
<1> QED
  BY <1>4, <1>5, <1>6, <1>7, <1>8, <1>9, <1>10, <1>11 DEF CallerStep

LEMMA StepOnceInv ==
  ASSUME TypeOK, TypeOK', LockInv, Untampered, UpdateInv, MemoryInv, DraftInv,
         OnceInv, [Next]_vars
  PROVE  OnceInv'
<1>1. ASSUME NEW s \in Sessions, CallStep(s) PROVE OnceInv'
  <2>1. LockAlone(s)
    BY <1>1, CallStepLockAlone
  <2>2. CASE Calm
    BY <1>1, <2>2, CallStepOnce DEF OnceContext
  <2>3. CASE ~Calm
    BY <2>1, <2>3 DEF LockAlone, Calm, OnceInv
  <2> QED BY <2>2, <2>3
<1>2. ASSUME NEW s \in Sessions, CallerStep(s) \/ LockBusy(s) \/ Crash(s)
      PROVE  OnceInv'
  <2>1. LockAlone(s)
    BY <1>2, CallerLockAlone
  <2>2. CASE Calm
    BY <1>2, <2>2, CallerOnce DEF OnceContext
  <2>3. CASE ~Calm
    BY <2>1, <2>3 DEF LockAlone, Calm, OnceInv
  <2> QED BY <2>2, <2>3
<1>3. CASE RestoreOlderCopy \/ ReplaceVault \/ LockFileRemoved
  <2>1. \/ tampers' = tampers + 1 /\ interference' = interference
        \/ tampers' = tampers /\ interference' = interference + 1
    BY <1>3 DEF RestoreOlderCopy, ReplaceVault, LockFileRemoved, Interfere,
       RemoveLockFile, countVars, lockVars
  <2>2. tampers \in Nat /\ interference \in Nat
    BY DEF TypeOK, LockTypeOK, CountTypeOK
  <2>3. ~Calm'
    BY <2>1, <2>2 DEF Calm
  <2> QED BY <2>3 DEF OnceInv
<1>4. CASE UNCHANGED vars
  <2>1. UNCHANGED <<lk, tampers, interference, entries, phase, goal, mem, known,
                    base, sealed, confirmed, pending, carried, unconf, file, past>>
    BY <1>4 DEF vars, lockVars, countVars, bodyVars, userVars, diskVars, histVars
  <2>2. ASSUME Calm, NEW s \in Sessions
        PROVE  CalmSession(s)' /\ Unwritten(s)' = Unwritten(s)
    <3>1. CalmSession(s)
      BY <2>2 DEF OnceInv
    <3>2. HeldOnce(s)' /\ Unwritten(s)' = Unwritten(s) /\ Held(s)' \subseteq 1..entries'
      BY <2>1, <3>1, HeldSame DEF CalmSession
    <3>3. HoldsLock(s)' /\ HoldsNothing(s)' /\ SawFile(s)' /\ OnBase(s)'
      BY <2>1, <3>1 DEF CalmSession, HoldsLock, HoldsNothing, SawFile, OnBase
    <3>4. OnlyLanded(s)'
      BY <2>1, <3>1 DEF CalmSession, OnlyLanded, Elems, Continues
    <3> QED BY <3>2, <3>3, <3>4 DEF CalmSession
  <2>3. Calm' => Calm
    BY <2>1 DEF Calm
  <2>4. Calm => FileGrows' /\ Once(file.log)' /\ Elems(file.log)' \subseteq 1..entries'
    BY <2>1 DEF OnceInv, FileGrows, Once, Elems, Continues
  <2> QED BY <2>2, <2>3, <2>4 DEF OnceInv
<1> QED BY <1>1, <1>2, <1>3, <1>4 DEF Next

LEMMA InitOnceInv == Init => OnceInv
<1> SUFFICES ASSUME Init PROVE OnceInv
  OBVIOUS
<1>1. file.log = <<>> /\ past = {file} /\ file.ver \in Nat
  <2>1. FirstFile.log = <<>> /\ FirstFile.ver \in Nat
    BY DEF FirstFile, ImageOf, NewBody
  <2> QED BY <2>1, ImageFields DEF Init
<1>2. ASSUME NEW s \in Sessions
      PROVE  /\ phase[s] = "closed" /\ goal[s] = "tx" /\ mem[s].log = <<>>
             /\ known[s].log = <<>> /\ pending[s] = <<>> /\ carried[s] = <<>>
             /\ base[s] = NoFile /\ confirmed[s] = NoConflict
  BY ImageFields DEF Init, NoBody, NewBody, NoKnown
<1>3. ASSUME NEW s \in Sessions PROVE CalmSession(s) /\ Unwritten(s) = {}
  <2>1. HeldOnce(s) /\ Held(s) = {} /\ Unwritten(s) = {}
    BY <1>2, OnceEmpty DEF HeldOnce, Held, Unwritten
  <2>2. HoldsLock(s) /\ HoldsNothing(s) /\ SawFile(s) /\ OnBase(s)
    BY <1>2 DEF HoldsLock, HoldsNothing, SawFile, OnBase, Building, InFlight
  <2>3. OnlyLanded(s)
    BY <1>2, EmptySeq DEF OnlyLanded
  <2> QED BY <2>1, <2>2, <2>3 DEF CalmSession
<1>4. FileGrows
  <2>1. Continues(file.log, file.log)
    BY <1>1, ContinuesItself, NothingTypes
  <2>2. file.ver <= file.ver
    BY <1>1
  <2> QED BY <1>1, <2>1, <2>2 DEF FileGrows
<1>5. Once(file.log) /\ Elems(file.log) \subseteq 1..entries
  BY <1>1, OnceEmpty
<1> QED BY <1>3, <1>4, <1>5 DEF OnceInv

(* No audit entry is chained twice, whatever fails, crashes or loses its   *)
(* reply, as long as no other program replaced the vault file or took its  *)
(* lock file away: a write whose outcome was unknown is settled before its *)
(* drafts go out again (settle_unconfirmed in vault/mod.rs).               *)
THEOREM DraftsChainedOnce == Spec => [](Calm => DraftsWrittenOnce)
<1>1. TypeOK /\ TypeOK' /\ LockInv /\ Untampered /\ UpdateInv /\ MemoryInv
        /\ DraftInv /\ OnceInv /\ [Next]_vars => OnceInv'
  BY StepOnceInv
<1>2. OnceInv => (Calm => DraftsWrittenOnce)
  BY DEF OnceInv, Once, DraftsWrittenOnce
<1> QED BY <1>1, <1>2, InitOnceInv, TypeCorrectness, VaultLockInv, AlwaysUntampered,
           UpdateInvariant, MemoryInvariant, DraftInvariant, PTL DEF Spec
=============================================================================
