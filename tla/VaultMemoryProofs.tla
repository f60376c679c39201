--------------------------- MODULE VaultMemoryProofs ---------------------------
(***************************************************************************)
(* Proofs about what a session holds in memory of the vault file: that it  *)
(* was on disk, that what it knows never goes backwards, that a write      *)
(* keeps what has no other copy, that a password change saw the slot it    *)
(* replaces, and that no live temporary is swept.                          *)
(***************************************************************************)
EXTENDS VaultFileProofs

\* From the read under the lock to the end of the call.
Building == {"closure", "commit"} \cup InFlight

\* A body and what is known of the file, as one image on disk had them.
Committed(m, k) == \E f \in past : m = BodyOf(f) /\ k = KnownOf(f)

\* Between calls, and until a call has read the file, memory is an image.
Settles(s) ==
  phase[s] = "idle" \/ (phase[s] = "acquire" /\ goal[s] # "create") =>
    Committed(mem[s], known[s])

\* A call that fails finds what to go back to: a transaction its base, an
\* overwrite the session as it was.
Restores(s) ==
  phase[s] \in Building =>
    /\ phase[s] = "closure" => goal[s] = "tx"
    /\ goal[s] = "tx" => base[s] \in past /\ known[s] = KnownOf(base[s])
    /\ goal[s] = "overwrite" => /\ Committed(undo[s].mem, undo[s].known)
                                /\ known[s].log = undo[s].known.log

\* What is built, and then what is written, continues what is known.
Descends(s) ==
  /\ phase[s] \in {"acquire", "closure", "commit"} =>
       Continues(known[s].log, mem[s].log)
  /\ phase[s] \in InFlight => /\ mem[s] = BodyOf(sealed[s])
                              /\ Continues(known[s].log, sealed[s].log)
                              /\ known[s].ver <= sealed[s].ver

\* The closure runs on the slot that was read.
KeepsSlot(s) == phase[s] = "closure" => mem[s].slot = base[s].slot

\* A body of the same vault has what has no other copy.
Keeps(f, b, ver) ==
  f.vid = b.vid => /\ f.ver <= ver
                   /\ f.retired \subseteq b.retired
                   /\ f.devices \ b.retired \subseteq b.devices

KeepsDevices(s) == phase[s] \in Building => Keeps(base[s], mem[s], known[s].ver)

\* A retired device key is gone.
RetiredGone(b) == b.devices \cap b.retired = {}

SessionInv(s) ==
  /\ Settles(s)
  /\ Restores(s)
  /\ Descends(s)
  /\ KeepsSlot(s)
  /\ KeepsDevices(s)
  /\ RetiredGone(mem[s])

MemoryInv == /\ \A s \in Sessions : SessionInv(s)
             /\ \A f \in past : RetiredGone(f)
-----------------------------------------------------------------------------
(* What a step of s, or of another, may leave s with.                      *)

\* Everything a session works with is as it was, or its write moved on.
Untouched(s) ==
  /\ goal'[s] = goal[s] /\ mem'[s] = mem[s] /\ known'[s] = known[s]
  /\ base'[s] = base[s] /\ undo'[s] = undo[s] /\ sealed'[s] = sealed[s]
  /\ past \subseteq past'
  /\ phase'[s] = phase[s] \/ (phase[s] \in InFlight /\ phase'[s] \in InFlight)

LEMMA UntouchedInv ==
  ASSUME NEW s \in Sessions, SessionInv(s), Untouched(s)
  PROVE  SessionInv(s)'
<1> USE DEF Untouched, SessionInv, InFlight, Building
<1>1. Settles(s)'
  BY DEF Settles, Committed
<1>2. Restores(s)'
  BY DEF Restores, Committed
<1>3. Descends(s)'
  BY DEF Descends
<1>4. KeepsSlot(s)' /\ KeepsDevices(s)' /\ RetiredGone(mem[s])'
  BY DEF KeepsSlot, KeepsDevices, Keeps, RetiredGone
<1> QED BY <1>1, <1>2, <1>3, <1>4

\* It is gone.
LEMMA GoneInv ==
  ASSUME NEW s \in Sessions, phase'[s] = "closed", mem'[s] = NoBody
  PROVE  SessionInv(s)'
BY DEF SessionInv, Settles, Restores, Descends, KeepsSlot, KeepsDevices,
   RetiredGone, NoBody, NewBody, Building, InFlight

\* It is between calls, with an image that was on disk.
LEMMA RestedInv ==
  ASSUME NEW s \in Sessions, phase'[s] = "idle",
         NEW f \in past', RetiredGone(f),
         mem'[s] = BodyOf(f), known'[s] = KnownOf(f)
  PROVE  SessionInv(s)'
<1>1. RetiredGone(mem[s])'
  BY DEF RetiredGone, BodyOf
<1>2. Settles(s)'
  BY DEF Settles, Committed
<1> QED
  BY <1>1, <1>2 DEF SessionInv, Restores, Descends, KeepsSlot, KeepsDevices,
     Building, InFlight

\* The others are untouched.
LEMMA OwnStepInv ==
  ASSUME MemoryInv, NEW s \in Sessions, Alone(s), SessionInv(s)',
         past \subseteq past', \A f \in past' : RetiredGone(f)
  PROVE  MemoryInv'
<1>1. ASSUME NEW t \in Sessions, t # s PROVE SessionInv(t)'
  <2>1. Untouched(t)
    BY <1>1 DEF Alone, Untouched
  <2> QED BY <2>1, UntouchedInv DEF MemoryInv
<1>2. (\A f \in past : RetiredGone(f))'
  BY DEF RetiredGone
<1> QED BY <1>1, <1>2 DEF MemoryInv

\* A step that adds no image.
LEMMA NoImageInv ==
  ASSUME MemoryInv, NEW s \in Sessions, Alone(s), SessionInv(s)',
         UNCHANGED past
  PROVE  MemoryInv'
<1>1. past \subseteq past' /\ \A f \in past' : RetiredGone(f)
  BY DEF MemoryInv
<1> QED BY <1>1, OwnStepInv

\* A log continues itself.
LEMMA ContinuesItself ==
  ASSUME NEW q \in Seq(Entry)
  PROVE  Continues(q, q)
BY LenProperties DEF Continues

\* What is put in memory, and what it is put there from.
LEMMA ImageFields ==
  /\ \A f : /\ BodyOf(f).vid = f.vid /\ BodyOf(f).slot = f.slot
            /\ BodyOf(f).log = f.log /\ BodyOf(f).devices = f.devices
            /\ BodyOf(f).retired = f.retired
            /\ KnownOf(f).gen = f.gen /\ KnownOf(f).ver = f.ver
            /\ KnownOf(f).log = f.log
  /\ NoFile.vid = 0 /\ NoFile.ver = 0 /\ NoFile.log = <<>>
  /\ NoFile.devices = {} /\ NoFile.retired = {} /\ NoFile.gen = 0
  /\ NoBody.devices = {} /\ NoBody.retired = {}
BY DEF BodyOf, KnownOf, NoFile, NoBody, ImageOf, NewBody

-----------------------------------------------------------------------------
(* The ends of calls.                                                      *)

\* What a session holds before its call has read the file.
LEMMA RefuseInv ==
  ASSUME TypeOK, MemoryInv, NEW s \in Sessions, Alone(s), Refuse(s),
         UNCHANGED past, phase[s] = "acquire" \/ goal[s] = "create"
  PROVE  MemoryInv'
<1> USE SessionTypes
<1>1. CASE goal[s] = "create"
  <2>1. phase'[s] = "closed" /\ mem'[s] = NoBody
    BY <1>1 DEF Refuse, EndCall
  <2> QED BY <2>1, GoneInv, NoImageInv
<1>2. CASE goal[s] # "create"
  <2>1. phase'[s] = "idle" /\ mem'[s] = mem[s] /\ known'[s] = known[s]
    BY <1>2 DEF Refuse, EndCall
  <2>2. PICK f \in past : mem[s] = BodyOf(f) /\ known[s] = KnownOf(f)
    BY <1>2 DEF MemoryInv, SessionInv, Settles, Committed
  <2>3. RetiredGone(f)
    BY DEF MemoryInv
  <2> QED BY <2>1, <2>2, <2>3, RestedInv, NoImageInv
<1> QED BY <1>1, <1>2

\* A transaction rolled back, and an overwrite undone.
LEMMA RollBackInv ==
  ASSUME TypeOK, MemoryInv, NEW s \in Sessions, Alone(s), UNCHANGED past,
         phase[s] \in Building, goal[s] = "tx", RollBack(s), EndCall(s, "idle")
  PROVE  MemoryInv'
<1>1. /\ phase'[s] = "idle" /\ mem'[s] = BodyOf(base[s])
      /\ known'[s] = KnownOf(base[s])
  BY SessionTypes DEF RollBack, EndCall
<1>2. base[s] \in past /\ RetiredGone(base[s])
  BY DEF MemoryInv, SessionInv, Restores
<1> QED BY <1>1, <1>2, RestedInv, NoImageInv

LEMMA RestoreSessionInv ==
  ASSUME TypeOK, MemoryInv, NEW s \in Sessions, Alone(s), UNCHANGED past,
         phase[s] \in Building, goal[s] = "overwrite", RestoreSession(s),
         EndCall(s, "idle")
  PROVE  MemoryInv'
<1>1. /\ phase'[s] = "idle" /\ mem'[s] = undo[s].mem
      /\ known'[s] = undo[s].known
  BY SessionTypes DEF RestoreSession, EndCall
<1>2. PICK f \in past : undo[s].mem = BodyOf(f) /\ undo[s].known = KnownOf(f)
  BY DEF MemoryInv, SessionInv, Restores, Committed
<1>3. RetiredGone(f)
  BY DEF MemoryInv
<1> QED BY <1>1, <1>2, <1>3, RestedInv, NoImageInv

LEMMA BackOutInv ==
  ASSUME TypeOK, MemoryInv, NEW s \in Sessions, Alone(s), UNCHANGED past,
         phase[s] \in Building, goal[s] # "create", BackOut(s)
  PROVE  MemoryInv'
<1>1. goal[s] \in {"tx", "overwrite"}
  BY SessionTypes DEF Goals
<1> QED BY <1>1, RollBackInv, RestoreSessionInv DEF BackOut

\* A write that landed.
LEMMA RecordWrittenInv ==
  ASSUME TypeOK, MemoryInv, NEW s \in Sessions, Alone(s),
         past \subseteq past', past' \subseteq past \cup {sealed[s]},
         sealed[s] \in past', phase[s] \in InFlight, RecordWritten(s)
  PROVE  MemoryInv'
<1>1. /\ phase'[s] = "idle" /\ mem'[s] = mem[s]
      /\ known'[s] = KnownOf(sealed[s])
  BY SessionTypes DEF RecordWritten, EndCall
<1>2. mem[s] = BodyOf(sealed[s]) /\ RetiredGone(mem[s])
  BY DEF MemoryInv, SessionInv, Descends
<1>3. RetiredGone(sealed[s])
  BY <1>2, ImageFields DEF RetiredGone
<1>4. \A f \in past' : RetiredGone(f)
  BY <1>3 DEF MemoryInv
<1>5. SessionInv(s)'
  BY <1>1, <1>2, <1>3, RestedInv
<1> QED BY <1>4, <1>5, OwnStepInv
-----------------------------------------------------------------------------
(* The beginnings of calls.                                                *)

LEMMA CreateInv ==
  ASSUME TypeOK, MemoryInv, NEW s \in Sessions, Alone(s), Create(s)
  PROVE  MemoryInv'
<1> USE SessionTypes
<1>1. /\ phase'[s] = "acquire" /\ goal'[s] = "create" /\ UNCHANGED past
      /\ mem'[s] = NewBody(seals + 1) /\ known'[s] = [NoKnown EXCEPT !.ver = 1]
  BY DEF Create, histVars
<1>2. /\ mem'[s].log = <<>> /\ mem'[s].devices = {}
      /\ known'[s].log = <<>>
  <2>1. known'[s].log = NoKnown.log
    BY <1>1, NothingTypes DEF Known
  <2> QED BY <1>1, <2>1, ImageFields DEF NewBody, NoKnown
<1>3. Descends(s)'
  <2>1. Continues(<<>>, <<>>)
    BY ContinuesItself, NothingTypes
  <2> QED BY <1>1, <1>2, <2>1 DEF Descends, InFlight
<1>4. SessionInv(s)'
  BY <1>1, <1>2, <1>3 DEF SessionInv, Settles, Restores, KeepsSlot,
     KeepsDevices, RetiredGone, Building, InFlight
<1> QED BY <1>1, <1>4, NoImageInv

LEMMA StartCallInv ==
  ASSUME TypeOK, MemoryInv, NEW s \in Sessions, Alone(s),
         NEW call \in {"tx", "overwrite"}, StartCall(s, call)
  PROVE  MemoryInv'
<1> USE SessionTypes
<1>1. /\ phase[s] = "idle" /\ phase'[s] = "acquire" /\ UNCHANGED past
      /\ mem'[s] = mem[s] /\ known'[s] = known[s]
  BY DEF StartCall, histVars, bodyVars
<1>2. PICK f \in past : mem[s] = BodyOf(f) /\ known[s] = KnownOf(f)
  BY <1>1 DEF MemoryInv, SessionInv, Settles, Committed
<1>3. Continues(known[s].log, mem[s].log)
  <2>1. known[s].log = f.log /\ mem[s].log = f.log /\ mem[s].log \in Seq(Entry)
    BY <1>2, ImageFields DEF Body
  <2> QED BY <2>1, ContinuesItself
<1>4. Settles(s)' /\ RetiredGone(mem[s])'
  BY <1>1, <1>2 DEF Settles, Committed, MemoryInv, SessionInv, RetiredGone
<1>5. SessionInv(s)'
  BY <1>1, <1>3, <1>4 DEF SessionInv, Restores, Descends, KeepsSlot,
     KeepsDevices, Building, InFlight
<1> QED BY <1>1, <1>5, NoImageInv

\* Catching up makes memory the file, and the drafts follow what it holds.
LEMMA CatchUpReads ==
  ASSUME TypeOK, UpdateInv, MemoryInv, NEW s \in Sessions, CatchUp(s)
  PROVE  /\ base'[s] = file /\ known'[s] = KnownOf(file)
         /\ \E queue \in Seq(Entry) :
              mem'[s] = [BodyOf(file) EXCEPT !.log = file.log \o queue]
<1> USE SessionTypes
<1>1. CASE file.gen = known[s].gen
  <2>1. PICK f \in past : mem[s] = BodyOf(f) /\ known[s] = KnownOf(f)
    BY DEF CatchUp, MemoryInv, SessionInv, Settles, Committed
  <2>2. f = file
    BY <1>1, <2>1, ImageFields DEF UpdateInv, GenerationsInv
  <2>3. known[s].log = file.log
    BY <2>1, <2>2, ImageFields
  <2>4. /\ base'[s] = file /\ known'[s] = known[s]
        /\ mem'[s] = [mem[s] EXCEPT !.log = known[s].log \o Requeued(s)]
    BY <1>1 DEF CatchUp
  <2> QED BY <2>1, <2>2, <2>3, <2>4, QueueTypes
<1>2. CASE file.gen # known[s].gen
  <2>1. /\ base'[s] = file /\ known'[s] = KnownOf(file)
        /\ mem'[s] = [BodyOf(file) EXCEPT !.log = KnownOf(file).log \o Settled(s, file)]
    BY <1>2 DEF CatchUp
  <2> QED BY ZenonT(60), <2>1, QueueTypes, ImageFields
<1> QED BY <1>1, <1>2

LEMMA CatchUpInv ==
  ASSUME TypeOK, UpdateInv, MemoryInv, NEW s \in Sessions, Alone(s), CatchUp(s)
  PROVE  MemoryInv'
<1> USE SessionTypes
<1>1. PICK queue \in Seq(Entry) :
        mem'[s] = [BodyOf(file) EXCEPT !.log = file.log \o queue]
  BY CatchUpReads
<1>2. base'[s] = file /\ known'[s] = KnownOf(file)
  BY CatchUpReads
<1>3. /\ phase'[s] = "closure" /\ goal'[s] = "tx" /\ UNCHANGED past
      /\ file \in past /\ file \in Image
  BY DEF CatchUp, histVars, UpdateInv, GenerationsInv, TypeOK, DiskTypeOK
<1>4. /\ mem'[s].log = file.log \o queue
      /\ mem'[s].slot = file.slot /\ mem'[s].vid = file.vid
      /\ mem'[s].devices = file.devices /\ mem'[s].retired = file.retired
  BY <1>1 DEF BodyOf
<1>5. Continues(known'[s].log, mem'[s].log)
  <2>1. file.log \in Seq(Entry)
    BY <1>3 DEF Image
  <2> QED BY <1>2, <1>4, <2>1, ContinuesItself, ContinuesConcat, ImageFields
<1>6. RetiredGone(mem[s])'
  BY <1>3, <1>4 DEF MemoryInv, RetiredGone
<1>7. Keeps(base'[s], mem'[s], known'[s].ver)
  BY SMTT(40), <1>2, <1>3, <1>4, ImageFields DEF Keeps, Image
<1>8. Restores(s)' /\ Settles(s)'
  BY <1>2, <1>3 DEF Restores, Settles
<1>9. KeepsSlot(s)' /\ KeepsDevices(s)' /\ Descends(s)'
  BY <1>2, <1>3, <1>4, <1>5, <1>7 DEF KeepsSlot, KeepsDevices, Descends, InFlight
<1>10. SessionInv(s)'
  BY <1>6, <1>8, <1>9 DEF SessionInv
<1> QED BY <1>3, <1>10, NoImageInv
\* An overwrite starts from an image, and takes over from the file it is to
\* replace what only that has.
LEMMA OverwriteExamineInv ==
  ASSUME TypeOK, MemoryInv, NEW s \in Sessions, Alone(s), OverwriteExamine(s)
  PROVE  MemoryInv'
<1> USE SessionTypes
<1> DEFINE other == IF confirmed[s].kind = "diverged" THEN file ELSE NoFile
           log   == Append(mem[s].log \o pending[s], entries + 1)
           ver   == IF other.ver > known[s].ver THEN other.ver ELSE known[s].ver
<1>1. /\ phase[s] = "acquire" /\ goal[s] = "overwrite" /\ UNCHANGED past
      /\ phase'[s] = "commit" /\ goal'[s] = "overwrite" /\ base'[s] = file
      /\ undo'[s] = [mem |-> mem[s], known |-> known[s]]
      /\ AsConfirmed(s)
  BY DEF OverwriteExamine, histVars
<1>2. /\ mem'[s].vid = mem[s].vid /\ mem'[s].log = log
      /\ mem'[s].devices = MergedDevices(s, other)
      /\ mem'[s].retired = MergedRetired(s, other)
  <2>1. mem'[s] = [mem[s] EXCEPT !.devices = MergedDevices(s, other),
                                 !.retired = MergedRetired(s, other),
                                 !.log = log]
    BY DEF OverwriteExamine
  <2>2. mem[s] \in Body
    OBVIOUS
  <2> HIDE DEF other, log
  <2> QED BY <2>1, <2>2 DEF Body
<1>3. known'[s].log = known[s].log /\ known'[s].ver = ver
  <2>1. known'[s] = [known[s] EXCEPT !.ver = ver]
    BY DEF OverwriteExamine
  <2> QED BY <2>1 DEF Known
<1>4. PICK f \in past : mem[s] = BodyOf(f) /\ known[s] = KnownOf(f)
  BY <1>1 DEF MemoryInv, SessionInv, Settles, Committed
<1>5. Restores(s)'
  <2>1. Committed(mem[s], known[s])
    BY <1>4 DEF Committed
  <2>2. Committed(undo[s].mem, undo[s].known)'
    BY <1>1, <2>1 DEF Committed
  <2> QED BY <1>1, <1>3, <2>2 DEF Restores
<1>6. Continues(known'[s].log, mem'[s].log)
  <2>1. /\ mem[s].log \in Seq(Entry) /\ pending[s] \in Seq(Entry)
        /\ entries + 1 \in Entry
    BY DEF Body, TypeOK, MemoryTypeOK, CountTypeOK, Entry
  <2>2. known[s].log = mem[s].log
    BY <1>4, ImageFields
  <2>3. Continues(known[s].log, mem[s].log \o pending[s])
    BY <2>1, <2>2, ContinuesItself, ContinuesConcat
  <2>4. mem[s].log \o pending[s] \in Seq(Entry)
    BY <2>1, LogTypes
  <2> QED BY <1>2, <1>3, <2>1, <2>2, <2>3, <2>4, ContinuesAppend
<1>7. RetiredGone(mem[s])'
  BY <1>2 DEF RetiredGone, MergedDevices
<1>8. Keeps(base'[s], mem'[s], known'[s].ver)
  <2>1. file.ver \in Nat /\ known[s].ver \in Nat
    BY DEF TypeOK, DiskTypeOK, Image, Known
  <2>2. confirmed[s].kind \in {"missing", "replaced", "diverged"}
    BY <1>1 DEF AsConfirmed, ConflictWith, NoConflict
  <2>3. CASE confirmed[s].kind = "diverged"
    BY <1>1, <1>2, <1>3, <2>1, <2>3 DEF Keeps, MergedDevices, MergedRetired
  <2>4. CASE confirmed[s].kind = "missing"
    <3>1. file = NoFile
      BY <1>1, <2>4 DEF AsConfirmed, ConflictWith, NoConflict
    <3> QED BY <1>1, <1>3, <2>1, <2>4, <3>1, ImageFields DEF Keeps
  <2>5. CASE confirmed[s].kind = "replaced"
    <3>1. file.vid # mem[s].vid
      BY <1>1, <2>5 DEF AsConfirmed, ConflictWith, NoConflict, Opens
    <3> QED BY <1>1, <1>2, <3>1 DEF Keeps
  <2> QED BY <2>2, <2>3, <2>4, <2>5
<1>9. Settles(s)' /\ KeepsSlot(s)' /\ KeepsDevices(s)' /\ Descends(s)'
  BY <1>1, <1>6, <1>8 DEF Settles, KeepsSlot, KeepsDevices, Descends, InFlight
<1>10. SessionInv(s)'
  BY <1>5, <1>7, <1>9 DEF SessionInv
<1> QED BY <1>1, <1>10, NoImageInv

LEMMA CreateNewFileInv ==
  ASSUME TypeOK, WindowInv, MemoryInv, NEW s \in Sessions, Alone(s),
         CreateNewFile(s)
  PROVE  MemoryInv'
<1> USE SessionTypes
<1>1. /\ phase[s] = "acquire" /\ goal[s] = "create" /\ UNCHANGED past
      /\ phase'[s] = "commit" /\ goal'[s] = "create"
      /\ mem'[s] = mem[s] /\ known'[s] = known[s] /\ base'[s] = base[s]
  BY DEF CreateNewFile, histVars, bodyVars
<1>2. base[s] = NoFile
  BY <1>1 DEF WindowInv, NoBaseOutsideCall
<1>3. Keeps(base'[s], mem'[s], known'[s].ver)
  <2>1. known[s].ver \in Nat
    BY DEF Known
  <2> QED BY <1>1, <1>2, <2>1, ImageFields DEF Keeps
<1>4. Descends(s)' /\ RetiredGone(mem[s])'
  BY <1>1 DEF MemoryInv, SessionInv, Descends, InFlight, RetiredGone
<1>5. SessionInv(s)'
  BY <1>1, <1>3, <1>4 DEF SessionInv, Settles, Restores, KeepsSlot, KeepsDevices
<1> QED BY <1>1, <1>5, NoImageInv

-----------------------------------------------------------------------------
(* The closure and the commit.                                             *)

\* What a closure makes of the body it was given.
LEMMA ClosureEdits ==
  ASSUME TypeOK, MemoryInv, NEW s \in Sessions,
         \/ Flush(s) \/ Edit(s) \/ InstallPassword(s)
         \/ (\E d \in DeviceIds : AddDeviceKey(s, d) \/ RemoveDeviceKey(s, d))
  PROVE  \E body \in Body, own \in {0, 1} :
           /\ Closure(s, body, own)
           /\ body.log = mem[s].log /\ body.vid = mem[s].vid
           /\ body.slot = mem[s].slot \/ prep[s] = mem[s].slot + 1
           /\ mem[s].retired \subseteq body.retired
           /\ mem[s].devices \ body.retired \subseteq body.devices
           /\ RetiredGone(body)
<1>1. mem[s] \in Body /\ RetiredGone(mem[s]) /\ entries + 1 \in Nat
  BY SessionTypes DEF MemoryInv, SessionInv, TypeOK, CountTypeOK
<1>2. CASE Flush(s) \/ Edit(s)
  BY <1>1, <1>2 DEF Flush, Edit
<1>3. CASE InstallPassword(s)
  <2> DEFINE body == [mem[s] EXCEPT !.slot = entries + 1]
  <2>1. Closure(s, body, 1) /\ prep[s] = mem[s].slot + 1
    BY <1>3 DEF InstallPassword
  <2>2. /\ body \in Body /\ body.log = mem[s].log /\ body.vid = mem[s].vid
        /\ body.retired = mem[s].retired /\ body.devices = mem[s].devices
    BY <1>1 DEF Body
  <2>3. RetiredGone(body)
    BY <1>1, <2>2 DEF RetiredGone
  <2> HIDE DEF body
  <2> QED BY <2>1, <2>2, <2>3
<1>4. ASSUME NEW d \in DeviceIds, AddDeviceKey(s, d)
      PROVE  \E body \in Body : /\ Closure(s, body, 1)
                                /\ body.log = mem[s].log /\ body.vid = mem[s].vid
                                /\ body.slot = mem[s].slot
                                /\ mem[s].retired \subseteq body.retired
                                /\ mem[s].devices \ body.retired \subseteq body.devices
                                /\ RetiredGone(body)
  <2> DEFINE body == [mem[s] EXCEPT !.devices = @ \cup {d}]
  <2>1. Closure(s, body, 1) /\ d \notin mem[s].retired
    BY <1>4 DEF AddDeviceKey
  <2>2. /\ body \in Body /\ body.log = mem[s].log /\ body.vid = mem[s].vid
        /\ body.slot = mem[s].slot
        /\ body.retired = mem[s].retired
        /\ body.devices = mem[s].devices \cup {d}
    BY <1>1 DEF Body
  <2>3. RetiredGone(body)
    BY <1>1, <2>1, <2>2 DEF RetiredGone
  <2> HIDE DEF body
  <2> QED BY <2>1, <2>2, <2>3
<1>5. ASSUME NEW d \in DeviceIds, RemoveDeviceKey(s, d)
      PROVE  \E body \in Body : /\ Closure(s, body, 1)
                                /\ body.log = mem[s].log /\ body.vid = mem[s].vid
                                /\ body.slot = mem[s].slot
                                /\ mem[s].retired \subseteq body.retired
                                /\ mem[s].devices \ body.retired \subseteq body.devices
                                /\ RetiredGone(body)
  <2> DEFINE body == [mem[s] EXCEPT !.devices = @ \ {d}, !.retired = @ \cup {d}]
  <2>1. Closure(s, body, 1)
    BY <1>5 DEF RemoveDeviceKey
  <2>2. /\ body \in Body /\ body.log = mem[s].log /\ body.vid = mem[s].vid
        /\ body.slot = mem[s].slot
        /\ body.retired = mem[s].retired \cup {d}
        /\ body.devices = mem[s].devices \ {d}
    BY <1>1 DEF Body
  <2>3. RetiredGone(body)
    BY <1>1, <2>2 DEF RetiredGone
  <2> HIDE DEF body
  <2> QED BY <2>1, <2>2, <2>3
<1> QED BY <1>2, <1>3, <1>4, <1>5

LEMMA ClosureInv ==
  ASSUME TypeOK, MemoryInv, NEW s \in Sessions, Alone(s),
         \/ Flush(s) \/ Edit(s) \/ InstallPassword(s)
         \/ (\E d \in DeviceIds : AddDeviceKey(s, d) \/ RemoveDeviceKey(s, d))
  PROVE  MemoryInv'
<1> USE SessionTypes
<1>1. PICK body \in Body, own \in {0, 1} :
        /\ Closure(s, body, own)
        /\ body.log = mem[s].log /\ body.vid = mem[s].vid
        /\ mem[s].retired \subseteq body.retired
        /\ mem[s].devices \ body.retired \subseteq body.devices
        /\ RetiredGone(body)
  BY ClosureEdits
<1>2. /\ phase[s] = "closure" /\ phase'[s] = "commit" /\ UNCHANGED past
      /\ goal'[s] = goal[s] /\ known'[s] = known[s] /\ base'[s] = base[s]
      /\ undo'[s] = undo[s]
  BY <1>1 DEF Closure, histVars
<1>3. /\ mem'[s].vid = body.vid /\ mem'[s].retired = body.retired
      /\ mem'[s].devices = body.devices
      /\ mem'[s].log = body.log \/ mem'[s].log = Append(body.log, entries + 1)
  <2>1. CASE own = 0
    BY <1>1, <2>1 DEF Closure
  <2>2. CASE own # 0
    <3>1. mem'[s] = [body EXCEPT !.log = Append(body.log, entries + 1)]
      BY <1>1, <2>2 DEF Closure
    <3> QED BY <3>1 DEF Body
  <2> QED BY <2>1, <2>2
<1>4. Continues(known'[s].log, mem'[s].log)
  <2>1. /\ known[s].log \in Seq(Entry) /\ mem[s].log \in Seq(Entry)
        /\ entries + 1 \in Entry
    BY DEF Known, Body, TypeOK, CountTypeOK, Entry
  <2>2. Continues(known[s].log, mem[s].log)
    BY <1>2 DEF MemoryInv, SessionInv, Descends
  <2> QED BY <1>1, <1>2, <1>3, <2>1, <2>2, ContinuesAppend
<1>5. Keeps(base'[s], mem'[s], known'[s].ver)
  <2>1. Keeps(base[s], mem[s], known[s].ver)
    BY <1>2 DEF MemoryInv, SessionInv, KeepsDevices, Building
  <2> QED BY <1>1, <1>2, <1>3, <2>1 DEF Keeps
<1>6. RetiredGone(mem[s])'
  BY <1>1, <1>3 DEF RetiredGone
<1>7. Restores(s)'
  BY <1>2 DEF MemoryInv, SessionInv, Restores, Committed, Building
<1>8. Settles(s)' /\ KeepsSlot(s)' /\ KeepsDevices(s)' /\ Descends(s)'
  BY <1>2, <1>4, <1>5 DEF Settles, KeepsSlot, KeepsDevices, Descends, InFlight
<1>9. SessionInv(s)'
  BY <1>6, <1>7, <1>8 DEF SessionInv
<1> QED BY <1>2, <1>9, NoImageInv

LEMMA ImageOfBody ==
  ASSUME NEW b \in Body, NEW gen, NEW ver
  PROVE  BodyOf(ImageOf(b, gen, ver)) = b
<1>1. b = [vid |-> b.vid, slot |-> b.slot, log |-> b.log,
           devices |-> b.devices, retired |-> b.retired]
  BY DEF Body
<1> QED BY <1>1 DEF BodyOf, ImageOf

\* A sealed image is the body in memory, of no lower a version than known.
LEMMA CommitInv ==
  ASSUME TypeOK, MemoryInv, NEW s \in Sessions, Alone(s), Commit(s)
  PROVE  MemoryInv'
<1> USE SessionTypes
<1> DEFINE log  == mem[s].log \o pending[s]
           body == [mem[s] EXCEPT !.log = log]
<1>1. /\ phase[s] = "commit" /\ phase'[s] \in InFlight /\ UNCHANGED past
      /\ goal'[s] = goal[s] /\ known'[s] = known[s] /\ base'[s] = base[s]
      /\ undo'[s] = undo[s]
      /\ mem'[s] = body
      /\ sealed'[s] = ImageOf(body, seals + 1, VersionToWrite(s))
  BY DEF Commit, histVars, InFlight
<1>2. mem[s].log \in Seq(Entry) /\ pending[s] \in Seq(Entry) /\ log \in Seq(Entry)
  BY LogTypes DEF Body, TypeOK, MemoryTypeOK
<1>3. /\ body.vid = mem[s].vid /\ body.log = log
      /\ body.retired = mem[s].retired /\ body.devices = mem[s].devices
      /\ body \in Body
  BY <1>2 DEF Body
<1> HIDE DEF body
<1>4. mem'[s] = BodyOf(sealed'[s])
  BY <1>1, <1>3, ImageOfBody
<1>5. Continues(known'[s].log, sealed'[s].log)
  <2>1. known[s].log \in Seq(Entry) /\ Continues(known[s].log, mem[s].log)
    BY <1>1 DEF MemoryInv, SessionInv, Descends, Known
  <2> QED BY <1>1, <1>2, <1>3, <2>1, ContinuesConcat DEF ImageOf
<1>6. known'[s].ver <= sealed'[s].ver
  BY <1>1 DEF ImageOf, VersionToWrite, Known
<1>7. Keeps(base'[s], mem'[s], known'[s].ver) /\ RetiredGone(mem[s])'
  BY <1>1, <1>3 DEF MemoryInv, SessionInv, KeepsDevices, Keeps, RetiredGone, Building
<1>8. Restores(s)'
  BY <1>1 DEF MemoryInv, SessionInv, Restores, Committed, Building, InFlight
<1>9. Settles(s)' /\ KeepsSlot(s)' /\ KeepsDevices(s)' /\ Descends(s)'
  BY <1>1, <1>4, <1>5, <1>6, <1>7 DEF Settles, KeepsSlot, KeepsDevices, Descends, InFlight
<1>10. SessionInv(s)'
  BY <1>7, <1>8, <1>9 DEF SessionInv
<1> QED BY <1>1, <1>10, NoImageInv
-----------------------------------------------------------------------------
(* The invariant, one action at a time.                                    *)

LEMMA UntouchedStep ==
  ASSUME MemoryInv, NEW s \in Sessions, Alone(s), Untouched(s), UNCHANGED past
  PROVE  MemoryInv'
BY UntouchedInv, NoImageInv DEF MemoryInv

LEMMA CallStepMemoryInv ==
  ASSUME TypeOK, WindowInv, UpdateInv, MemoryInv, NEW s \in Sessions, CallStep(s)
  PROVE  MemoryInv'
<1> USE SessionTypes
<1>1. Alone(s)
  BY CallStepAlone
<1>2. CASE Acquire(s)
  <2>1. Untouched(s) /\ UNCHANGED past
    BY <1>2 DEF Acquire, Untouched, bodyVars, histVars
  <2> QED BY <1>1, <2>1, UntouchedStep
<1>3. CASE CatchUp(s) \/ OverwriteExamine(s) \/ CreateNewFile(s)
  BY <1>1, <1>3, CatchUpInv, OverwriteExamineInv, CreateNewFileInv
<1>4. CASE \/ CatchUpRefused(s) \/ OverwriteRefused(s) \/ CreateRefused(s)
           \/ CreateFails(s) \/ LockFails(s) \/ ReadFails(s)
  <2>1. Refuse(s) /\ UNCHANGED past /\ (phase[s] = "acquire" \/ goal[s] = "create")
    BY <1>4 DEF CatchUpRefused, OverwriteRefused, CreateRefused, CreateFails,
       LockFails, ReadFails, histVars
  <2> QED BY <1>1, <2>1, RefuseInv
<1>5. CASE \/ Flush(s) \/ Edit(s) \/ InstallPassword(s)
           \/ (\E d \in DeviceIds : AddDeviceKey(s, d) \/ RemoveDeviceKey(s, d))
  BY <1>1, <1>5, ClosureInv
<1>6. CASE PasswordConflict(s) \/ ClosureFails(s)
  <2>1. /\ RollBack(s) /\ EndCall(s, "idle") /\ UNCHANGED past
        /\ phase[s] = "closure" /\ phase[s] \in Building
    BY <1>6 DEF PasswordConflict, ClosureFails, AbortClosure, Building
  <2>2. goal[s] = "tx"
    BY <2>1 DEF MemoryInv, SessionInv, Restores
  <2> QED BY <1>1, <2>1, <2>2, RollBackInv
<1>7. CASE Commit(s)
  BY <1>1, <1>7, CommitInv
<1>8. CASE SealFails(s) \/ ReadBackFails(s)
  <2>1. /\ BackOut(s) /\ UNCHANGED past /\ goal[s] # "create"
        /\ phase[s] \in Building
    BY <1>8 DEF SealFails, ReadBackFails, Building, InFlight
  <2> QED BY <1>1, <2>1, BackOutInv
<1>9. CASE WriteTemp(s) \/ WriteFails(s)
  <2>1. /\ UNCHANGED <<past, goal, bodyVars>>
        /\ phase[s] \in InFlight /\ phase'[s] \in InFlight
    BY <1>9 DEF WriteTemp, WriteFails, histVars, Writing, InFlight
  <2>2. Untouched(s)
    BY <2>1 DEF Untouched, bodyVars
  <2> QED BY <1>1, <2>1, <2>2, UntouchedStep
<1>10. CASE RenameLosesReply(s)
  <2>1. /\ past' = past \cup {sealed[s]} /\ UNCHANGED <<goal, bodyVars>>
        /\ phase[s] \in InFlight /\ phase'[s] \in InFlight
    BY <1>10 DEF RenameLosesReply, Land, InFlight
  <2>2. Untouched(s)
    BY <2>1 DEF Untouched, bodyVars
  <2>3. SessionInv(s)'
    BY <2>2, UntouchedInv DEF MemoryInv
  <2>4. mem[s] = BodyOf(sealed[s]) /\ RetiredGone(mem[s])
    BY <2>1 DEF MemoryInv, SessionInv, Descends
  <2>5. RetiredGone(sealed[s])
    BY <2>4, ImageFields DEF RetiredGone
  <2>6. past \subseteq past' /\ \A f \in past' : RetiredGone(f)
    BY <2>1, <2>5 DEF MemoryInv
  <2> QED BY <1>1, <2>3, <2>6, OwnStepInv
<1>11. CASE Rename(s)
  <2>1. /\ past' = past \cup {sealed[s]} /\ RecordWritten(s)
        /\ phase[s] \in InFlight
    BY <1>11 DEF Rename, Land, InFlight
  <2> QED BY <1>1, <2>1, RecordWrittenInv
<1>12. CASE ReadBackFinds(s)
  <2>1. /\ RecordWritten(s) /\ phase[s] \in InFlight /\ past' = past
        /\ file.gen = sealed[s].gen
    BY <1>12 DEF ReadBackFinds, InFlight
  <2>2. sealed[s] \in past
    BY <2>1 DEF UpdateInv, GenerationsInv
  <2> QED BY <1>1, <2>1, <2>2, RecordWrittenInv
<1> QED
  BY <1>2, <1>3, <1>4, <1>5, <1>6, <1>7, <1>8, <1>9, <1>10, <1>11, <1>12
     DEF CallStep

LEMMA CallerMemoryInv ==
  ASSUME TypeOK, UpdateInv, MemoryInv, NEW s \in Sessions,
         CallerStep(s) \/ LockBusy(s) \/ Crash(s)
  PROVE  MemoryInv'
<1> USE SessionTypes
<1>1. Alone(s)
  BY CallerStepAlone
<1>2. file \in past /\ RetiredGone(file)
  BY DEF UpdateInv, GenerationsInv, MemoryInv
<1>3. CASE Open(s)
  <2>1. /\ phase'[s] = "idle" /\ UNCHANGED past
        /\ mem'[s] = BodyOf(file) /\ known'[s] = KnownOf(file)
    BY <1>3 DEF Open, histVars
  <2> QED BY <1>1, <1>2, <2>1, RestedInv, NoImageInv
<1>4. CASE Create(s)
  BY <1>1, <1>4, CreateInv
<1>5. CASE Close(s) \/ Crash(s)
  <2>1. phase'[s] = "closed" /\ mem'[s] = NoBody /\ UNCHANGED past
    BY <1>5 DEF Close, Crash, Forget
  <2> QED BY <1>1, <2>1, GoneInv, NoImageInv
<1>6. CASE \/ QueueAudit(s) \/ ExamineConflict(s) \/ PreparePassword(s)
           \/ QueueInside(s)
  <2>1. Untouched(s) /\ UNCHANGED past
    BY <1>6 DEF QueueAudit, ExamineConflict, PreparePassword, QueueInside,
       Untouched, bodyVars, histVars
  <2> QED BY <1>1, <2>1, UntouchedStep
<1>7. CASE Refresh(s)
  <2>1. CASE file.gen = known[s].gen
    <3>1. Untouched(s) /\ UNCHANGED past
      BY <1>7, <2>1 DEF Refresh, Untouched, histVars
    <3> QED BY <1>1, <3>1, UntouchedStep
  <2>2. CASE file.gen # known[s].gen
    <3>1. /\ phase'[s] = "idle" /\ UNCHANGED past
          /\ mem'[s] = BodyOf(file) /\ known'[s] = KnownOf(file)
      BY <1>7, <2>2 DEF Refresh, Adopt, histVars
    <3> QED BY <1>1, <1>2, <3>1, RestedInv, NoImageInv
  <2> QED BY <2>1, <2>2
<1>8. CASE StartTransact(s) \/ StartOverwrite(s)
  BY <1>1, <1>8, StartCallInv DEF StartTransact, StartOverwrite
<1>9. CASE LockBusy(s)
  <2>1. Refuse(s) /\ UNCHANGED past /\ phase[s] = "acquire"
    BY <1>9 DEF LockBusy, histVars
  <2> QED BY <1>1, <2>1, RefuseInv
<1> QED BY <1>3, <1>4, <1>5, <1>6, <1>7, <1>8, <1>9 DEF CallerStep

LEMMA IntruderMemoryInv ==
  ASSUME TypeOK, MemoryInv, RestoreOlderCopy \/ ReplaceVault \/ LockFileRemoved
  PROVE  MemoryInv'
<1>1. /\ UNCHANGED <<phase, goal, mem, known, base, undo, sealed>>
      /\ past \subseteq past'
  BY DEF RestoreOlderCopy, ReplaceVault, LockFileRemoved, Interfere, bodyVars
<1>2. ASSUME NEW s \in Sessions PROVE SessionInv(s)'
  <2>1. Untouched(s)
    BY <1>1 DEF Untouched
  <2> QED BY <2>1, UntouchedInv DEF MemoryInv
<1>3. \A f \in past' : RetiredGone(f)
  <2>1. RetiredGone(NoFile)
    BY ImageFields DEF RetiredGone
  <2>2. RetiredGone(ImageOf(NewBody(seals + 1), seals + 1, 1))
    BY DEF RetiredGone, ImageOf, NewBody
  <2> QED
    BY <2>1, <2>2 DEF RestoreOlderCopy, ReplaceVault, LockFileRemoved, Interfere,
       MemoryInv
<1> QED BY <1>2, <1>3 DEF MemoryInv, RetiredGone

LEMMA InitMemoryInv == Init => MemoryInv
<1> SUFFICES ASSUME Init PROVE MemoryInv
  OBVIOUS
<1>1. \A s \in Sessions : phase[s] = "closed" /\ mem[s] = NoBody
  BY DEF Init
<1>2. RetiredGone(FirstFile) /\ RetiredGone(NoFile) /\ RetiredGone(NoBody)
  BY ImageFields DEF RetiredGone, FirstFile, ImageOf, NewBody
<1>3. past \subseteq {FirstFile, NoFile}
  BY DEF Init
<1> QED
  BY <1>1, <1>2, <1>3 DEF MemoryInv, SessionInv, Settles, Restores, Descends,
     KeepsSlot, KeepsDevices, Building, InFlight

LEMMA StepMemoryInv ==
  ASSUME TypeOK, WindowInv, UpdateInv, MemoryInv, [Next]_vars
  PROVE  MemoryInv'
<1>1. ASSUME NEW s \in Sessions, CallStep(s) PROVE MemoryInv'
  BY <1>1, CallStepMemoryInv
<1>2. ASSUME NEW s \in Sessions, CallerStep(s) \/ LockBusy(s) \/ Crash(s)
      PROVE  MemoryInv'
  BY <1>2, CallerMemoryInv
<1>3. CASE RestoreOlderCopy \/ ReplaceVault \/ LockFileRemoved
  BY <1>3, IntruderMemoryInv
<1>4. CASE UNCHANGED vars
  <2>1. \A s \in Sessions : Untouched(s)
    BY <1>4 DEF Untouched, vars, bodyVars, histVars
  <2>2. \A s \in Sessions : SessionInv(s)'
    BY <2>1, UntouchedInv DEF MemoryInv
  <2> QED BY <1>4, <2>2 DEF MemoryInv, RetiredGone, vars, histVars
<1> QED BY <1>1, <1>2, <1>3, <1>4 DEF Next

(* What a session holds between calls and during them, whatever its writes *)
(* and everybody else's do (vault/mod.rs, catch_up_locked, Tx::commit,     *)
(* roll_back and overwrite_unmerged).                                      *)
THEOREM MemoryInvariant == Spec => []MemoryInv
<1>1. Init => MemoryInv
  BY InitMemoryInv
<1>2. WriterInv => WindowInv
  BY DEF WriterInv, WindowInv
<1>3. TypeOK /\ WindowInv /\ UpdateInv /\ MemoryInv /\ [Next]_vars => MemoryInv'
  BY StepMemoryInv
<1> QED BY <1>1, <1>2, <1>3, TypeCorrectness, WriterInvariant, UpdateInvariant,
           PTL DEF Spec

(* Between calls a session shows a version that was on disk, and knows it  *)
(* as that version: no closure, write or overwrite that failed stays in    *)
(* memory (roll_back, and the tail of overwrite_unmerged).                 *)
THEOREM MemoryCommitted == Spec => []MemoryWasCommitted
<1>1. MemoryInv => MemoryWasCommitted
  BY DEF MemoryInv, SessionInv, Settles, Committed, MemoryWasCommitted
<1> QED BY <1>1, MemoryInvariant, PTL
-----------------------------------------------------------------------------
(* What a session knows never goes backwards.                              *)

KnowsOn(s) ==
  /\ Continues(known[s].log, known'[s].log)
  /\ goal[s] # "overwrite" => known[s].ver <= known'[s].ver

LEMMA KnowsTheSame ==
  ASSUME TypeOK, NEW s \in Sessions,
         known'[s].log = known[s].log,
         goal[s] = "overwrite" \/ known'[s].ver = known[s].ver
  PROVE  KnowsOn(s)
BY SessionTypes, ContinuesItself DEF KnowsOn, Known

LEMMA KnowsAdopted ==
  ASSUME TypeOK, NEW s \in Sessions, Adoptable(s, file),
         known'[s] = KnownOf(file)
  PROVE  KnowsOn(s)
BY ImageFields, SessionTypes
   DEF KnowsOn, Adoptable, ContinuesKnown, TypeOK, DiskTypeOK, Image, Known

\* A transaction goes back to its base, which is what it knew; an overwrite to
\* what it knew before its version was raised.
LEMMA KnowsBackedOut ==
  ASSUME TypeOK, MemoryInv, NEW s \in Sessions, phase[s] \in Building,
         \/ goal[s] = "tx" /\ RollBack(s)
         \/ goal[s] = "overwrite" /\ RestoreSession(s)
  PROVE  KnowsOn(s)
<1> USE SessionTypes
<1>1. CASE goal[s] = "tx" /\ RollBack(s)
  <2>1. known'[s] = known[s]
    BY <1>1 DEF RollBack, MemoryInv, SessionInv, Restores
  <2> QED BY <2>1, KnowsTheSame
<1>2. CASE goal[s] = "overwrite" /\ RestoreSession(s)
  <2>1. known'[s].log = known[s].log
    BY <1>2 DEF RestoreSession, MemoryInv, SessionInv, Restores
  <2> QED BY <1>2, <2>1, KnowsTheSame
<1> QED BY <1>1, <1>2

LEMMA KnowsWritten ==
  ASSUME TypeOK, MemoryInv, NEW s \in Sessions, phase[s] \in InFlight,
         RecordWritten(s)
  PROVE  KnowsOn(s)
<1>1. known'[s] = KnownOf(sealed[s])
  BY SessionTypes DEF RecordWritten
<1> QED BY <1>1, ImageFields DEF KnowsOn, MemoryInv, SessionInv, Descends

LEMMA CallStepKnowsOn ==
  ASSUME TypeOK, MemoryInv, NEW s \in Sessions, CallStep(s),
         phase'[s] # "closed"
  PROVE  KnowsOn(s)
<1> USE SessionTypes
<1>1. CASE \/ Acquire(s) \/ CreateNewFile(s) \/ Commit(s) \/ WriteTemp(s)
           \/ WriteFails(s) \/ RenameLosesReply(s)
  <2>1. known' = known
    BY <1>1 DEF Acquire, CreateNewFile, Commit, WriteTemp, WriteFails,
       RenameLosesReply, bodyVars
  <2> QED BY <2>1, KnowsTheSame
<1>2. CASE CatchUp(s)
  <2>1. CASE file.gen = known[s].gen
    <3>1. known'[s] = known[s]
      BY <1>2, <2>1 DEF CatchUp
    <3> QED BY <3>1, KnowsTheSame
  <2>2. CASE file.gen # known[s].gen
    <3>1. known'[s] = KnownOf(file) /\ Adoptable(s, file)
      BY <1>2, <2>2 DEF CatchUp
    <3> QED BY <3>1, KnowsAdopted
  <2> QED BY <2>1, <2>2
<1>3. CASE OverwriteExamine(s)
  <2>1. goal[s] = "overwrite" /\ known'[s].log = known[s].log
    BY <1>3 DEF OverwriteExamine, Known
  <2> QED BY <2>1, KnowsTheSame
<1>4. CASE \/ CatchUpRefused(s) \/ OverwriteRefused(s) \/ CreateRefused(s)
           \/ CreateFails(s) \/ LockFails(s) \/ ReadFails(s)
  <2>1. Refuse(s)
    BY <1>4 DEF CatchUpRefused, OverwriteRefused, CreateRefused, CreateFails,
       LockFails, ReadFails
  <2>2. known' = known
    BY <2>1 DEF Refuse, EndCall
  <2> QED BY <2>2, KnowsTheSame
<1>5. CASE \/ Flush(s) \/ Edit(s) \/ InstallPassword(s)
           \/ (\E d \in DeviceIds : AddDeviceKey(s, d) \/ RemoveDeviceKey(s, d))
  <2>1. PICK body, own : Closure(s, body, own)
    BY <1>5 DEF Flush, Edit, InstallPassword, AddDeviceKey, RemoveDeviceKey
  <2>2. known' = known
    BY <2>1 DEF Closure
  <2> QED BY <2>2, KnowsTheSame
<1>6. CASE PasswordConflict(s) \/ ClosureFails(s)
  <2>1. RollBack(s) /\ phase[s] = "closure" /\ phase[s] \in Building
    BY <1>6 DEF PasswordConflict, ClosureFails, AbortClosure, Building
  <2>2. goal[s] = "tx"
    BY <2>1 DEF MemoryInv, SessionInv, Restores
  <2> QED BY <2>1, <2>2, KnowsBackedOut
<1>7. CASE SealFails(s) \/ ReadBackFails(s)
  <2>1. BackOut(s) /\ goal[s] # "create" /\ phase[s] \in Building
    BY <1>7 DEF SealFails, ReadBackFails, Building, InFlight
  <2>2. goal[s] \in {"tx", "overwrite"}
    BY <2>1 DEF Goals
  <2> QED BY <2>1, <2>2, KnowsBackedOut DEF BackOut
<1>8. CASE Rename(s) \/ ReadBackFinds(s)
  <2>1. RecordWritten(s) /\ phase[s] \in InFlight
    BY <1>8 DEF Rename, Land, ReadBackFinds, InFlight
  <2> QED BY <2>1, KnowsWritten
<1> QED
  BY <1>1, <1>2, <1>3, <1>4, <1>5, <1>6, <1>7, <1>8 DEF CallStep

LEMMA CallerKnowsOn ==
  ASSUME TypeOK, MemoryInv, NEW s \in Sessions,
         CallerStep(s) \/ LockBusy(s) \/ Crash(s),
         phase[s] # "closed", phase'[s] # "closed"
  PROVE  KnowsOn(s)
<1> USE SessionTypes
<1>1. CASE Open(s) \/ Create(s)
  BY <1>1 DEF Open, Create
<1>2. CASE Close(s) \/ Crash(s)
  BY <1>2 DEF Close, Crash, Forget
<1>3. CASE \/ QueueAudit(s) \/ ExamineConflict(s) \/ PreparePassword(s)
           \/ QueueInside(s) \/ StartTransact(s) \/ StartOverwrite(s)
  <2>1. known' = known
    BY <1>3 DEF QueueAudit, ExamineConflict, PreparePassword, QueueInside,
       StartTransact, StartOverwrite, StartCall, bodyVars
  <2> QED BY <2>1, KnowsTheSame
<1>4. CASE Refresh(s)
  <2>1. known'[s] = known[s] \/ (Adoptable(s, file) /\ known'[s] = KnownOf(file))
    BY <1>4 DEF Refresh, Adopt
  <2> QED BY <2>1, KnowsTheSame, KnowsAdopted
<1>5. CASE LockBusy(s)
  <2>1. Refuse(s)
    BY <1>5 DEF LockBusy
  <2>2. known' = known
    BY <2>1 DEF Refuse, EndCall
  <2> QED BY <2>2, KnowsTheSame
<1> QED BY <1>1, <1>2, <1>3, <1>4, <1>5 DEF CallerStep

(* What a session knows to be on disk only grows while it is open, through *)
(* refreshes, failed writes, rollbacks and overwrites (continues_known,    *)
(* record_written and before_format_ver of vault/mod.rs).                  *)
THEOREM KnowledgeGrows == Spec => KnowledgeNeverGoesBack
<1> DEFINE Grows(s) == phase[s] # "closed" /\ phase'[s] # "closed" => KnowsOn(s)
<1>1. ASSUME TypeOK, MemoryInv, Next, NEW s \in Sessions
      PROVE  Grows(s)
  <2>1. ASSUME NEW t \in Sessions,
               CallStep(t) \/ CallerStep(t) \/ LockBusy(t) \/ Crash(t)
        PROVE  Grows(s)
    <3>1. CASE t = s
      BY <1>1, <2>1, <3>1, CallStepKnowsOn, CallerKnowsOn
    <3>2. CASE t # s
      <4>1. Alone(t)
        BY <1>1, <2>1, CallStepAlone, CallerStepAlone
      <4>2. known'[s] = known[s]
        BY <3>2, <4>1 DEF Alone
      <4> QED BY <1>1, <4>2, KnowsTheSame
    <3> QED BY <3>1, <3>2
  <2>2. CASE RestoreOlderCopy \/ ReplaceVault \/ LockFileRemoved
    <3>1. known' = known
      BY <2>2 DEF RestoreOlderCopy, ReplaceVault, LockFileRemoved, Interfere, bodyVars
    <3> QED BY <1>1, <3>1, KnowsTheSame
  <2> QED BY <1>1, <2>1, <2>2 DEF Next
<1>2. TypeOK /\ MemoryInv /\ [Next]_vars
        => [\A s \in Sessions : Grows(s)]_vars
  BY <1>1
<1>3. [\A s \in Sessions : Grows(s)]_vars =>
        [\A s \in Sessions : phase[s] # "closed" /\ phase'[s] # "closed" =>
           /\ Continues(known[s].log, known'[s].log)
           /\ goal[s] # "overwrite" => known[s].ver <= known'[s].ver]_vars
  BY DEF KnowsOn
<1> QED BY <1>2, <1>3, MemoryInvariant, TypeCorrectness, PTL
           DEF Spec, KnowledgeNeverGoesBack

-----------------------------------------------------------------------------
(* A write keeps what has no other copy.                                   *)

(* A write over this vault keeps its format version, its device keys       *)
(* unless one was removed, and every removal (format_ver_to_write,         *)
(* add_device_key, remove_device_key, and the merge in overwrite_unmerged).*)
THEOREM IrreplaceableKept == Spec => NothingIrreplaceableDropped
<1> DEFINE Kept == \A s \in Sessions \ disturbed :
                     Replaces(s) /\ file.vid = file'.vid =>
                       /\ file'.ver >= file.ver
                       /\ file.retired \subseteq file'.retired
                       /\ file.devices \ file'.retired \subseteq file'.devices
                       /\ file'.devices \cap file'.retired = {}
<1>1. TypeOK /\ NoWriterBetween /\ MemoryInv => [Kept]_vars
  <2> SUFFICES ASSUME TypeOK, NoWriterBetween, MemoryInv,
                      NEW s \in Sessions \ disturbed, Replaces(s),
                      file.vid = file'.vid
               PROVE  /\ file'.ver >= file.ver
                      /\ file.retired \subseteq file'.retired
                      /\ file.devices \ file'.retired \subseteq file'.devices
                      /\ file'.devices \cap file'.retired = {}
    OBVIOUS
  <2>1. /\ phase[s] \in Writing /\ phase[s] \in InFlight
        /\ phase[s] \in Building /\ file' = sealed[s]
    BY DEF Replaces, Writing, InFlight, Building
  <2>2. file = base[s]
    BY <2>1 DEF NoWriterBetween
  <2>3. mem[s] = BodyOf(sealed[s]) /\ known[s].ver <= sealed[s].ver
    BY <2>1 DEF MemoryInv, SessionInv, Descends
  <2>4. Keeps(base[s], mem[s], known[s].ver) /\ RetiredGone(mem[s])
    BY <2>1 DEF MemoryInv, SessionInv, KeepsDevices
  <2>5. file.ver \in Nat /\ known[s].ver \in Nat /\ sealed[s].ver \in Nat
    BY SessionTypes DEF TypeOK, DiskTypeOK, Image, Known
  <2> QED BY <2>1, <2>2, <2>3, <2>4, <2>5, ImageFields DEF Keeps, RetiredGone
<1> QED BY <1>1, MemoryInvariant, TypeCorrectness, NoWriterComesBetween, PTL
           DEF NothingIrreplaceableDropped
-----------------------------------------------------------------------------
(* While nobody removes the lock file, one inode is the lock.              *)

Untampered ==
  tampers = 0 => \A s \in Sessions : lk[s] \in {"opened", "locked", "held"} =>
                   lockFile # 0 /\ handle[s] = lockFile

LEMMA StepUntampered ==
  ASSUME LockInv, Untampered, [LockNext]_lockVars
  PROVE  Untampered'
<1> USE DEF LockInv, LockTypeOK, Untampered
<1>1. ASSUME NEW s \in Sessions, WantLock(s) PROVE Untampered'
  BY <1>1 DEF WantLock
<1>2. ASSUME NEW s \in Sessions, OpenLockFile(s) PROVE Untampered'
  BY <1>2 DEF OpenLockFile
<1>3. ASSUME NEW s \in Sessions, TryLock(s) PROVE Untampered'
  BY <1>3 DEF TryLock
<1>4. ASSUME NEW s \in Sessions, VerifyLock(s) PROVE Untampered'
  BY <1>4 DEF VerifyLock
<1>5. ASSUME NEW s \in Sessions, TimeOut(s) \/ DropLock(s) PROVE Untampered'
  BY <1>5 DEF TimeOut, DropLock
<1>6. CASE RemoveLockFile
  BY <1>6 DEF RemoveLockFile
<1>7. CASE UNCHANGED lockVars
  BY <1>7 DEF lockVars
<1> QED
  BY <1>1, <1>2, <1>3, <1>4, <1>5, <1>6, <1>7 DEF LockNext, AcquireStep

LEMMA AlwaysUntampered == Spec => []Untampered
<1>1. Init => Untampered
  BY DEF Init, LockInit, Untampered
<1>2. LockInv /\ Untampered /\ [Next]_vars => Untampered'
  BY StepIsLockStep, StepUntampered
<1> QED BY <1>1, <1>2, VaultLockInv, PTL DEF Spec

LEMMA OneHolder ==
  ASSUME LockInv, Untampered, tampers = 0,
         NEW s \in Sessions, NEW t \in Sessions, lk[s] = "held", lk[t] = "held"
  PROVE  s = t
BY DEF LockInv, LockExclusive, OwnsLock, Untampered

\* A temporary is touched by its writer, and swept by whoever has the lock.
SparesOthers(s) ==
  /\ \A t \in Sessions \ {s} : phase'[t] = phase[t]
  /\ phase'[s] = "rename" => temps'[s] = "live"
  /\ \/ \A t \in Sessions \ {s} : temps'[t] = temps[t]
     \/ lk[s] = "held"

LEMMA StepSparesOthers ==
  ASSUME TypeOK, SweepSparesWriters, NEW s \in Sessions,
         CallStep(s) \/ CallerStep(s) \/ LockBusy(s) \/ Crash(s),
         phase[s] = "rename" => temps[s] = "live"
  PROVE  SparesOthers(s)
<1> USE SessionTypes DEF SparesOthers
<1> USE DEF TypeOK, DiskTypeOK
<1>1. \A t \in Sessions \ {s} : phase'[t] = phase[t]
  BY CallStepAlone, CallerStepAlone DEF Alone
<1>2. CASE \/ Acquire(s) \/ LockFails(s) \/ LockBusy(s)
           \/ Open(s) \/ Create(s) \/ Close(s)
           \/ QueueAudit(s) \/ Refresh(s) \/ ExamineConflict(s)
           \/ PreparePassword(s) \/ QueueInside(s)
           \/ StartTransact(s) \/ StartOverwrite(s)
  <2>1. temps' = temps /\ phase'[s] # "rename"
    BY <1>2 DEF Acquire, LockFails, LockBusy, Refuse, EndCall, Open, Create,
       Close, Forget, QueueAudit, Refresh, ExamineConflict, PreparePassword,
       QueueInside, StartTransact, StartOverwrite, StartCall, diskVars
  <2> QED BY <1>1, <2>1
<1>3. CASE \/ ReadFails(s) \/ CatchUpRefused(s) \/ OverwriteRefused(s)
           \/ CreateRefused(s)
  <2>1. lk[s] = "held" /\ phase'[s] # "rename"
    BY <1>3 DEF ReadFails, CatchUpRefused, OverwriteRefused, CreateRefused,
       Refuse, EndCall
  <2> QED BY <1>1, <2>1
<1>4. CASE CatchUp(s) \/ OverwriteExamine(s) \/ CreateNewFile(s)
  <2>1. lk[s] = "held" /\ phase'[s] # "rename"
    BY <1>4 DEF CatchUp, OverwriteExamine, CreateNewFile
  <2> QED BY <1>1, <2>1
<1>5. CASE \/ Flush(s) \/ Edit(s) \/ InstallPassword(s)
           \/ (\E d \in DeviceIds : AddDeviceKey(s, d) \/ RemoveDeviceKey(s, d))
  <2>1. PICK body, own : Closure(s, body, own)
    BY <1>5 DEF Flush, Edit, InstallPassword, AddDeviceKey, RemoveDeviceKey
  <2>2. temps' = temps /\ phase'[s] = "commit"
    BY <2>1 DEF Closure, diskVars
  <2> QED BY <1>1, <2>2
<1>6. CASE \/ PasswordConflict(s) \/ ClosureFails(s) \/ SealFails(s)
           \/ ReadBackFinds(s) \/ ReadBackFails(s)
  <2>1. temps' = temps /\ EndCall(s, "idle")
    BY <1>6 DEF PasswordConflict, ClosureFails, AbortClosure, SealFails,
       ReadBackFinds, ReadBackFails, RecordWritten, BackOut, diskVars
  <2>2. phase'[s] = "idle"
    BY <2>1 DEF EndCall
  <2> QED BY <1>1, <2>1, <2>2
<1>7. CASE CreateFails(s)
  <2>1. temps' = temps /\ phase'[s] # "rename"
    BY <1>7 DEF CreateFails, Refuse, EndCall, diskVars
  <2> QED BY <1>1, <2>1
<1>8. CASE Commit(s)
  <2>1. temps' = temps /\ phase'[s] # "rename"
    BY <1>8 DEF Commit
  <2> QED BY <1>1, <2>1
<1>9. CASE WriteTemp(s)
  BY <1>1, <1>9 DEF WriteTemp
<1>10. CASE WriteFails(s) \/ Rename(s) \/ RenameLosesReply(s)
  <2>1. temps' = [temps EXCEPT ![s] = "none"] /\ phase'[s] # "rename"
    BY <1>10 DEF WriteFails, Rename, RenameLosesReply, Land, RecordWritten, EndCall
  <2> QED BY <1>1, <2>1
<1>11. CASE Crash(s)
  <2>1. /\ phase'[s] = "closed"
        /\ \A t \in Sessions \ {s} : temps'[t] = temps[t]
    BY <1>11 DEF Crash, Forget
  <2> QED BY <1>1, <2>1
<1> QED
  BY <1>2, <1>3, <1>4, <1>5, <1>6, <1>7, <1>8, <1>9, <1>10, <1>11
     DEF CallStep, CallerStep

(* While nobody removes the lock file, the sweep of stale temporaries,     *)
(* which takes every temporary for a dead writer's, never takes a live     *)
(* writer's: who sweeps has the lock, and so does a writer until its       *)
(* rename (sweep_temporaries_once of vault/mod.rs).                        *)
THEOREM LiveTemporariesStay == Spec => []SweepSparesWriters
<1>1. Init => SweepSparesWriters
  BY DEF Init, SweepSparesWriters
<1>2. ASSUME TypeOK, LockInv, WindowInv, Untampered, SweepSparesWriters,
             Next, tampers' = 0, NEW t \in Sessions, phase'[t] = "rename"
      PROVE  temps'[t] = "live"
  <2>1. tampers = 0
    <3>1. [LockNext]_lockVars
      BY <1>2, StepIsLockStep
    <3> QED
      BY <1>2, <3>1 DEF LockNext, lockVars, AcquireStep, WantLock, OpenLockFile,
         TryLock, VerifyLock, TimeOut, DropLock, RemoveLockFile, TypeOK, LockTypeOK
  <2>2. ASSUME NEW s \in Sessions,
               CallStep(s) \/ CallerStep(s) \/ LockBusy(s) \/ Crash(s)
        PROVE  temps'[t] = "live"
    <3>1. SparesOthers(s)
      BY <1>2, <2>1, <2>2, StepSparesOthers DEF SweepSparesWriters
    <3>2. CASE t = s
      BY <1>2, <3>1, <3>2 DEF SparesOthers
    <3>3. CASE t # s
      <4>1. phase[t] = "rename"
        BY <1>2, <3>1, <3>3 DEF SparesOthers
      <4>2. temps[t] = "live"
        BY <1>2, <2>1, <4>1 DEF SweepSparesWriters
      <4>3. lk[t] = "held"
        BY <1>2, <4>1 DEF WindowInv, WindowUnderLock, InWindow
      <4>4. lk[s] # "held"
        BY <1>2, <2>1, <3>3, <4>3, OneHolder
      <4> QED BY <3>1, <3>3, <4>2, <4>4 DEF SparesOthers
    <3> QED BY <3>2, <3>3
  <2>3. CASE RestoreOlderCopy \/ ReplaceVault \/ LockFileRemoved
    <3>1. UNCHANGED <<phase, temps>>
      BY <2>3 DEF RestoreOlderCopy, ReplaceVault, LockFileRemoved, Interfere, diskVars
    <3> QED BY <1>2, <2>1, <3>1 DEF SweepSparesWriters
  <2> QED BY <1>2, <2>2, <2>3 DEF Next
<1>3. TypeOK /\ LockInv /\ WindowInv /\ Untampered /\ SweepSparesWriters
        /\ [Next]_vars => SweepSparesWriters'
  <2>1. ASSUME TypeOK, LockInv, WindowInv, Untampered, SweepSparesWriters, Next
        PROVE  SweepSparesWriters'
    BY <1>2, <2>1 DEF SweepSparesWriters
  <2>2. ASSUME SweepSparesWriters, UNCHANGED vars PROVE SweepSparesWriters'
    BY <2>2 DEF SweepSparesWriters, vars, lockVars, diskVars
  <2> QED BY <2>1, <2>2
<1>4. WriterInv => WindowInv
  BY DEF WriterInv, WindowInv
<1> QED BY <1>1, <1>3, <1>4, TypeCorrectness, VaultLockInv, WriterInvariant,
           AlwaysUntampered, PTL DEF Spec

-----------------------------------------------------------------------------
(* A password change saw the slot it replaces.                             *)

\* Of the steps of a call only an install that fits changes the slot.
LEMMA SlotChanges ==
  ASSUME TypeOK, MemoryInv, NEW s \in Sessions,
         CallStep(s) \/ CallerStep(s) \/ LockBusy(s) \/ Crash(s),
         phase[s] = "closure", phase'[s] = "commit", mem'[s].slot # mem[s].slot
  PROVE  prep[s] = mem[s].slot + 1
<1> USE SessionTypes
<1>1. CASE \/ Flush(s) \/ Edit(s) \/ InstallPassword(s)
           \/ (\E d \in DeviceIds : AddDeviceKey(s, d) \/ RemoveDeviceKey(s, d))
  <2>1. PICK body \in Body, own \in {0, 1} :
          /\ Closure(s, body, own)
          /\ body.slot = mem[s].slot \/ prep[s] = mem[s].slot + 1
    BY <1>1, ClosureEdits
  <2>2. mem'[s].slot = body.slot
    <3>1. CASE own = 0
      BY <2>1, <3>1 DEF Closure
    <3>2. CASE own # 0
      <4>1. mem'[s] = [body EXCEPT !.log = Append(body.log, entries + 1)]
        BY <2>1, <3>2 DEF Closure
      <4> QED BY <4>1 DEF Body
    <3> QED BY <3>1, <3>2
  <2> QED BY <2>1, <2>2
<1>2. CASE PasswordConflict(s) \/ ClosureFails(s)
  BY <1>2 DEF PasswordConflict, ClosureFails, AbortClosure, EndCall
<1>3. CASE QueueInside(s)
  BY <1>3 DEF QueueInside
<1>4. CASE Close(s) \/ Crash(s)
  BY <1>4 DEF Close, Crash, Forget
<1>5. CASE ~(\/ Flush(s) \/ Edit(s) \/ InstallPassword(s)
             \/ (\E d \in DeviceIds : AddDeviceKey(s, d) \/ RemoveDeviceKey(s, d))
             \/ PasswordConflict(s) \/ ClosureFails(s) \/ QueueInside(s)
             \/ Close(s) \/ Crash(s))
  BY <1>5 DEF CallStep, CallerStep, Acquire, LockFails, ReadFails, CatchUp,
     CatchUpRefused, OverwriteExamine, OverwriteRefused, CreateNewFile,
     CreateRefused, Commit, SealFails, WriteTemp, WriteFails, Rename,
     RenameLosesReply, Land, ReadBackFinds, ReadBackFails, CreateFails, Open,
     Create, QueueAudit, Refresh, ExamineConflict, PreparePassword,
     StartTransact, StartOverwrite, StartCall, LockBusy, Writing
<1> QED BY <1>1, <1>2, <1>3, <1>4, <1>5

(* A password change replaces only the slot its author had seen, so of two *)
(* prepared against one slot one is refused (install_master_password of    *)
(* vault/mod.rs compares under the lock, on the file as it is).            *)
THEOREM PasswordChangeFits == Spec => PasswordChangeSawSlot
<1> DEFINE Changes(s) == /\ tampers = 0
                         /\ phase[s] = "closure"
                         /\ phase'[s] = "commit"
                         /\ mem'[s].slot # mem[s].slot
<1>1. ASSUME TypeOK, WindowInv, Untampered, MemoryInv, Next,
             NEW s \in Sessions \ disturbed, Changes(s)
      PROVE  prep[s] = file.slot + 1
  <2>1. lk[s] = "held" /\ phase[s] \in InWindow
    BY <1>1 DEF WindowInv, WindowUnderLock, InWindow
  <2>2. file = base[s]
    BY <1>1, <2>1 DEF WindowInv, BaseStillCurrent, NamesHeldFile, Untampered
  <2>3. mem[s].slot = base[s].slot
    BY <1>1 DEF MemoryInv, SessionInv, KeepsSlot
  <2>4. CallStep(s) \/ CallerStep(s) \/ LockBusy(s) \/ Crash(s)
    <3>1. ASSUME NEW t \in Sessions, t # s,
                 CallStep(t) \/ CallerStep(t) \/ LockBusy(t) \/ Crash(t)
          PROVE  FALSE
      <4>1. Alone(t)
        BY <1>1, <3>1, CallStepAlone, CallerStepAlone
      <4> QED BY <1>1, <3>1, <4>1 DEF Alone
    <3>2. CASE RestoreOlderCopy \/ ReplaceVault \/ LockFileRemoved
      BY <1>1, <3>2 DEF RestoreOlderCopy, ReplaceVault, LockFileRemoved, Interfere
    <3> QED BY <1>1, <3>1, <3>2 DEF Next
  <2> QED BY <1>1, <2>2, <2>3, <2>4, SlotChanges
<1>2. TypeOK /\ WindowInv /\ Untampered /\ MemoryInv /\ [Next]_vars
        => [\A s \in Sessions \ disturbed :
              Changes(s) => prep[s] = file.slot + 1]_vars
  BY <1>1
<1>3. WriterInv => WindowInv
  BY DEF WriterInv, WindowInv
<1> QED BY <1>2, <1>3, TypeCorrectness, WriterInvariant, AlwaysUntampered,
           MemoryInvariant, PTL DEF Spec, PasswordChangeSawSlot
=============================================================================
