-------------------------- MODULE AgentServiceProofs --------------------------
(***************************************************************************)
(* Proofs about the agent: for any number of connection threads, places,   *)
(* calls, faults and cleanups, AgentInv is an invariant, and with it the   *)
(* uses of leases, the answers they stand for, the children that are       *)
(* killed, the user's files, ReleaseGate, and with ShutInv what a lock       *)
(* leaves behind.                                                          *)
(***************************************************************************)
EXTENDS AgentService, SequenceTheorems, TLAPS

(***************************************************************************)
(* Types.                                                                  *)
(***************************************************************************)

LEMMA NoAskType == Places # {} => NoAsk \in Ask
BY DEF NoAsk, Ask, AllKinds

\* A reply forgets the request.
LEMMA ReplyTypes ==
  ASSUME TypeOK, NEW t \in Threads, Reply(t)
  PROVE  /\ phase' \in [Threads -> Phases]
         /\ call' \in [Threads -> Ids \cup {0}] /\ ask' \in [Threads -> Ask]
         /\ unowned' \in [Threads -> BOOLEAN]
         /\ agreed' \in [Threads -> Nat] /\ lease' \in [Threads -> Ids \cup {0}]
         /\ use' \in [Threads -> Nat]
<1>1. Places # {}
  BY DEF TypeOK, Ask
<1> QED BY <1>1, NoAskType DEF Reply, Goto, TypeOK, Phases

\* What a cleanup has left to do.
LEMMA CleaningLists ==
  /\ <<>> \in Seq(Cleaning)
  /\ <<"revoke", "kill">> \in Seq(Cleaning)
  /\ <<"audit", "revoke", "kill", "deny", "audit">> \in Seq(Cleaning)
  /\ <<"deny", "revoke", "kill", "unlatch">> \in Seq(Cleaning)
  /\ <<"unhook", "deny", "revoke", "kill">> \in Seq(Cleaning)
  /\ <<"deny", "revoke", "reopen">> \in Seq(Cleaning)
BY DEF Cleaning

LEMMA CleaningTail ==
  ASSUME NEW s \in Seq(Cleaning), s # <<>>
  PROVE  Tail(s) \in Seq(Cleaning)
OBVIOUS

LEMMA EntryTypes ==
  ASSUME TypeOK, NEW places \in SUBSET Places
  PROVE  EntriesFor(places) \in SUBSET Entry
BY DEF EntriesFor, Entry, TypeOK

LEMMA ShreddedType ==
  ASSUME TypeOK, NEW e \in Entry
  PROVE  Shredded(e) \in [Places -> Files]
BY DEF Shredded, Entry, TypeOK, Files

\* The first half of a request keeps the types.
LEMMA AskingTypes ==
  ASSUME TypeOK, NEW t \in Threads
  PROVE  /\ Begin(t) \/ BeginLocked(t) \/ BeginTool(t) => TypeOK'
         /\ Look(t) \/ LookRefused(t) \/ ReserveRefused(t) \/ ReserveUnleased(t) => TypeOK'
         /\ ReserveLeased(t) => TypeOK'
<1> USE DEF vaultVars, leaseVars, fileVars, childVars, callVars, grantVars, cleanVars,
            countVars, histVars, Goto, Phases
<1>1. CASE Begin(t)
  <2>1. calls + 1 \in Ids /\ calls' \in 0..MaxCalls
    BY <1>1, AgentAssumption DEF Begin, TypeOK, Ids
  <2>2. call' \in [Threads -> Ids \cup {0}]
    BY <1>1, <2>1 DEF Begin, TypeOK
  <2>3. ask' \in [Threads -> Ask]
    <3>1. PICK k \in Kinds, p \in Places, o \in BOOLEAN :
            ask' = [ask EXCEPT ![t] = [kind |-> k, place |-> p, overwrite |-> o]]
      BY <1>1 DEF Begin
    <3>2. [kind |-> k, place |-> p, overwrite |-> o] \in Ask
      BY AgentAssumption DEF Ask
    <3> QED BY <3>1, <3>2 DEF TypeOK
  <2>4. phase' \in [Threads -> Phases]
    BY <1>1 DEF Begin, TypeOK
  <2> QED BY ZenonT(60), <1>1, <2>1, <2>2, <2>3, <2>4 DEF Begin, TypeOK
<1>2. CASE BeginLocked(t)
  <2>1. calls' \in 0..MaxCalls
    BY <1>2, AgentAssumption DEF BeginLocked, TypeOK
  <2>2. todo' \in [Workers -> Seq(Cleaning)]
    BY <1>2, CleaningLists DEF BeginLocked, TypeOK
  <2>3. phase' \in [Threads -> Phases]
    BY <1>2 DEF BeginLocked, TypeOK
  <2> QED BY ZenonT(60), <1>2, <2>1, <2>2, <2>3 DEF BeginLocked, TypeOK
<1>3. CASE BeginTool(t)
  <2>1. phase' \in [Threads -> Phases]
    BY <1>3 DEF BeginTool, TypeOK
  <2>2. cleanups' \in Nat
    BY <1>3 DEF BeginTool, CleanupBegins, TypeOK
  <2> QED BY ZenonT(60), <1>3, <2>1, <2>2 DEF BeginTool, TypeOK
<1>4. CASE Look(t)
  BY ZenonT(60), <1>4 DEF Look, FileThere, TypeOK
<1>5. CASE LookRefused(t)
  BY ZenonT(60), <1>5, ReplyTypes DEF LookRefused, TypeOK
<1>6. CASE ReserveLeased(t)
  <2>1. PICK l \in Covering(t) : /\ lease' = [lease EXCEPT ![t] = l]
                                 /\ use' = [use EXCEPT ![t] = uses[l]]
                                 /\ uses' = [uses EXCEPT ![l] = @ - 1]
    BY <1>6 DEF ReserveLeased
  <2>2. l \in Ids /\ uses[l] \in Nat /\ uses[l] > 0
    BY DEF Covering, Live, TypeOK
  <2>3. uses[l] - 1 \in Nat
    BY <2>2
  <2>4. lease' \in [Threads -> Ids \cup {0}]
    BY <2>1, <2>2 DEF TypeOK
  <2>5. use' \in [Threads -> Nat]
    BY <2>1, <2>2 DEF TypeOK
  <2>6. uses' \in [Ids -> Nat]
    BY <2>1, <2>2, <2>3 DEF TypeOK
  <2>7. phase' \in [Threads -> Phases]
    BY <1>6 DEF ReserveLeased, TypeOK
  <2>8. store' \subseteq Ids
    BY <1>6 DEF ReserveLeased, Live, TypeOK
  <2> QED BY ZenonT(60), <1>6, <2>4, <2>5, <2>6, <2>7, <2>8 DEF ReserveLeased, TypeOK
<1>7. CASE ReserveUnleased(t)
  BY ZenonT(60), <1>7 DEF ReserveUnleased, Live, TypeOK
<1>8. CASE ReserveRefused(t)
  BY ZenonT(60), <1>8, ReplyTypes DEF ReserveRefused, TypeOK
<1> QED BY <1>1, <1>2, <1>3, <1>4, <1>5, <1>6, <1>7, <1>8

\* The approval and the release keep the types.
LEMMA GrantingTypes ==
  ASSUME TypeOK, CallsInv, AnswersInv, UsesInv, NEW t \in Threads
  PROVE  /\ Preflight(t) \/ Enqueue(t) \/ Answered(t) \/ NotAnswered(t) => TypeOK'
         /\ Grant(t) \/ GrantRefused(t) => TypeOK'
         /\ Prepare(t) \/ PrepareRefused(t) => TypeOK'
         /\ Commit(t) \/ CommitFails(t) \/ Undo(t) => TypeOK'
<1> USE DEF vaultVars, leaseVars, fileVars, childVars, callVars, grantVars, cleanVars,
            countVars, histVars, Goto, Phases, Proceed, Fault, NoFault
<1>1. CASE Preflight(t)
  <2>1. faults' \in Nat
    BY <1>1 DEF Preflight, TypeOK
  <2>2. CASE Reply(t)
    BY ZenonT(60), <1>1, <2>1, <2>2, ReplyTypes DEF Preflight, TypeOK
  <2>3. CASE Proceed(t, "ask")
    BY ZenonT(60), <1>1, <2>1, <2>3 DEF Preflight, TypeOK
  <2> QED BY <1>1, <2>2, <2>3 DEF Preflight
<1>2. CASE Enqueue(t)
  <2>1. CASE closed
    BY ZenonT(60), <1>2, <2>1, ReplyTypes DEF Enqueue, TypeOK
  <2>2. CASE ~closed
    BY ZenonT(60), <1>2, <2>2 DEF Enqueue, TypeOK, Answers
  <2> QED BY <2>1, <2>2
<1>3. CASE Answered(t)
  <2>1. pending' \in [Threads -> Answers]
    BY <1>3 DEF Answered, TypeOK, Answers
  <2>2. CASE pending[t] = "deny"
    BY ZenonT(60), <1>3, <2>1, <2>2, ReplyTypes DEF Answered, TypeOK
  <2>3. CASE pending[t] # "deny"
    <3>1. UsesAgreed(t) \in Nat
      BY AgentAssumption DEF UsesAgreed
    <3>2. agreed' \in [Threads -> Nat] /\ phase' \in [Threads -> Phases]
      BY <1>3, <2>3, <3>1 DEF Answered, TypeOK
    <3> QED BY ZenonT(60), <1>3, <2>1, <2>3, <3>2 DEF Answered, TypeOK
  <2> QED BY <2>2, <2>3
<1>4. CASE NotAnswered(t)
  <2>1. pending' \in [Threads -> Answers]
    BY <1>4 DEF NotAnswered, TypeOK, Answers
  <2> QED BY ZenonT(60), <1>4, <2>1, ReplyTypes DEF NotAnswered, TypeOK
<1>5. CASE Grant(t)
  <2>1. call[t] \in Ids
    BY <1>5, AgentAssumption DEF Grant, CallsInv, InCall, Undecided, TypeOK, Ids
  <2>2. agreed[t] \in Nat /\ agreed[t] - 1 \in Nat
    BY <1>5 DEF Grant, AnswersInv, TypeOK
  <2>3. ScopeOf(t) \in Scope
    BY DEF ScopeOf, Scope, Ask, TypeOK
  <2>4. store' \subseteq Ids /\ uses' \in [Ids -> Nat] /\ scope' \in [Ids -> Scope]
    BY <1>5, <2>1, <2>2, <2>3 DEF Grant, Live, TypeOK
  <2>5. /\ granted' \in [Ids -> Nat] /\ lease' \in [Threads -> Ids \cup {0}]
        /\ use' \in [Threads -> Nat] /\ phase' \in [Threads -> Phases]
    BY <1>5, <2>1, <2>2 DEF Grant, TypeOK
  <2> QED BY ZenonT(60), <1>5, <2>4, <2>5 DEF Grant, TypeOK
<1>6. CASE GrantRefused(t)
  BY ZenonT(60), <1>6, ReplyTypes DEF GrantRefused, TypeOK
<1>7. CASE Prepare(t)
  BY <1>7 DEF Prepare, TypeOK
<1>8. CASE PrepareRefused(t)
  BY ZenonT(60), <1>8 DEF PrepareRefused, TypeOK
<1>9. CASE Commit(t)
  <2>1. call[t] \in Ids /\ lease[t] \in Ids /\ use[t] \in Nat
    BY <1>9, AgentAssumption
    DEF Commit, CallsInv, UsesInv, InCall, Holding, TypeOK, Ids
  <2>2. released' \subseteq [call : Ids, lease : Ids, use : Nat]
    BY <1>9, <2>1 DEF Commit, TypeOK
  <2>3. phase' \in [Threads -> Phases]
    BY <1>9 DEF Commit, TypeOK
  <2> QED BY <1>9, <2>2, <2>3 DEF Commit, TypeOK
<1>10. CASE CommitFails(t)
  <2>1. faults' \in Nat /\ phase' \in [Threads -> Phases]
    BY <1>10 DEF CommitFails, TypeOK
  <2> QED BY <1>10, <2>1 DEF CommitFails, TypeOK
<1>11. CASE Undo(t)
  BY ZenonT(60), <1>11, ReplyTypes DEF Undo, TypeOK
<1> QED
  BY <1>1, <1>2, <1>3, <1>4, <1>5, <1>6, <1>7, <1>8, <1>9, <1>10, <1>11

\* The act and what follows it keep the types.
LEMMA ActingTypes ==
  ASSUME TypeOK, CallsInv, NEW t \in Threads
  PROVE  /\ MayWrite(t) \/ Rename(t) \/ WriteFails(t) \/ RecordWritten(t) => TypeOK'
         /\ CheckGate(t) \/ Spawn(t) \/ Register(t) \/ ChildEnds(t) => TypeOK'
         /\ After(t) => TypeOK'
<1> USE DEF vaultVars, leaseVars, fileVars, childVars, callVars, grantVars, cleanVars,
            countVars, histVars, Goto, Phases, Proceed, Fault, NoFault
<1>0. ask[t] \in Ask /\ ask[t].place \in Places /\ call[t] \in Files
  BY DEF TypeOK, Ask, Files, NoFile
<1>1. CASE MayWrite(t)
  BY ZenonT(60), <1>1 DEF MayWrite, TypeOK
<1>2. CASE Rename(t)
  <2>1. disk' \in [Places -> Files]
    BY <1>0, <1>2 DEF Rename, TypeOK
  <2> QED BY ZenonT(60), <1>2, <2>1 DEF Rename, TypeOK
<1>3. CASE WriteFails(t)
  <2>1. faults' \in Nat /\ phase' \in [Threads -> Phases]
    BY <1>3 DEF WriteFails, TypeOK
  <2> QED BY ZenonT(60), <1>3, <2>1 DEF WriteFails, TypeOK
<1>4. CASE RecordWritten(t)
  <2>1. ledger' \in [Places -> Files] /\ phase' \in [Threads -> Phases]
    BY <1>0, <1>4 DEF RecordWritten, TypeOK
  <2>2. wrote' \in [Ids -> SUBSET Places]
    BY <1>0, <1>4 DEF RecordWritten, TypeOK
  <2>3. overtaken' \subseteq Ids
    BY <1>4 DEF RecordWritten, TypeOK
  <2> QED BY ZenonT(60), <1>4, <2>1, <2>2, <2>3 DEF RecordWritten, TypeOK
<1>5. CASE CheckGate(t)
  <2>1. CASE Serving
    BY ZenonT(60), <1>5, <2>1 DEF CheckGate, TypeOK
  <2>2. CASE ~Serving
    BY ZenonT(60), <1>5, <2>2, ReplyTypes DEF CheckGate, TypeOK
  <2> QED BY <2>1, <2>2
<1>6. CASE Spawn(t)
  <2>1. child' \in [Threads -> {"none", "running", "dying"}]
    BY <1>6 DEF Spawn, TypeOK
  <2>2. phase' \in [Threads -> Phases]
    BY ZenonT(60), <1>6 DEF Spawn, TypeOK
  <2>3. faults' \in Nat
    BY <1>6 DEF Spawn, TypeOK
  <2> QED BY ZenonT(60), <1>6, <2>1, <2>2, <2>3 DEF Spawn, TypeOK
<1>7. CASE Register(t)
  <2>1. /\ child' \in [Threads -> {"none", "running", "dying"}]
        /\ phase' \in [Threads -> Phases] /\ registry' \subseteq Threads
    BY ZenonT(60), <1>7 DEF Register, TypeOK
  <2> QED BY ZenonT(60), <1>7, <2>1 DEF Register, TypeOK
<1>8. CASE ChildEnds(t)
  BY ZenonT(60), <1>8 DEF ChildEnds, TypeOK
<1>9. CASE After(t)
  <2>1. [place |-> ask[t].place, file |-> call[t]] \in Entry
    BY <1>0 DEF Entry
  <2>2. disk' \in [Places -> Files]
    BY <1>9, <2>1, ShreddedType DEF After, TypeOK
  <2> QED BY ZenonT(60), <1>9, <2>2, ReplyTypes DEF After, TypeOK
<1> QED BY <1>1, <1>2, <1>3, <1>4, <1>5, <1>6, <1>7, <1>8, <1>9

\* Tools and cleanups keep the types.
LEMMA CleaningTypes ==
  ASSUME TypeOK
  PROVE  /\ \A t \in Threads :
              LockTool(t) \/ RevokeEnvFile(t) \/ CleanedUp(t) => TypeOK'
         /\ HostStep => TypeOK'
         /\ \A w \in Workers : CleanStep(w) => TypeOK'
<1> USE DEF vaultVars, leaseVars, fileVars, childVars, callVars, grantVars, cleanVars,
            countVars, histVars, Goto, Phases
<1>0. App \in Workers /\ Host \in Workers /\ Threads \subseteq Workers
  BY DEF Workers
<1>1. ASSUME NEW t \in Threads, LockTool(t) PROVE TypeOK'
  <2>1. todo' \in [Workers -> Seq(Cleaning)] /\ phase' \in [Threads -> Phases]
    BY <1>1, CleaningLists DEF LockTool, TypeOK
  <2> QED BY <1>1, <2>1 DEF LockTool, TypeOK
<1>2. ASSUME NEW w \in Workers, NEW l \in Ids, RevokeLease(w, l)
      PROVE  store' \subseteq Ids /\ doomed' \in [Workers -> SUBSET Entry]
  BY <1>2, EntryTypes DEF RevokeLease, TypeOK
<1>3. ASSUME NEW t \in Threads, RevokeEnvFile(t) PROVE TypeOK'
  <2>1. ASSUME NEW p \in Places, RevokePath(t, p)
        PROVE  store' \subseteq Ids /\ doomed' \in [Workers -> SUBSET Entry]
    <3> DEFINE authors == {l \in store : p \in wrote[l]}
               places  == {p} \cup UNION {wrote[l] : l \in authors}
    <3>1. places \in SUBSET Places
      BY DEF TypeOK
    <3>2. EntriesFor(places) \in SUBSET Entry
      BY <3>1, EntryTypes
    <3> QED BY <2>1, <3>2 DEF RevokePath, TypeOK
  <2>2. store' \subseteq Ids /\ doomed' \in [Workers -> SUBSET Entry]
    BY <1>0, <1>2, <1>3, <2>1 DEF RevokeEnvFile
  <2>3. phase' \in [Threads -> Phases]
    BY <1>3 DEF RevokeEnvFile, TypeOK
  <2> QED BY ZenonT(60), <1>3, <2>2, <2>3 DEF RevokeEnvFile, TypeOK
<1>4. ASSUME NEW t \in Threads, CleanedUp(t) PROVE TypeOK'
  BY <1>4 DEF CleanedUp, TypeOK
<1>5. CASE HostStep
  <2> USE DEF CleanupBegins
  <2>1. CASE TakeVault
    <3>1. todo' \in [Workers -> Seq(Cleaning)]
      BY <1>0, <2>1, CleaningLists DEF TakeVault, TypeOK
    <3>2. cleanups' \in Nat
      BY <2>1 DEF TakeVault, TypeOK
    <3> QED BY ZenonT(60), <2>1, <3>1, <3>2 DEF TakeVault, TypeOK
  <2>2. CASE Stop
    <3>1. todo' \in [Workers -> Seq(Cleaning)]
      BY <1>0, <2>2, CleaningLists DEF Stop, TypeOK
    <3>2. cleanups' \in Nat
      BY <2>2 DEF Stop, TypeOK
    <3> QED BY ZenonT(60), <2>2, <3>1, <3>2 DEF Stop, TypeOK
  <2>3. CASE RevokeAll
    <3>1. todo' \in [Workers -> Seq(Cleaning)]
      BY <1>0, <2>3, CleaningLists DEF RevokeAll, TypeOK
    <3>2. cleanups' \in Nat
      BY <2>3 DEF RevokeAll, TypeOK
    <3> QED BY ZenonT(60), <2>3, <3>1, <3>2 DEF RevokeAll, TypeOK
  <2>4. ASSUME NEW l \in Ids, AppRevokesLease(l) PROVE TypeOK'
    BY SMTT(40), <1>0, <1>2, <2>4 DEF AppRevokesLease, TypeOK
  <2> QED BY <1>5, <2>1, <2>2, <2>3, <2>4 DEF HostStep
<1>6. ASSUME NEW w \in Workers, CleanStep(w) PROVE TypeOK'
  <2>1. ASSUME NEW step, NextIs(w, step) PROVE todo' \in [Workers -> Seq(Cleaning)]
    <3>1. todo[w] \in Seq(Cleaning) /\ todo[w] # <<>>
      BY <2>1 DEF NextIs, TypeOK
    <3>2. Tail(todo[w]) \in Seq(Cleaning)
      BY <3>1, CleaningTail
    <3> QED BY <2>1, <3>2 DEF NextIs, TypeOK
  <2>2. CASE DenyAll(w)
    BY <2>1, <2>2 DEF DenyAll, TypeOK, Answers
  <2>3. CASE Reopen(w)
    BY <2>1, <2>3 DEF Reopen, TypeOK
  <2>4. CASE RevokeEverything(w)
    <3>1. EntriesFor(Places) \in SUBSET Entry
      BY EntryTypes
    <3>2. ledger' \in [Places -> Files]
      BY <2>4 DEF RevokeEverything, Files
    <3> QED BY <2>1, <2>4, <3>1, <3>2 DEF RevokeEverything, TypeOK
  <2>5. CASE Shred(w)
    <3>1. PICK e \in doomed[w] : /\ doomed' = [doomed EXCEPT ![w] = @ \ {e}]
                                 /\ disk' = Shredded(e)
      BY <2>5 DEF Shred
    <3>2. e \in Entry
      BY DEF TypeOK
    <3>3. disk' \in [Places -> Files]
      BY <3>1, <3>2, ShreddedType
    <3> QED BY <2>5, <3>1, <3>3 DEF Shred, TypeOK
  <2>6. CASE KillAll(w)
    BY <2>1, <2>6 DEF KillAll, TypeOK
  <2>7. CASE WaitForHandle(w)
    BY <2>1, <2>7 DEF WaitForHandle, TypeOK
  <2>8. CASE Unhook(w)
    BY <2>1, <2>8 DEF Unhook, TypeOK
  <2> QED BY <1>6, <2>2, <2>3, <2>4, <2>5, <2>6, <2>7, <2>8 DEF CleanStep
<1> QED BY <1>1, <1>3, <1>4, <1>5, <1>6

\* The person, time and the user keep the types.
LEMMA OutsideTypes ==
  ASSUME TypeOK, PersonStep \/ OutsideStep
  PROVE  TypeOK'
<1> USE DEF vaultVars, leaseVars, fileVars, childVars, callVars, grantVars, cleanVars,
            countVars, histVars
<1>1. ASSUME NEW c \in Ids, NEW answer \in {"deny", "once", "session"},
             Resolve(c, answer)
      PROVE  TypeOK'
  <2>1. pending' \in [Threads -> Answers]
    BY <1>1 DEF Resolve, Question, TypeOK, Answers
  <2>2. allows' \subseteq Ids
    BY <1>1 DEF Resolve, TypeOK
  <2> QED BY <1>1, <2>1, <2>2 DEF Resolve, TypeOK
<1>2. ASSUME NEW l \in Ids, Expire(l) PROVE TypeOK'
  BY <1>2 DEF Expire, TypeOK
<1>3. ASSUME NEW p \in Places, UserPutsFile(p) PROVE TypeOK'
  <2>1. disk' \in [Places -> Files] /\ userFiles' \in Nat
    BY <1>3 DEF UserPutsFile, TypeOK, Files
  <2> QED BY <1>3, <2>1 DEF UserPutsFile, TypeOK
<1> QED BY <1>1, <1>2, <1>3 DEF PersonStep, OutsideStep

(***************************************************************************)
(* Steps that leave answers, leases and releases alone.                    *)
(***************************************************************************)

RequestInv == CallsInv /\ AnswersInv /\ UsesInv /\ ReleasesInv

\* The variables of RequestInv but for phase, pending and the request's own.
countedVars == <<calls, granted, uses, released, allows, holder, vault>>

\* A request that moves on without taking or giving anything.
LEMMA QuietStep ==
  ASSUME TypeOK, RequestInv, NEW t \in Threads, NEW next,
         phase' = [phase EXCEPT ![t] = next],
         UNCHANGED <<countedVars, call, lease, use, agreed, pending>>,
         phase[t] \in InCall \ {"waiting", "commit"},
         \/ next \in {"reserve", "preflight", "ask"} /\ phase[t] \in Undecided
         \/ next \in Acting
  PROVE  RequestInv'
<1> USE DEF RequestInv, countedVars
<1>1. /\ phase'[t] = next
      /\ \A u \in Threads \ {t} : phase'[u] = phase[u]
  BY DEF TypeOK
<1>2. /\ next \in InCall \ {"waiting", "commit", "grant", "prepare"}
      /\ next \in Undecided \cup Holding => phase[t] \in Undecided
  BY DEF InCall, Undecided, Holding, Acting
<1>3. CallsInv'
  BY <1>1, <1>2 DEF CallsInv
<1>4. AnswersInv'
  BY <1>1, <1>2 DEF AnswersInv, Undecided, Holding, Acting
<1>5. UsesInv'
  BY <1>1, <1>2 DEF UsesInv, Holding
<1>6. ReleasesInv'
  BY <1>1, <1>2 DEF ReleasesInv, Undecided, Holding, Acting
<1> QED BY <1>3, <1>4, <1>5, <1>6

\* A request that ends.
LEMMA ReplyStep ==
  ASSUME TypeOK, RequestInv, NEW t \in Threads, Reply(t),
         UNCHANGED countedVars,
         \/ pending' = pending /\ pending[t] = "none"
         \/ pending' = [pending EXCEPT ![t] = "none"],
         phase[t] # "commit"
  PROVE  RequestInv'
<1> USE DEF RequestInv, countedVars
<1>1. /\ phase'[t] = "idle" /\ call'[t] = 0
      /\ \A u \in Threads \ {t} :
           /\ phase'[u] = phase[u] /\ call'[u] = call[u] /\ lease'[u] = lease[u]
           /\ use'[u] = use[u] /\ agreed'[u] = agreed[u]
  BY DEF Reply, Goto, TypeOK
<1>2. pending'[t] = "none" /\ \A u \in Threads \ {t} : pending'[u] = pending[u]
  BY DEF TypeOK
<1>3. "idle" \notin InCall \cup Undecided \cup Holding \cup {"waiting", "grant"}
  BY DEF InCall, Undecided, Holding, Acting
<1>4. CallsInv'
  BY <1>1, <1>2, <1>3 DEF CallsInv
<1>5. AnswersInv'
  BY <1>1, <1>2, <1>3 DEF AnswersInv
<1>6. UsesInv'
  BY <1>1, <1>3 DEF UsesInv
<1>7. ReleasesInv'
  BY <1>1, <1>3 DEF ReleasesInv
<1> QED BY <1>4, <1>5, <1>6, <1>7

\* A thread that is in no call, or that none of this is about.
LEMMA ElsewhereStep ==
  ASSUME TypeOK, RequestInv,
         UNCHANGED <<granted, uses, released, allows, holder, call, lease, use, agreed>>,
         calls' \in {calls, calls + 1},
         \/ UNCHANGED phase
         \/ \E t \in Threads, next \in {"idle", "clean", "locking", "revoking"} :
              phase[t] \notin InCall /\ phase' = [phase EXCEPT ![t] = next],
         UNCHANGED pending \/ pending' = [t \in Threads |-> "none"],
         holder # NoThread => vault' = vault
  PROVE  RequestInv'
<1> USE DEF RequestInv
<1>1. \A t \in Threads : \/ phase'[t] = phase[t]
                         \/ phase[t] \notin InCall /\ phase'[t] \notin InCall
  <2>1. \A next \in {"idle", "clean", "locking", "revoking"} : next \notin InCall
    BY DEF InCall, Undecided, Holding, Acting
  <2> QED BY <2>1 DEF TypeOK
<1>2. \A t \in Threads : pending'[t] = pending[t] \/ pending'[t] = "none"
  OBVIOUS
<1>3. calls \in Nat /\ calls' \in Nat /\ calls <= calls'
  BY DEF TypeOK
<1>4. /\ Undecided \subseteq InCall /\ Holding \subseteq InCall
      /\ {"waiting", "grant", "commit"} \subseteq InCall
  BY DEF InCall, Undecided, Holding
<1>5. CallsInv'
  <2>1. \A t \in Threads : call[t] \in 1..calls => call[t] \in 1..calls'
    BY <1>3 DEF TypeOK
  <2>2. \A t \in Threads : pending[t] # "none" => phase'[t] = "waiting"
    BY <1>1, <1>4 DEF CallsInv
  <2>3. \A t \in Threads : (phase'[t] = "commit") <=> (phase[t] = "commit")
    BY <1>1, <1>4
  <2> QED BY <1>1, <1>2, <1>4, <2>1, <2>2, <2>3 DEF CallsInv
<1>6. AnswersInv'
  <2>1. \A l \in Ids : l <= calls => l <= calls'
    BY <1>3 DEF Ids
  <2>2. \A t \in Threads : pending'[t] \in {"once", "session"} => pending'[t] = pending[t]
    BY <1>2
  <2> QED BY <1>1, <1>4, <2>1, <2>2 DEF AnswersInv
<1>7. UsesInv'
  BY <1>1, <1>4 DEF UsesInv
<1>8. ReleasesInv'
  <2>1. \A r \in released : r.call <= calls => r.call <= calls'
    BY <1>3 DEF TypeOK, Ids
  <2> QED BY <1>1, <1>4, <2>1 DEF ReleasesInv
<1> QED BY <1>5, <1>6, <1>7, <1>8

(***************************************************************************)
(* Steps that take, give or spend.                                         *)
(***************************************************************************)

\* A call has a number nobody had before.
LEMMA BeginStep ==
  ASSUME TypeOK, RequestInv, NEW t \in Threads, Begin(t)
  PROVE  RequestInv'
<1> USE DEF RequestInv, vaultVars, leaseVars, grantVars, histVars, Goto
<1>1. /\ phase'[t] = "look" /\ call'[t] = calls + 1 /\ calls' = calls + 1
      /\ \A u \in Threads \ {t} : phase'[u] = phase[u] /\ call'[u] = call[u]
      /\ UNCHANGED <<vault, holder, pending, uses, agreed, lease, use, granted,
                     released, allows>>
  BY DEF Begin, TypeOK
<1>2. calls \in Nat /\ calls + 1 \in Ids
  BY AgentAssumption DEF Begin, TypeOK, Ids
<1>3. phase[t] = "idle" /\ "idle" \notin InCall /\ "look" \in InCall
  BY DEF Begin, InCall, Undecided, Holding, Acting
<1>4. \A u \in Threads : call[u] \in Nat /\ call[u] <= calls
  BY <1>2 DEF CallsInv
<1>5. CallsInv'
  <2>1. \A u \in Threads : call[u] \in 1..calls => call[u] \in 1..(calls + 1)
    BY <1>2
  <2>2. calls + 1 \in 1..(calls + 1)
    BY <1>2
  <2>3. \A u \in Threads : call[u] # calls + 1
    BY <1>2, <1>4
  <2> QED BY <1>1, <1>3, <2>1, <2>2, <2>3 DEF CallsInv
<1>6. granted[calls + 1] = 0
  <2>1. granted[calls + 1] \in Nat
    BY <1>2 DEF TypeOK
  <2>2. ~(calls + 1 <= calls)
    BY <1>2
  <2>3. ~(granted[calls + 1] > 0)
    BY <1>2, <2>2 DEF AnswersInv
  <2> QED BY <2>1, <2>3
<1>7. AnswersInv'
  <2>1. \A l \in Ids : l <= calls => l <= calls + 1
    BY <1>2 DEF Ids
  <2>2. pending[t] = "none"
    BY <1>3 DEF CallsInv
  <2> QED BY <1>1, <1>6, <2>1, <2>2 DEF AnswersInv
<1>8. UsesInv'
  BY <1>1 DEF UsesInv, Holding
<1>9. ReleasesInv'
  <2>1. \A r \in released : r.call \in Nat /\ r.call <= calls
    BY DEF ReleasesInv, TypeOK, Ids
  <2>2. \A r \in released : r.call <= calls + 1 /\ r.call # calls + 1
    BY <1>2, <2>1
  <2> QED BY <1>1, <2>2 DEF ReleasesInv
<1> QED BY <1>5, <1>7, <1>8, <1>9

\* The use set aside is the last of those that were left.
LEMMA ReserveStep ==
  ASSUME TypeOK, RequestInv, NEW t \in Threads, ReserveLeased(t)
  PROVE  RequestInv'
<1> USE DEF RequestInv, vaultVars, callVars, countVars, histVars, Goto
<1>1. PICK l \in Covering(t) : /\ lease' = [lease EXCEPT ![t] = l]
                               /\ use' = [use EXCEPT ![t] = uses[l]]
                               /\ uses' = [uses EXCEPT ![l] = @ - 1]
  BY DEF ReserveLeased
<1>2. l \in Ids /\ uses[l] \in Nat /\ uses[l] > 0 /\ uses[l] <= granted[l]
  BY DEF Covering, Live, TypeOK, UsesInv
<1>3. /\ phase'[t] = "prepare" /\ lease'[t] = l /\ use'[t] = uses[l]
      /\ uses'[l] = uses[l] - 1
      /\ \A u \in Threads \ {t} :
           phase'[u] = phase[u] /\ lease'[u] = lease[u] /\ use'[u] = use[u]
      /\ \A m \in Ids \ {l} : uses'[m] = uses[m]
      /\ UNCHANGED <<vault, holder, pending, call, calls, agreed, granted,
                     released, allows>>
  BY <1>1, <1>2 DEF ReserveLeased, TypeOK
<1>4. phase[t] = "reserve" /\ "reserve" \in InCall /\ "prepare" \in InCall
  BY DEF ReserveLeased, InCall, Undecided, Holding
<1>5. CallsInv'
  BY <1>3, <1>4 DEF CallsInv
<1>6. AnswersInv'
  BY <1>3 DEF AnswersInv, Undecided
<1>7. UsesInv'
  <2>1. /\ granted \in [Ids -> Nat] /\ uses \in [Ids -> Nat]
        /\ use \in [Threads -> Nat]
        /\ \A r \in released : r.lease \in Ids /\ r.use \in Nat
    BY DEF TypeOK
  <2>2. \A m \in Ids : uses'[m] \in Nat /\ uses'[m] <= uses[m] /\ uses'[m] <= granted[m]
    BY <1>2, <1>3, <2>1 DEF UsesInv
  <2>3. \A u \in Threads \ {t} :
          phase[u] \in Holding /\ lease[u] = l => uses[l] < use[u]
    BY DEF UsesInv
  <2>4. \A r \in released : r.lease = l => uses[l] < r.use
    BY DEF UsesInv
  <2>5. ASSUME NEW u \in Threads, phase'[u] \in Holding
        PROVE  /\ lease'[u] \in Ids
               /\ uses'[lease'[u]] < use'[u] /\ use'[u] <= granted[lease'[u]]
               /\ \A x \in Threads \ {u} :
                    phase'[x] \in Holding /\ lease'[x] = lease'[u] =>
                      use'[x] # use'[u]
               /\ \A r \in released : r.lease = lease'[u] => r.use # use'[u]
    <3>1. CASE u = t
      <4>1. \A x \in Threads \ {t} :
              phase[x] \in Holding /\ lease[x] = l => use[x] # uses[l]
        BY <1>2, <2>1, <2>3
      <4>2. \A r \in released : r.lease = l => r.use # uses[l]
        BY <1>2, <2>1, <2>4
      <4>3. uses[l] - 1 < uses[l]
        BY <1>2
      <4> QED BY <1>2, <1>3, <3>1, <4>1, <4>2, <4>3
    <3>2. CASE u # t
      <4>1. /\ phase[u] \in Holding /\ lease'[u] = lease[u] /\ use'[u] = use[u]
            /\ lease[u] \in Ids
            /\ uses[lease[u]] < use[u] /\ use[u] <= granted[lease[u]]
        BY <1>3, <2>5, <3>2 DEF UsesInv
      <4>2. uses'[lease[u]] < use[u]
        BY <2>1, <2>2, <4>1
      <4>3. lease[u] = l => use[u] # uses[l]
        BY <1>2, <2>1, <2>3, <3>2, <4>1
      <4>4. \A x \in Threads \ {u} :
              phase'[x] \in Holding /\ lease'[x] = lease[u] => use'[x] # use[u]
        BY <1>3, <3>2, <4>1, <4>3 DEF UsesInv
      <4> QED BY <4>1, <4>2, <4>4 DEF UsesInv
    <3> QED BY <3>1, <3>2
  <2>6. \A r \in released : uses'[r.lease] < r.use /\ r.use <= granted[r.lease]
    BY <2>1, <2>2 DEF UsesInv
  <2> QED BY <1>3, <2>2, <2>5, <2>6 DEF UsesInv
<1>8. ReleasesInv'
  BY <1>3, <1>4 DEF ReleasesInv, Undecided, Holding
<1> QED BY <1>5, <1>6, <1>7, <1>8

\* The question is queued.
LEMMA EnqueueStep ==
  ASSUME TypeOK, RequestInv, NEW t \in Threads, Enqueue(t), ~closed
  PROVE  RequestInv'
<1> USE DEF RequestInv, vaultVars, leaseVars, callVars, grantVars, countVars,
            histVars, Goto, Proceed
<1>1. /\ phase'[t] = "waiting" /\ pending'[t] = "waiting" /\ phase[t] = "ask"
      /\ \A u \in Threads \ {t} : phase'[u] = phase[u] /\ pending'[u] = pending[u]
      /\ UNCHANGED <<vault, holder, call, calls, agreed, lease, use, uses, granted,
                     released, allows>>
  BY DEF Enqueue, TypeOK
<1>2. "ask" \in InCall /\ "waiting" \in InCall
  BY DEF InCall, Undecided
<1>3. CallsInv'
  BY <1>1, <1>2 DEF CallsInv
<1>4. AnswersInv'
  BY <1>1 DEF AnswersInv, Undecided
<1>5. UsesInv'
  BY <1>1 DEF UsesInv, Holding
<1>6. ReleasesInv'
  BY <1>1 DEF ReleasesInv, Undecided, Holding
<1> QED BY <1>3, <1>4, <1>5, <1>6

\* The person answers the sheet of a call.
LEMMA ResolveStep ==
  ASSUME TypeOK, RequestInv, NEW c \in Ids,
         NEW answer \in {"deny", "once", "session"}, Resolve(c, answer)
  PROVE  RequestInv'
<1> USE DEF RequestInv, vaultVars, leaseVars, callVars, grantVars, countVars
<1>1. PICK t \in Threads : /\ call[t] = c /\ pending[t] = "waiting"
                           /\ pending' = [pending EXCEPT ![t] = answer]
  BY DEF Resolve, Question
<1>2. /\ pending'[t] = answer
      /\ \A u \in Threads \ {t} : pending'[u] = pending[u]
      /\ UNCHANGED <<vault, holder, phase, call, calls, agreed, lease, use, uses,
                     granted, released>>
      /\ allows \subseteq allows' /\ (answer # "deny" => c \in allows')
  BY <1>1 DEF Resolve, TypeOK
<1>3. CallsInv'
  BY <1>1, <1>2 DEF CallsInv
<1>4. AnswersInv'
  BY <1>1, <1>2 DEF AnswersInv
<1>5. UsesInv'
  BY <1>2 DEF UsesInv
<1>6. ReleasesInv'
  BY <1>2 DEF ReleasesInv
<1> QED BY <1>3, <1>4, <1>5, <1>6

\* ask returns with an allow.
LEMMA AllowedStep ==
  ASSUME TypeOK, RequestInv, NEW t \in Threads, Answered(t), pending[t] # "deny"
  PROVE  RequestInv'
<1> USE DEF RequestInv, vaultVars, leaseVars, callVars, countVars, histVars, Goto
<1>0. UsesAgreed(t) \in Nat /\ UsesAgreed(t) > 0
  BY AgentAssumption DEF UsesAgreed
<1>1. /\ phase'[t] = "grant" /\ pending'[t] = "none" /\ phase[t] = "waiting"
      /\ agreed'[t] = UsesAgreed(t) /\ pending[t] \in {"once", "session"}
      /\ \A u \in Threads \ {t} : /\ phase'[u] = phase[u] /\ pending'[u] = pending[u]
                                  /\ agreed'[u] = agreed[u]
      /\ UNCHANGED <<vault, holder, call, calls, lease, use, uses, granted,
                     released, allows>>
  BY DEF Answered, TypeOK
<1>2. "grant" \in InCall /\ "waiting" \in InCall
  BY DEF InCall, Undecided
<1>3. CallsInv'
  BY <1>1, <1>2 DEF CallsInv
<1>4. AnswersInv'
  BY <1>0, <1>1 DEF AnswersInv, Undecided
<1>5. UsesInv'
  BY <1>1 DEF UsesInv, Holding
<1>6. ReleasesInv'
  BY <1>1 DEF ReleasesInv, Undecided, Holding
<1> QED BY <1>3, <1>4, <1>5, <1>6

\* The lease of a call is granted, and its first use set aside.
LEMMA GrantStep ==
  ASSUME TypeOK, RequestInv, NEW t \in Threads, Grant(t)
  PROVE  RequestInv'
<1> USE DEF RequestInv, vaultVars, callVars, countVars, Goto
<1> DEFINE l == call[t]
<1>1. /\ l \in Ids /\ l <= calls /\ l \in allows /\ granted[l] = 0
      /\ agreed[t] \in Nat /\ agreed[t] > 0 /\ phase[t] = "grant"
  BY AgentAssumption
  DEF Grant, CallsInv, AnswersInv, InCall, Undecided, TypeOK, Ids
<1>2. /\ phase'[t] = "prepare" /\ lease'[t] = l /\ use'[t] = agreed[t]
      /\ uses'[l] = agreed[t] - 1 /\ granted'[l] = agreed[t]
      /\ \A u \in Threads \ {t} :
           phase'[u] = phase[u] /\ lease'[u] = lease[u] /\ use'[u] = use[u]
      /\ \A m \in Ids \ {l} : uses'[m] = uses[m] /\ granted'[m] = granted[m]
      /\ UNCHANGED <<vault, holder, pending, call, calls, agreed, released, allows>>
  BY <1>1 DEF Grant, TypeOK
<1>3. "grant" \in InCall /\ "prepare" \in InCall
  BY DEF InCall, Undecided, Holding
<1>4. CallsInv'
  BY <1>1, <1>2, <1>3 DEF CallsInv
<1>5. \A u \in Threads \ {t} : phase[u] \in InCall => call[u] # l
  BY <1>1 DEF CallsInv, Ids
<1>6. AnswersInv'
  <2>1. \A u \in Threads \ {t} : phase[u] \in Undecided => call[u] \in Ids \ {l}
    BY <1>5, AgentAssumption DEF CallsInv, InCall, TypeOK, Ids
  <2> QED BY <1>1, <1>2, <2>1 DEF AnswersInv, Undecided
<1>7. UsesInv'
  <2>1. /\ granted \in [Ids -> Nat] /\ uses \in [Ids -> Nat]
        /\ use \in [Threads -> Nat]
        /\ \A r \in released : r.lease \in Ids /\ r.use \in Nat
    BY DEF TypeOK
  <2>2. \A u \in Threads \ {t} : phase[u] \in Holding => lease[u] # l
    BY <1>1, <2>1 DEF UsesInv
  <2>3. \A r \in released : r.lease # l
    BY <1>1, <2>1 DEF UsesInv
  <2>4. agreed[t] - 1 < agreed[t] /\ agreed[t] - 1 <= agreed[t]
    BY <1>1
  <2> HIDE DEF l
  <2>5. ASSUME NEW u \in Threads, phase'[u] \in Holding
        PROVE  /\ lease'[u] \in Ids
               /\ uses'[lease'[u]] < use'[u] /\ use'[u] <= granted'[lease'[u]]
               /\ \A x \in Threads \ {u} :
                    phase'[x] \in Holding /\ lease'[x] = lease'[u] =>
                      use'[x] # use'[u]
               /\ \A r \in released : r.lease = lease'[u] => r.use # use'[u]
    <3>1. CASE u = t
      BY <1>1, <1>2, <2>2, <2>3, <2>4, <3>1
    <3>2. CASE u # t
      BY <1>2, <2>2, <2>5, <3>2 DEF UsesInv
    <3> QED BY <3>1, <3>2
  <2>6. \A m \in Ids : uses'[m] <= granted'[m]
    BY <1>2, <2>4 DEF UsesInv
  <2>7. \A r \in released : uses'[r.lease] < r.use /\ r.use <= granted'[r.lease]
    BY <1>2, <2>1, <2>3 DEF UsesInv
  <2> QED BY <1>2, <2>5, <2>6, <2>7 DEF UsesInv
<1>8. ReleasesInv'
  BY <1>1, <1>2 DEF ReleasesInv, Undecided, Holding
<1> QED BY <1>4, <1>6, <1>7, <1>8

\* The transaction of a release: it takes the handle's mutex, and lets go of it.
LEMMA TransactionStep ==
  ASSUME TypeOK, RequestInv, NEW t \in Threads,
         Prepare(t) \/ Commit(t) \/ CommitFails(t)
  PROVE  RequestInv'
<1> USE DEF RequestInv, leaseVars, callVars, grantVars, countVars, Goto
<1>0. /\ \A u \in Threads \ {t} : phase'[u] = phase[u]
      /\ phase[t] \in Holding /\ phase'[t] \in InCall \ Undecided
      /\ UNCHANGED <<vault, pending, call, calls, agreed, lease, use, uses, granted,
                     allows>>
      /\ Holding \subseteq InCall
  <2>1. \E next \in {"commit", "write", "gate", "undo"} :
          phase' = [phase EXCEPT ![t] = next]
    BY DEF Prepare, Commit, CommitFails
  <2>2. phase[t] \in Holding
    BY DEF Prepare, Commit, CommitFails, Holding
  <2>3. UNCHANGED <<vault, pending, call, calls, agreed, lease, use, uses, granted,
                    allows>>
    BY DEF Prepare, Commit, CommitFails, histVars
  <2> QED BY <2>1, <2>2, <2>3 DEF TypeOK, InCall, Undecided, Holding, Acting
<1>1. AnswersInv'
  BY <1>0 DEF AnswersInv, Undecided
<1>2. CASE Prepare(t)
  <2>1. /\ holder = NoThread /\ holder' = t /\ phase'[t] = "commit" /\ vault = "here"
        /\ phase[t] = "prepare" /\ released' = released /\ vault' = vault
    BY <1>2 DEF Prepare, HandleFree, TypeOK, histVars
  <2>2. CallsInv'
    BY <1>0, <2>1, AgentAssumption DEF CallsInv
  <2>3. UsesInv'
    BY <1>0, <2>1 DEF UsesInv, Holding
  <2>4. ReleasesInv'
    BY <1>0, <2>1 DEF ReleasesInv, Holding
  <2> QED BY <1>1, <2>2, <2>3, <2>4
<1>3. CASE Commit(t) \/ CommitFails(t)
  <2>1. /\ phase[t] = "commit" /\ holder' = NoThread /\ phase'[t] \notin Holding
        /\ phase'[t] \notin Undecided /\ phase'[t] # "commit"
    BY <1>3 DEF Commit, CommitFails, TypeOK, Undecided, Holding
  <2>2. \A u \in Threads \ {t} : phase[u] # "commit"
    BY <2>1 DEF CallsInv
  <2>3. CallsInv'
    BY <1>0, <2>1, <2>2, AgentAssumption DEF CallsInv
  <2>4. CASE released' = released
    BY <1>0, <1>1, <2>1, <2>3, <2>4 DEF UsesInv, ReleasesInv
  <2>5. CASE released' = released \cup
               {[call |-> call[t], lease |-> lease[t], use |-> use[t]]}
    <3> DEFINE new == [call |-> call[t], lease |-> lease[t], use |-> use[t]]
    <3>1. /\ lease[t] \in Ids
          /\ uses[lease[t]] < use[t] /\ use[t] <= granted[lease[t]]
          /\ \A r \in released : r.lease = lease[t] => r.use # use[t]
          /\ \A u \in Threads \ {t} :
               phase[u] \in Holding /\ lease[u] = lease[t] => use[u] # use[t]
      BY <1>0 DEF UsesInv
    <3>2. new.call = call[t] /\ new.lease = lease[t] /\ new.use = use[t]
      OBVIOUS
    <3>3. released' = released \cup {new}
      BY <2>5
    <3>4. call[t] \in 1..calls
      BY <1>0 DEF CallsInv
    <3>5. calls \in Nat
      BY DEF TypeOK
    <3>6. \A u \in Threads \ {t} : phase[u] \in InCall => call[u] # call[t]
      BY <3>4, <3>5 DEF CallsInv
    <3> HIDE DEF new
    <3>7. UsesInv'
      BY <1>0, <2>1, <3>1, <3>2, <3>3 DEF UsesInv
    <3>8. ReleasesInv'
      <4>1. new.call <= calls
        BY <3>2, <3>4, <3>5
      <4>2. \A u \in Threads :
              phase'[u] \in Undecided \cup Holding => u # t /\ phase[u] \in InCall
        BY <1>0, <2>1 DEF InCall
      <4> QED BY <1>0, <3>2, <3>3, <3>6, <4>1, <4>2 DEF ReleasesInv
    <3> QED BY <1>1, <2>3, <3>7, <3>8
  <2> QED BY <1>3, <2>4, <2>5 DEF Commit, CommitFails, histVars
<1> QED BY <1>2, <1>3

\* A lease runs out.
LEMMA ExpireStep ==
  ASSUME TypeOK, RequestInv, NEW l \in Ids, Expire(l)
  PROVE  RequestInv'
<1> USE DEF RequestInv, vaultVars, callVars, grantVars, countVars, histVars
<1>1. /\ \A m \in Ids : uses'[m] \in {0, uses[m]}
      /\ UNCHANGED <<vault, holder, phase, pending, call, calls, agreed, lease, use,
                     granted, released, allows>>
  BY DEF Expire, TypeOK
<1>2. CallsInv' /\ AnswersInv' /\ ReleasesInv'
  BY <1>1 DEF CallsInv, AnswersInv, ReleasesInv
<1>3. UsesInv'
  <2>0. \A m \in Ids : uses[m] \in Nat
    BY DEF TypeOK
  <2>1. \A m \in Ids : uses[m] \in Nat /\ uses'[m] <= uses[m] /\ uses'[m] \in Nat
    BY <1>1, <2>0
  <2>2. \A m \in Ids : granted[m] \in Nat
    BY DEF TypeOK
  <2>3. \A t \in Threads : use[t] \in Nat
    BY DEF TypeOK
  <2>4. \A r \in released : r.lease \in Ids /\ r.use \in Nat
    BY DEF TypeOK
  <2>5. \A m \in Ids : uses'[m] <= granted[m]
    BY <2>1, <2>2 DEF UsesInv
  <2>6. \A m \in Ids, n \in Nat : uses[m] < n => uses'[m] < n
    BY <2>1
  <2> QED BY <1>1, <2>3, <2>4, <2>5, <2>6 DEF UsesInv
<1> QED BY <1>2, <1>3

\* No step of a request breaks RequestInv.
LEMMA RequestSteps ==
  ASSUME TypeOK, RequestInv, NEW t \in Threads,
         RequestStep(t) \/ RequestBegins(t)
  PROVE  RequestInv'
<1> USE DEF vaultVars, leaseVars, fileVars, childVars, callVars, grantVars, cleanVars,
            countVars, histVars, countedVars, Proceed, Goto
<1>0. /\ {"look", "reserve", "preflight", "ask", "waiting", "grant"} = Undecided
      /\ {"prepare", "commit"} = Holding
      /\ {"undo", "write", "rename", "record", "gate", "spawn", "register", "wait",
          "after"} = Acting
      /\ InCall = Undecided \cup Holding \cup Acting
  BY DEF Undecided, Holding, Acting, InCall
<1>1. CASE Begin(t)
  BY <1>1, BeginStep
<1>2. CASE BeginLocked(t)
  BY <1>0, <1>2, ElsewhereStep DEF BeginLocked
<1>3. CASE BeginTool(t)
  BY <1>0, <1>3, ElsewhereStep DEF BeginTool
<1>4. CASE LockTool(t)
  BY <1>0, <1>4, ElsewhereStep DEF LockTool
<1>5. CASE RevokeEnvFile(t)
  BY <1>0, <1>5, ElsewhereStep DEF RevokeEnvFile
<1>6. CASE CleanedUp(t)
  BY <1>0, <1>6, ElsewhereStep DEF CleanedUp
<1>7. ASSUME Reply(t), UNCHANGED countedVars, phase[t] \notin {"waiting", "commit"},
             UNCHANGED pending
      PROVE  RequestInv'
  BY <1>7, ReplyStep DEF RequestInv, CallsInv
<1>8. CASE LookRefused(t) \/ ReserveRefused(t) \/ GrantRefused(t)
  BY <1>7, <1>8 DEF LookRefused, ReserveRefused, GrantRefused
<1>9. CASE Undo(t) \/ After(t)
  BY <1>7, <1>9 DEF Undo, After
<1>10. CASE Look(t)
  BY <1>0, <1>10, QuietStep DEF Look
<1>11. CASE ReserveLeased(t)
  BY <1>11, ReserveStep
<1>12. CASE ReserveUnleased(t)
  BY <1>0, <1>12, QuietStep DEF ReserveUnleased
<1>13. CASE Preflight(t)
  <2>1. CASE Reply(t)
    BY <1>7, <1>13, <2>1 DEF Preflight
  <2>2. CASE Proceed(t, "ask")
    BY <1>0, <1>13, <2>2, QuietStep DEF Preflight
  <2> QED BY <1>13, <2>1, <2>2 DEF Preflight
<1>14. CASE Enqueue(t)
  <2>1. CASE closed
    BY <1>7, <1>14, <2>1 DEF Enqueue
  <2>2. CASE ~closed
    BY <1>14, <2>2, EnqueueStep
  <2> QED BY <2>1, <2>2
<1>15. CASE Answered(t)
  <2>1. CASE pending[t] = "deny"
    BY <1>15, <2>1, ReplyStep DEF Answered
  <2>2. CASE pending[t] # "deny"
    BY <1>15, <2>2, AllowedStep
  <2> QED BY <2>1, <2>2
<1>16. CASE NotAnswered(t)
  BY <1>16, ReplyStep DEF NotAnswered
<1>17. CASE Grant(t)
  BY <1>17, GrantStep
<1>18. CASE Prepare(t) \/ Commit(t) \/ CommitFails(t)
  BY <1>18, TransactionStep
<1>19. CASE PrepareRefused(t)
  BY <1>0, <1>19, QuietStep DEF PrepareRefused
<1>20. CASE MayWrite(t) \/ Rename(t)
  BY <1>0, <1>20, QuietStep DEF MayWrite, Rename
<1>21. CASE WriteFails(t)
  BY <1>0, <1>21, QuietStep DEF WriteFails
<1>22. CASE RecordWritten(t)
  BY <1>0, <1>22, QuietStep DEF RecordWritten
<1>23. CASE CheckGate(t)
  <2>1. CASE Serving
    BY <1>0, <1>23, <2>1, QuietStep DEF CheckGate
  <2>2. CASE ~Serving
    BY <1>7, <1>23, <2>2 DEF CheckGate
  <2> QED BY <2>1, <2>2
<1>24. CASE Spawn(t)
  BY <1>0, <1>24, QuietStep DEF Spawn
<1>25. CASE Register(t) \/ ChildEnds(t)
  BY <1>0, <1>25, QuietStep DEF Register, ChildEnds
<1> QED
  BY <1>1, <1>2, <1>3, <1>4, <1>5, <1>6, <1>8, <1>9, <1>10, <1>11, <1>12, <1>13,
     <1>14, <1>15, <1>16, <1>17, <1>18, <1>19, <1>20, <1>21, <1>22, <1>23, <1>24,
     <1>25
  DEF RequestStep, RequestBegins

\* Nor does anybody else's.
LEMMA OtherSteps ==
  ASSUME TypeOK, RequestInv,
         \/ \E w \in Workers : CleanStep(w)
         \/ HostStep \/ PersonStep \/ OutsideStep
  PROVE  RequestInv'
<1> USE DEF vaultVars, leaseVars, fileVars, childVars, callVars, grantVars, cleanVars,
            countVars, histVars
<1>1. ASSUME NEW w \in Workers, CleanStep(w) PROVE RequestInv'
  <2>1. CASE DenyAll(w)
    BY <2>1, ElsewhereStep DEF DenyAll
  <2>2. CASE Reopen(w) \/ RevokeEverything(w)
    BY <2>2, ElsewhereStep DEF Reopen, RevokeEverything
  <2>3. CASE Shred(w) \/ KillAll(w)
    BY <2>3, ElsewhereStep DEF Shred, KillAll
  <2>4. CASE WaitForHandle(w) \/ Unhook(w)
    BY <2>4, ElsewhereStep DEF WaitForHandle, Unhook
  <2> QED BY <1>1, <2>1, <2>2, <2>3, <2>4 DEF CleanStep
<1>2. CASE HostStep
  <2>1. CASE TakeVault
    BY <2>1, ElsewhereStep DEF TakeVault, HandleFree
  <2>2. CASE Stop \/ RevokeAll
    BY <2>2, ElsewhereStep DEF Stop, RevokeAll
  <2>3. ASSUME NEW l \in Ids, AppRevokesLease(l) PROVE RequestInv'
    BY <2>3, ElsewhereStep DEF AppRevokesLease
  <2> QED BY <1>2, <2>1, <2>2, <2>3 DEF HostStep
<1>3. CASE PersonStep
  BY <1>3, ResolveStep DEF PersonStep
<1>4. CASE OutsideStep
  <2>1. ASSUME NEW p \in Places, UserPutsFile(p) PROVE RequestInv'
    BY <2>1, ElsewhereStep DEF UserPutsFile
  <2> QED BY <1>4, <2>1, ExpireStep DEF OutsideStep
<1> QED BY <1>1, <1>2, <1>3, <1>4

(***************************************************************************)
(* Children.                                                               *)
(***************************************************************************)

LEMMA ChildrenKept ==
  ASSUME NoChildEscapes, UNCHANGED childVars,
         \A u \in Threads : phase[u] = "register" => phase'[u] = "register"
  PROVE  NoChildEscapes'
BY DEF NoChildEscapes, childVars

LEMMA RequestChildren ==
  ASSUME TypeOK, NoChildEscapes, NEW t \in Threads,
         RequestStep(t) \/ RequestBegins(t)
  PROVE  NoChildEscapes'
<1>0. ASSUME Reply(t), UNCHANGED childVars, phase[t] # "register"
      PROVE  NoChildEscapes'
  BY <1>0, ChildrenKept DEF Reply, Goto, TypeOK
<1>1. ASSUME NEW next, Goto(t, next), UNCHANGED childVars, phase[t] # "register"
      PROVE  NoChildEscapes'
  BY <1>1, ChildrenKept DEF Goto, TypeOK
<1>2. CASE Begin(t) \/ BeginLocked(t) \/ BeginTool(t)
  BY <1>1, <1>2 DEF Begin, BeginLocked, BeginTool
<1>3. CASE LockTool(t) \/ RevokeEnvFile(t) \/ CleanedUp(t)
  BY <1>1, <1>3 DEF LockTool, RevokeEnvFile, CleanedUp
<1>4. CASE Look(t) \/ LookRefused(t)
  BY <1>0, <1>1, <1>4 DEF Look, LookRefused
<1>5. CASE ReserveLeased(t) \/ ReserveUnleased(t) \/ ReserveRefused(t)
  BY <1>0, <1>1, <1>5 DEF ReserveLeased, ReserveUnleased, ReserveRefused
<1>6. CASE Preflight(t) \/ Enqueue(t)
  BY <1>0, <1>1, <1>6 DEF Preflight, Enqueue, Proceed
<1>7. CASE Answered(t) \/ NotAnswered(t)
  BY <1>0, <1>1, <1>7 DEF Answered, NotAnswered
<1>8. CASE Grant(t) \/ GrantRefused(t)
  BY <1>0, <1>1, <1>8 DEF Grant, GrantRefused
<1>9. CASE Prepare(t) \/ PrepareRefused(t)
  BY <1>1, <1>9 DEF Prepare, PrepareRefused
<1>10. CASE Commit(t) \/ CommitFails(t) \/ Undo(t)
  BY <1>0, <1>1, <1>10 DEF Commit, CommitFails, Undo
<1>11. CASE MayWrite(t) \/ Rename(t) \/ WriteFails(t)
  BY <1>1, <1>11 DEF MayWrite, Rename, WriteFails, Proceed
<1>12. CASE RecordWritten(t) \/ CheckGate(t) \/ After(t)
  BY <1>0, <1>1, <1>12 DEF RecordWritten, CheckGate, After, Proceed
<1>13. CASE Spawn(t)
  <2>1. CASE UNCHANGED child /\ Goto(t, "undo")
    BY <1>1, <1>13, <2>1 DEF Spawn, childVars
  <2>2. CASE child' = [child EXCEPT ![t] = "running"] /\ Goto(t, "register")
    BY <1>13, <2>2 DEF Spawn, NoChildEscapes, Goto, TypeOK
  <2> QED BY <1>13, <2>1, <2>2 DEF Spawn
<1>14. CASE Register(t)
  BY <1>14 DEF Register, NoChildEscapes, Goto, TypeOK
<1>15. CASE ChildEnds(t)
  BY <1>15 DEF ChildEnds, NoChildEscapes, Goto, TypeOK
<1> QED
  BY <1>2, <1>3, <1>4, <1>5, <1>6, <1>7, <1>8, <1>9, <1>10, <1>11, <1>12, <1>13,
     <1>14, <1>15
  DEF RequestStep, RequestBegins

LEMMA OtherChildren ==
  ASSUME TypeOK, NoChildEscapes,
         \/ \E w \in Workers : CleanStep(w)
         \/ HostStep \/ PersonStep \/ OutsideStep
  PROVE  NoChildEscapes'
<1>1. ASSUME NEW w \in Workers, KillAll(w) PROVE NoChildEscapes'
  BY <1>1 DEF KillAll, NoChildEscapes, TypeOK
<1>2. ASSUME NEW w \in Workers, CleanStep(w), ~KillAll(w) PROVE NoChildEscapes'
  BY <1>2, ChildrenKept
  DEF CleanStep, DenyAll, Reopen, RevokeEverything, Shred, WaitForHandle, Unhook
<1>3. CASE HostStep
  BY <1>3, ChildrenKept DEF HostStep, TakeVault, Stop, RevokeAll, AppRevokesLease
<1>4. CASE PersonStep \/ OutsideStep
  BY <1>4, ChildrenKept DEF PersonStep, Resolve, OutsideStep, Expire, UserPutsFile
<1> QED BY <1>1, <1>2, <1>3, <1>4

(***************************************************************************)
(* The ledger.                                                             *)
(***************************************************************************)

LEMMA LedgerKept == LedgerInv /\ UNCHANGED <<ledger, doomed>> => LedgerInv'
BY DEF LedgerInv

LEMMA RevocationLedger ==
  ASSUME TypeOK, LedgerInv, NEW w \in Workers, NEW places \in SUBSET Places,
         doomed' = [doomed EXCEPT ![w] = EntriesFor(places)],
         \A p \in Places : ledger'[p] \in {ledger[p], NoFile}
  PROVE  LedgerInv'
<1>1. \A e \in EntriesFor(places) : e.file # Theirs
  BY DEF EntriesFor, LedgerInv
<1>2. doomed'[w] = EntriesFor(places)
      /\ \A x \in Workers \ {w} : doomed'[x] = doomed[x]
  BY DEF TypeOK
<1>3. \A p \in Places : ledger'[p] # Theirs
  BY DEF LedgerInv, NoFile, Theirs
<1> QED BY <1>1, <1>2, <1>3 DEF LedgerInv

LEMMA LeaseLedger ==
  ASSUME TypeOK, LedgerInv, NEW w \in Workers, NEW l \in Ids, RevokeLease(w, l),
         UNCHANGED ledger
  PROVE  LedgerInv'
<1>1. wrote[l] \in SUBSET Places
  BY DEF TypeOK
<1> QED BY <1>1, RevocationLedger DEF RevokeLease

LEMMA RequestLedger ==
  ASSUME TypeOK, CallsInv, LedgerInv, NEW t \in Threads,
         RequestStep(t) \/ RequestBegins(t)
  PROVE  LedgerInv'
<1> USE DEF fileVars, cleanVars
<1>1. CASE RevokeEnvFile(t)
  <2>1. t \in Workers
    BY DEF Workers
  <2>2. ASSUME NEW p \in Places, RevokePath(t, p) PROVE LedgerInv'
    <3> DEFINE authors == {l \in store : p \in wrote[l]}
               places  == {p} \cup UNION {wrote[l] : l \in authors}
    <3>1. places \in SUBSET Places
      BY DEF TypeOK
    <3>2. doomed' = [doomed EXCEPT ![t] = EntriesFor(places)]
      BY <2>2 DEF RevokePath
    <3>3. ledger' = ledger
      BY <1>1 DEF RevokeEnvFile
    <3> QED BY <2>1, <3>1, <3>2, <3>3, RevocationLedger
  <2> QED BY <1>1, <2>1, <2>2, LeaseLedger DEF RevokeEnvFile
<1>2. CASE RecordWritten(t)
  <2>1. call[t] \in Nat
    BY AgentAssumption DEF TypeOK, Ids
  <2>2. call[t] # Theirs
    BY <2>1 DEF Theirs
  <2> QED BY <1>2, <2>2 DEF RecordWritten, LedgerInv, TypeOK
<1>3. CASE \/ Begin(t) \/ BeginLocked(t) \/ BeginTool(t) \/ LockTool(t)
           \/ CleanedUp(t) \/ Look(t) \/ LookRefused(t)
           \/ ReserveLeased(t) \/ ReserveUnleased(t) \/ ReserveRefused(t)
  BY <1>3, LedgerKept
  DEF Begin, BeginLocked, BeginTool, LockTool, CleanedUp, Look, LookRefused,
      ReserveLeased, ReserveUnleased, ReserveRefused
<1>4. CASE \/ Preflight(t) \/ Enqueue(t) \/ Answered(t) \/ NotAnswered(t)
           \/ Grant(t) \/ GrantRefused(t) \/ Prepare(t) \/ PrepareRefused(t)
           \/ Commit(t) \/ CommitFails(t) \/ Undo(t)
  BY <1>4, LedgerKept
  DEF Preflight, Enqueue, Answered, NotAnswered, Grant, GrantRefused, Prepare,
      PrepareRefused, Commit, CommitFails, Undo
<1>5. CASE \/ MayWrite(t) \/ Rename(t) \/ WriteFails(t) \/ CheckGate(t)
           \/ Spawn(t) \/ Register(t) \/ ChildEnds(t) \/ After(t)
  BY <1>5, LedgerKept
  DEF MayWrite, Rename, WriteFails, CheckGate, Spawn, Register, ChildEnds, After
<1> QED BY <1>1, <1>2, <1>3, <1>4, <1>5 DEF RequestStep, RequestBegins

LEMMA OtherLedger ==
  ASSUME TypeOK, LedgerInv,
         \/ \E w \in Workers : CleanStep(w)
         \/ HostStep \/ PersonStep \/ OutsideStep
  PROVE  LedgerInv'
<1> USE DEF fileVars, cleanVars
<1>1. ASSUME NEW w \in Workers, RevokeEverything(w) PROVE LedgerInv'
  BY <1>1, RevocationLedger DEF RevokeEverything
<1>2. ASSUME NEW w \in Workers, Shred(w) PROVE LedgerInv'
  BY <1>2 DEF Shred, LedgerInv, TypeOK
<1>3. ASSUME NEW w \in Workers, CleanStep(w), ~RevokeEverything(w), ~Shred(w)
      PROVE  LedgerInv'
  BY <1>3, LedgerKept DEF CleanStep, DenyAll, Reopen, KillAll, WaitForHandle, Unhook
<1>4. ASSUME NEW l \in Ids, AppRevokesLease(l) PROVE LedgerInv'
  BY <1>4, LeaseLedger DEF AppRevokesLease, Workers
<1>5. CASE TakeVault \/ Stop \/ RevokeAll
  BY <1>5, LedgerKept DEF TakeVault, Stop, RevokeAll
<1>6. CASE PersonStep \/ OutsideStep
  BY <1>6, LedgerKept DEF PersonStep, Resolve, OutsideStep, Expire, UserPutsFile
<1> QED BY <1>1, <1>2, <1>3, <1>4, <1>5, <1>6 DEF HostStep

(***************************************************************************)
(* AgentInv is inductive.                                                  *)
(***************************************************************************)

LEMMA AgentInvInit == Init => AgentInv
<1> SUFFICES ASSUME Init PROVE AgentInv
  OBVIOUS
<1>1. NoAsk \in Ask /\ NoAsk.place \in Places
  BY AgentAssumption, NoAskType DEF Ask
<1>2. /\ scope \in [Ids -> Scope] /\ ask \in [Threads -> Ask]
  BY <1>1 DEF Init, Scope
<1>3. /\ ledger \in [Places -> Files] /\ disk \in [Places -> Files]
  BY DEF Init, Files
<1>4. /\ todo \in [Workers -> Seq(Cleaning)]
      /\ doomed \in [Workers -> SUBSET Entry]
  BY CleaningLists DEF Init
<1>5. /\ calls \in 0..MaxCalls /\ faults \in Nat /\ cleanups \in Nat
      /\ userFiles \in Nat
  BY AgentAssumption DEF Init
<1>6. /\ vault \in {"here", "taken"} /\ holder \in Threads \cup {NoThread}
      /\ lockFlag \in BOOLEAN /\ stopFlag \in BOOLEAN
      /\ hook \in {"set", "running", "gone"}
      /\ closed \in BOOLEAN /\ pending \in [Threads -> Answers]
  BY DEF Init, Answers
<1>7. /\ store \subseteq Ids /\ uses \in [Ids -> Nat]
      /\ wrote \in [Ids -> SUBSET Places]
      /\ registry \subseteq Threads /\ drained \in BOOLEAN
      /\ child \in [Threads -> {"none", "running", "dying"}]
      /\ phase \in [Threads -> Phases]
  BY DEF Init, Phases
<1>8. /\ call \in [Threads -> Ids \cup {0}] /\ unowned \in [Threads -> BOOLEAN]
      /\ agreed \in [Threads -> Nat] /\ lease \in [Threads -> Ids \cup {0}]
      /\ use \in [Threads -> Nat]
  BY DEF Init
<1>9. /\ granted \in [Ids -> Nat] /\ allows \subseteq Ids
      /\ released \subseteq [call : Ids, lease : Ids, use : Nat]
      /\ overtaken \subseteq Ids
  BY DEF Init
<1>10. TypeOK
  BY <1>2, <1>3, <1>4, <1>5, <1>6, <1>7, <1>8, <1>9 DEF TypeOK
<1>11. CallsInv
  BY AgentAssumption DEF Init, CallsInv, InCall, Undecided, Holding, Acting
<1>12. AnswersInv
  BY DEF Init, AnswersInv, Undecided
<1>13. UsesInv /\ ReleasesInv
  BY DEF Init, UsesInv, ReleasesInv, Holding
<1>14. LedgerInv /\ NoChildEscapes
  BY DEF Init, LedgerInv, NoChildEscapes, NoFile, Theirs
<1> QED BY <1>10, <1>11, <1>12, <1>13, <1>14 DEF AgentInv

LEMMA RequestTypes ==
  ASSUME AgentInv, NEW t \in Threads, RequestStep(t) \/ RequestBegins(t)
  PROVE  TypeOK'
<1> USE DEF AgentInv
<1>1. CASE \/ Begin(t) \/ BeginLocked(t) \/ BeginTool(t) \/ Look(t)
           \/ LookRefused(t) \/ ReserveRefused(t) \/ ReserveUnleased(t)
           \/ ReserveLeased(t)
  BY <1>1, AskingTypes
<1>2. CASE \/ Preflight(t) \/ Enqueue(t) \/ Answered(t) \/ NotAnswered(t)
           \/ Grant(t) \/ GrantRefused(t) \/ Prepare(t) \/ PrepareRefused(t)
           \/ Commit(t) \/ CommitFails(t) \/ Undo(t)
  BY <1>2, GrantingTypes
<1>3. CASE \/ MayWrite(t) \/ Rename(t) \/ WriteFails(t) \/ RecordWritten(t)
           \/ CheckGate(t) \/ Spawn(t) \/ Register(t) \/ ChildEnds(t) \/ After(t)
  BY <1>3, ActingTypes
<1>4. CASE LockTool(t) \/ RevokeEnvFile(t) \/ CleanedUp(t)
  BY <1>4, CleaningTypes
<1> QED BY <1>1, <1>2, <1>3, <1>4 DEF RequestStep, RequestBegins

LEMMA AgentInvStep == AgentInv /\ [Next]_vars => AgentInv'
<1> SUFFICES ASSUME AgentInv, [Next]_vars PROVE AgentInv'
  OBVIOUS
<1> USE DEF AgentInv, RequestInv
<1>1. ASSUME NEW t \in Threads, RequestStep(t) \/ RequestBegins(t)
      PROVE  AgentInv'
  <2>1. TypeOK'
    BY <1>1, RequestTypes
  <2>2. RequestInv'
    BY <1>1, RequestSteps
  <2>3. LedgerInv' /\ NoChildEscapes'
    BY <1>1, RequestLedger, RequestChildren
  <2> QED BY <2>1, <2>2, <2>3
<1>2. ASSUME \/ \E w \in Workers : CleanStep(w)
             \/ HostStep \/ PersonStep \/ OutsideStep
      PROVE  AgentInv'
  <2>1. TypeOK'
    BY <1>2, CleaningTypes, OutsideTypes
  <2>2. RequestInv'
    BY <1>2, OtherSteps
  <2>3. LedgerInv' /\ NoChildEscapes'
    BY <1>2, OtherLedger, OtherChildren
  <2> QED BY <2>1, <2>2, <2>3
<1>3. CASE UNCHANGED vars
  <2> USE <1>3 DEF vars, vaultVars, leaseVars, fileVars, childVars, callVars,
                   grantVars, cleanVars, countVars, histVars
  <2>1. TypeOK'
    BY DEF TypeOK
  <2>2. CallsInv' /\ AnswersInv'
    BY DEF CallsInv, AnswersInv
  <2>3. UsesInv' /\ ReleasesInv'
    BY DEF UsesInv, ReleasesInv
  <2>4. LedgerInv' /\ NoChildEscapes'
    BY DEF LedgerInv, NoChildEscapes
  <2> QED BY <2>1, <2>2, <2>3, <2>4
<1> QED BY <1>1, <1>2, <1>3 DEF Next

(***************************************************************************)
(* The theorems.                                                           *)
(***************************************************************************)

\* The agent keeps its strengthened invariant (service.rs, lease.rs, approval.rs,
\* children.rs): whatever locks, revocations, expiries and answers come between.
THEOREM AgentInvariant == Spec => []AgentInv
BY AgentInvInit, AgentInvStep, PTL DEF Spec

\* Calls, leases, the queue, the ledger and the registry are as typed.
THEOREM AgentTypeCorrect == Spec => []TypeOK
BY AgentInvariant, PTL DEF AgentInv

\* However many requests reserve at once, no use of a lease is spent twice, nor
\* one that was not granted (service.rs reserve, lease.rs consume).
THEOREM UsesSpentOnce == Spec => []EachUseOnce
<1>1. AgentInv => EachUseOnce
  <2> SUFFICES ASSUME AgentInv, NEW r \in released
               PROVE  /\ r.use \in 1..granted[r.lease]
                      /\ \A q \in released :
                           q.lease = r.lease /\ q.use = r.use => q = r
    BY DEF EachUseOnce
  <2>1. r.lease \in Ids /\ r.use \in Nat
    BY DEF AgentInv, TypeOK
  <2>2. uses[r.lease] \in Nat /\ granted[r.lease] \in Nat
    BY <2>1 DEF AgentInv, TypeOK
  <2>3. uses[r.lease] < r.use /\ r.use <= granted[r.lease]
    BY DEF AgentInv, UsesInv
  <2>4. r.use \in 1..granted[r.lease]
    BY <2>1, <2>2, <2>3
  <2> QED BY <2>4 DEF AgentInv, UsesInv
<1> QED BY <1>1, AgentInvariant, PTL

\* A lease is granted only to the call a person answered with an allow, however
\* late or often answers come (approval.rs resolve, deny_all, ask).
THEOREM LeasesApproved == Spec => []ApprovedByPerson
<1>1. AgentInv => ApprovedByPerson
  BY DEF AgentInv, AnswersInv, ApprovedByPerson
<1> QED BY <1>1, AgentInvariant, PTL

\* A child that is spawned while kill_all runs is told to end by its own thread
\* (children.rs register, kill_all).
THEOREM ChildrenDoNotEscape == Spec => []NoChildEscapes
BY AgentInvariant, PTL DEF AgentInv

\* No request removes the user's file but by the rename of an approved write.
LEMMA RequestSpares ==
  ASSUME AgentInv, NEW t \in Threads, RequestStep(t) \/ RequestBegins(t),
         NEW p \in Places, disk[p] = Theirs, disk'[p] # Theirs
  PROVE  phase[t] = "rename" /\ disk'[p] = call[t]
<1> USE DEF fileVars
<1>1. CASE Rename(t)
  BY <1>1 DEF Rename, AgentInv, TypeOK
<1>2. CASE After(t)
  <2>1. call[t] \in Nat
    BY AgentAssumption DEF AgentInv, TypeOK, Ids
  <2>2. call[t] # Theirs
    BY <2>1 DEF Theirs
  <2> QED BY <1>2, <2>2 DEF After, Shredded, AgentInv, TypeOK
<1>3. CASE \/ Begin(t) \/ BeginLocked(t) \/ BeginTool(t) \/ LockTool(t)
           \/ RevokeEnvFile(t) \/ CleanedUp(t) \/ Look(t) \/ LookRefused(t)
           \/ ReserveLeased(t) \/ ReserveUnleased(t) \/ ReserveRefused(t)
  BY <1>3
  DEF Begin, BeginLocked, BeginTool, LockTool, RevokeEnvFile, CleanedUp, Look,
      LookRefused, ReserveLeased, ReserveUnleased, ReserveRefused
<1>4. CASE \/ Preflight(t) \/ Enqueue(t) \/ Answered(t) \/ NotAnswered(t)
           \/ Grant(t) \/ GrantRefused(t) \/ Prepare(t) \/ PrepareRefused(t)
           \/ Commit(t) \/ CommitFails(t) \/ Undo(t)
  BY <1>4
  DEF Preflight, Enqueue, Answered, NotAnswered, Grant, GrantRefused, Prepare,
      PrepareRefused, Commit, CommitFails, Undo
<1>5. CASE \/ MayWrite(t) \/ WriteFails(t) \/ RecordWritten(t) \/ CheckGate(t)
           \/ Spawn(t) \/ Register(t) \/ ChildEnds(t)
  BY <1>5
  DEF MayWrite, WriteFails, RecordWritten, CheckGate, Spawn, Register, ChildEnds
<1> QED BY <1>1, <1>2, <1>3, <1>4, <1>5 DEF RequestStep, RequestBegins

\* Nobody else removes it at all.
LEMMA OthersSpare ==
  ASSUME AgentInv, NEW p \in Places, disk[p] = Theirs,
         \/ \E w \in Workers : CleanStep(w)
         \/ HostStep \/ PersonStep \/ OutsideStep
  PROVE  disk'[p] = Theirs
<1> USE DEF fileVars
<1>1. ASSUME NEW w \in Workers, Shred(w) PROVE disk'[p] = Theirs
  <2>1. PICK e \in doomed[w] : disk' = Shredded(e)
    BY <1>1 DEF Shred
  <2>2. e.file # Theirs
    BY DEF AgentInv, LedgerInv
  <2> QED BY <2>1, <2>2 DEF Shredded, AgentInv, TypeOK
<1>2. ASSUME NEW w \in Workers, CleanStep(w), ~Shred(w) PROVE disk'[p] = Theirs
  BY <1>2
  DEF CleanStep, DenyAll, Reopen, RevokeEverything, KillAll, WaitForHandle, Unhook
<1>3. CASE HostStep
  BY <1>3 DEF HostStep, TakeVault, Stop, RevokeAll, AppRevokesLease
<1>4. CASE PersonStep \/ OutsideStep
  BY <1>4
  DEF PersonStep, Resolve, OutsideStep, Expire, UserPutsFile, AgentInv, TypeOK
<1> QED BY <1>1, <1>2, <1>3, <1>4

\* No cleanup removes a file kagisecure did not write, whatever appeared at the
\* path since (envfile.rs shred, lease.rs record_written, service.rs).
THEOREM UserFilesAreSpared == Spec => UserFilesSpared
<1>1. AgentInv /\ [Next]_vars =>
        [\A p \in Places : disk[p] = Theirs /\ disk'[p] # Theirs =>
           \E t \in Threads : phase[t] = "rename" /\ disk'[p] = call[t]]_disk
  <2> SUFFICES ASSUME AgentInv, Next, NEW p \in Places, disk[p] = Theirs,
                      disk'[p] # Theirs
               PROVE  \E t \in Threads : phase[t] = "rename" /\ disk'[p] = call[t]
    BY DEF vars, fileVars
  <2> QED BY RequestSpares, OthersSpare DEF Next
<1> QED BY <1>1, AgentInvariant, PTL DEF Spec, UserFilesSpared

(***************************************************************************)
(* The agent implements ReleaseGate.                                       *)
(***************************************************************************)

gateOf == IF vault = "taken" \/ (lockFlag /\ HandleFree) THEN "shut" ELSE "open"
gateSees == <<vault, holder, lockFlag, granted, released>>
GateStep == [Gate!GateNext]_(Gate!gateVars)

\* Whatever leaves the vault's handle, the flag, the grants and the releases alone
\* is a stutter of the gate.
LEMMA GateStutters == UNCHANGED gateSees => GateStep
BY DEF GateStep, gateSees, Gate!gateVars, HandleFree

LEMMA GateShuts == gateOf' = "shut" /\ UNCHANGED <<granted, released>> => GateStep
BY DEF GateStep, Gate!GateNext, Gate!Shut, gateOf, HandleFree

LEMMA RequestOpensGate ==
  ASSUME AgentInv, NEW t \in Threads, RequestStep(t) \/ RequestBegins(t)
  PROVE  GateStep
<1> USE DEF vaultVars, histVars, gateSees
<1>1. CASE Grant(t)
  <2>1. call[t] \in Ids
    BY <1>1, AgentAssumption
    DEF Grant, AgentInv, CallsInv, InCall, Undecided, TypeOK, Ids
  <2>2. granted[call[t]] = 0 /\ agreed[t] \in Nat \ {0}
    BY <1>1 DEF Grant, AgentInv, AnswersInv, Undecided, TypeOK
  <2>3. granted' = [granted EXCEPT ![call[t]] = agreed[t]]
    BY <1>1 DEF Grant
  <2>4. granted'[call[t]] = agreed[t]
    BY <2>1, <2>3 DEF AgentInv, TypeOK
  <2>5. UNCHANGED <<gateOf, released>>
    BY <1>1 DEF Grant, gateOf, HandleFree
  <2>6. Gate!GrantUses(call[t])
    BY <2>2, <2>3, <2>4, <2>5 DEF Gate!GrantUses, gateOf
  <2> QED BY <2>1, <2>6 DEF GateStep, Gate!GateNext
<1>2. CASE Commit(t)
  <2> DEFINE r == [call |-> call[t], lease |-> lease[t], use |-> use[t]]
  <2>1. phase[t] \in InCall /\ phase[t] \in Holding
    BY <1>2 DEF Commit, InCall, Holding
  <2>2. call[t] \in Ids /\ lease[t] \in Ids /\ use[t] \in Nat
    BY <2>1, AgentAssumption DEF AgentInv, CallsInv, UsesInv, TypeOK, Ids
  <2>3. uses[lease[t]] \in Nat /\ granted[lease[t]] \in Nat
    BY <2>2 DEF AgentInv, TypeOK
  <2>4. use[t] \in 1..granted[lease[t]]
    BY <2>1, <2>2, <2>3 DEF AgentInv, UsesInv
  <2>5. \A q \in released : q.call # call[t]
    BY <2>1 DEF AgentInv, ReleasesInv
  <2>6. \A q \in released : ~(q.lease = lease[t] /\ q.use = use[t])
    BY <2>1 DEF AgentInv, UsesInv
  <2>7. gateOf = "open"
    BY <1>2, AgentAssumption DEF Commit, AgentInv, CallsInv, gateOf, HandleFree
  <2>8. gateOf' \in {"open", "shut"} /\ UNCHANGED granted
        /\ released' = released \cup {r}
    BY <1>2 DEF Commit, gateOf, HandleFree
  <2>9. Gate!Release(call[t])
    BY <2>2, <2>4, <2>5, <2>6, <2>7, <2>8 DEF Gate!Release, gateOf
  <2> QED BY <2>2, <2>9 DEF GateStep, Gate!GateNext
<1>3. CASE Prepare(t) \/ CommitFails(t)
  <2>1. vault = "here" /\ UNCHANGED <<vault, lockFlag, granted, released>>
    BY <1>3, AgentAssumption DEF Prepare, CommitFails, AgentInv, CallsInv
  <2>2. gateOf = "open"
    BY <1>3, <2>1, AgentAssumption
    DEF Prepare, CommitFails, AgentInv, CallsInv, gateOf, HandleFree
  <2>3. CASE gateOf' = "shut"
    BY <2>1, <2>3, GateShuts
  <2>4. CASE gateOf' # "shut"
    <3>1. gateOf' = "open"
      BY <2>4 DEF gateOf
    <3> QED BY <2>1, <2>2, <3>1 DEF GateStep, Gate!gateVars, gateOf, HandleFree
  <2> QED BY <2>3, <2>4
<1>4. CASE LockTool(t)
  <2>1. UNCHANGED <<vault, holder, granted, released>> /\ lockFlag'
    BY <1>4 DEF LockTool
  <2>2. CASE HandleFree
    BY <2>1, <2>2, GateShuts DEF gateOf, HandleFree
  <2>3. CASE ~HandleFree
    <3>1. UNCHANGED gateOf
      BY <2>1, <2>3 DEF gateOf, HandleFree
    <3> QED BY <2>1, <3>1 DEF GateStep, Gate!gateVars, gateOf, HandleFree
  <2> QED BY <2>2, <2>3
<1>5. CASE \/ Begin(t) \/ BeginLocked(t) \/ BeginTool(t) \/ RevokeEnvFile(t)
           \/ CleanedUp(t) \/ Look(t) \/ LookRefused(t)
           \/ ReserveLeased(t) \/ ReserveUnleased(t) \/ ReserveRefused(t)
  <2>1. UNCHANGED gateSees
    BY <1>5
    DEF Begin, BeginLocked, BeginTool, RevokeEnvFile, CleanedUp, Look, LookRefused,
        ReserveLeased, ReserveUnleased, ReserveRefused
  <2> QED BY <2>1, GateStutters
<1>6. CASE \/ Preflight(t) \/ Enqueue(t) \/ Answered(t) \/ NotAnswered(t)
           \/ GrantRefused(t) \/ PrepareRefused(t) \/ Undo(t)
  <2>1. UNCHANGED gateSees
    BY <1>6
    DEF Preflight, Enqueue, Answered, NotAnswered, GrantRefused, PrepareRefused, Undo
  <2> QED BY <2>1, GateStutters
<1>7. CASE \/ MayWrite(t) \/ Rename(t) \/ WriteFails(t) \/ RecordWritten(t)
           \/ CheckGate(t) \/ Spawn(t) \/ Register(t) \/ ChildEnds(t) \/ After(t)
  <2>1. UNCHANGED gateSees
    BY <1>7
    DEF MayWrite, Rename, WriteFails, RecordWritten, CheckGate, Spawn, Register,
        ChildEnds, After
  <2> QED BY <2>1, GateStutters
<1> QED
  BY <1>1, <1>2, <1>3, <1>4, <1>5, <1>6, <1>7 DEF RequestStep, RequestBegins

LEMMA OthersShutGate ==
  ASSUME AgentInv,
         \/ \E w \in Workers : CleanStep(w)
         \/ HostStep \/ PersonStep \/ OutsideStep
  PROVE  GateStep
<1> USE DEF vaultVars, histVars, gateSees
<1>1. CASE TakeVault
  BY <1>1, GateShuts DEF TakeVault, gateOf
<1>2. CASE Stop \/ RevokeAll \/ \E l \in Ids : AppRevokesLease(l)
  BY <1>2, GateStutters DEF Stop, RevokeAll, AppRevokesLease
<1>3. ASSUME NEW w \in Workers, CleanStep(w) PROVE GateStep
  BY <1>3, GateStutters
  DEF CleanStep, DenyAll, Reopen, RevokeEverything, Shred, KillAll, WaitForHandle,
      Unhook
<1>4. CASE PersonStep \/ OutsideStep
  BY <1>4, GateStutters DEF PersonStep, Resolve, OutsideStep, Expire, UserPutsFile
<1> QED BY <1>1, <1>2, <1>3, <1>4 DEF HostStep

\* Every step of the agent is a step of ReleaseGate or none: a release spends one
\* granted use, once, and none follows a lock (service.rs, release.rs, vault.rs).
THEOREM AgentImplementsGate == Spec => ImplementsGate
<1>1. Init => Gate!GateInit
  BY AgentAssumption DEF Init, Gate!GateInit, HandleFree
<1>2. AgentInv /\ [Next]_vars => [Gate!GateNext]_(Gate!gateVars)
  <2> SUFFICES ASSUME AgentInv, [Next]_vars PROVE GateStep
    BY DEF GateStep
  <2>1. CASE UNCHANGED vars
    BY <2>1, GateStutters DEF vars, vaultVars, histVars, gateSees
  <2> QED BY <2>1, RequestOpensGate, OthersShutGate DEF Next
<1> QED BY <1>1, <1>2, AgentInvariant, PTL DEF Spec, ImplementsGate, Gate!GateSpec

(***************************************************************************)
(* Locking means locking.                                                  *)
(***************************************************************************)

\* What a lock, a stop and the host's take have left to do.
LEMMA ListsRevoke ==
  ASSUME NEW s \in {<<"revoke", "kill">>,
                    <<"audit", "revoke", "kill", "deny", "audit">>,
                    <<"deny", "revoke", "kill", "unlatch">>,
                    <<"unhook", "deny", "revoke", "kill">>,
                    <<"deny", "revoke", "reopen">>}
  PROVE  \E n \in DOMAIN s : s[n] = "revoke"
<1>1. /\ <<"revoke", "kill">>[1] = "revoke"
      /\ <<"audit", "revoke", "kill", "deny", "audit">>[2] = "revoke"
      /\ <<"deny", "revoke", "kill", "unlatch">>[2] = "revoke"
      /\ <<"unhook", "deny", "revoke", "kill">>[3] = "revoke"
      /\ <<"deny", "revoke", "reopen">>[2] = "revoke"
  OBVIOUS
<1>2. s[1] = "revoke" \/ s[2] = "revoke" \/ s[3] = "revoke"
  BY <1>1
<1>3. /\ 1 \in DOMAIN s /\ 2 \in DOMAIN s
      /\ s # <<"revoke", "kill">> => 3 \in DOMAIN s
  OBVIOUS
<1> QED BY <1>1, <1>3

\* Another step of a cleanup leaves its revocation to do.
LEMMA TailRevokes ==
  ASSUME NEW s \in Seq(Cleaning), s # <<>>, Head(s) # "revoke",
         NEW n \in DOMAIN s, s[n] = "revoke"
  PROVE  \E m \in DOMAIN Tail(s) : Tail(s)[m] = "revoke"
<1>1. n \in 2..Len(s)
  OBVIOUS
<1>2. n - 1 \in DOMAIN Tail(s) /\ Tail(s)[n - 1] = s[n]
  BY <1>1
<1> QED BY <1>2

cleanSees == <<vault, lockFlag, stopFlag, hook, todo, doomed>>

\* A step of a request that is no cleanup: its own thread moves, its own lease
\* may join the leases or leave them.
LEMMA RequestLeaves ==
  ASSUME TypeOK, CleanupInv, NEW t \in Threads,
         RequestStep(t) \/ Begin(t) \/ BeginTool(t),
         ~LockTool(t), ~RevokeEnvFile(t)
  PROVE  /\ UNCHANGED cleanSees
         /\ \A u \in Threads \ {t} :
              /\ phase'[u] = phase[u] /\ child'[u] = child[u]
              /\ u \in registry' => u \in registry
              /\ call'[u] = call[u] /\ ask'[u] = ask[u] /\ lease'[u] = lease[u]
         /\ phase[t] = "clean" => Idle(t)
         /\ child'[t] # "none" \/ t \in registry' => phase'[t] \in {"register", "wait"}
         /\ phase'[t] \in {"write", "rename", "record"} => ask'[t].kind = "write"
         /\ \A l \in store' :
              \/ l \in store
              \/ FlagsAllow /\ phase'[t] = "prepare" /\ call'[t] = l /\ lease'[t] = l
         /\ phase[t] \in {"prepare", "undo"} /\ vault = "taken" /\ lease[t] = call[t]
              => \/ phase'[t] = "undo" /\ call'[t] = call[t] /\ lease'[t] = lease[t]
                 \/ lease[t] \notin store'
<1> USE DEF vaultVars, leaseVars, fileVars, childVars, callVars, grantVars, cleanVars,
            Goto, Proceed, cleanSees
<1>1. /\ child[t] # "none" \/ t \in registry => phase[t] \in {"register", "wait"}
      /\ phase[t] \in {"write", "rename", "record"} => ask[t].kind = "write"
  BY DEF CleanupInv
<1>2. CASE Reply(t) /\ UNCHANGED <<childVars, cleanVars, vaultVars>>
           /\ store' \subseteq store /\ phase[t] \notin {"register", "wait", "prepare"}
           /\ (phase[t] = "undo" => Undo(t)) /\ (phase[t] = "clean" => Idle(t))
  BY <1>1, <1>2 DEF Reply, Undo, TypeOK
<1>3. CASE Begin(t) \/ BeginTool(t)
  BY <1>1, <1>3 DEF Begin, BeginTool, TypeOK
<1>4. CASE Look(t)
  BY <1>1, <1>4 DEF Look, TypeOK
<1>5. CASE LookRefused(t) \/ ReserveRefused(t) \/ NotAnswered(t) \/ GrantRefused(t)
  BY <1>2, <1>5 DEF LookRefused, ReserveRefused, NotAnswered, GrantRefused
<1>6. CASE ReserveLeased(t)
  BY <1>1, <1>6 DEF ReserveLeased, Live, TypeOK
<1>7. CASE ReserveUnleased(t)
  BY <1>1, <1>7 DEF ReserveUnleased, Live, TypeOK
<1>8. CASE Preflight(t)
  BY <1>1, <1>2, <1>8 DEF Preflight, TypeOK
<1>9. CASE Enqueue(t)
  BY <1>1, <1>2, <1>9 DEF Enqueue, TypeOK
<1>10. CASE Answered(t)
  BY <1>1, <1>2, <1>10 DEF Answered, TypeOK
<1>11. CASE Grant(t)
  BY <1>1, <1>11 DEF Grant, Live, TypeOK
<1>12. CASE Prepare(t)
  BY <1>1, <1>12 DEF Prepare, TypeOK
<1>13. CASE PrepareRefused(t)
  BY <1>1, <1>13 DEF PrepareRefused, TypeOK
<1>14. CASE Commit(t)
  BY <1>1, <1>14 DEF Commit, TypeOK
<1>15. CASE CommitFails(t)
  BY <1>1, <1>15 DEF CommitFails, TypeOK
<1>16. CASE Undo(t)
  BY <1>2, <1>16 DEF Undo
<1>17. CASE MayWrite(t) \/ Rename(t) \/ WriteFails(t)
  BY <1>1, <1>17 DEF MayWrite, Rename, WriteFails, TypeOK
<1>18. CASE RecordWritten(t)
  BY <1>1, <1>18 DEF RecordWritten, TypeOK
<1>19. CASE CheckGate(t)
  BY <1>1, <1>2, <1>19 DEF CheckGate, TypeOK
<1>20. CASE Spawn(t)
  BY <1>1, <1>20 DEF Spawn, TypeOK
<1>21. CASE Register(t)
  BY <1>1, <1>21 DEF Register, TypeOK
<1>22. CASE ChildEnds(t)
  BY <1>1, <1>22 DEF ChildEnds, TypeOK
<1>23. CASE After(t)
  BY <1>2, <1>23 DEF After
<1>24. CASE CleanedUp(t)
  BY <1>1, <1>24 DEF CleanedUp, TypeOK
<1> QED
  BY <1>3, <1>4, <1>5, <1>6, <1>7, <1>8, <1>9, <1>10, <1>11, <1>12, <1>13, <1>14,
     <1>15, <1>16, <1>17, <1>18, <1>19, <1>20, <1>21, <1>22, <1>23, <1>24
  DEF RequestStep

\* ... and of the files: only a rename and the check after it change one.
LEMMA RequestFiles ==
  ASSUME TypeOK, NEW t \in Threads,
         RequestStep(t) \/ RequestBegins(t)
  PROVE  /\ Rename(t) \/ After(t) \/ disk' = disk
         /\ RecordWritten(t) \/ (ledger' = ledger /\ overtaken' = overtaken)
         /\ phase[t] = "record" => RecordWritten(t)
         /\ phase[t] = "after" => After(t)
<1> USE DEF fileVars, histVars
<1>1. CASE RequestBegins(t)
  BY <1>1 DEF RequestBegins, Begin, BeginLocked, BeginTool
<1>2. CASE \/ Look(t) \/ LookRefused(t) \/ ReserveLeased(t) \/ ReserveUnleased(t)
           \/ ReserveRefused(t) \/ Preflight(t) \/ Enqueue(t) \/ Answered(t)
           \/ NotAnswered(t)
  BY <1>2 DEF Look, LookRefused, ReserveLeased, ReserveUnleased, ReserveRefused,
              Preflight, Enqueue, Answered, NotAnswered
<1>3. CASE \/ Grant(t) \/ GrantRefused(t) \/ Prepare(t) \/ PrepareRefused(t)
           \/ Commit(t) \/ CommitFails(t) \/ Undo(t)
  BY <1>3 DEF Grant, GrantRefused, Prepare, PrepareRefused, Commit, CommitFails, Undo
<1>4. CASE MayWrite(t) \/ WriteFails(t)
  BY <1>4 DEF MayWrite, WriteFails
<1>7. CASE Rename(t)
  <2>1. phase[t] = "rename" /\ ledger' = ledger /\ overtaken' = overtaken
    BY <1>7 DEF Rename
  <2> QED BY <1>7, <2>1
<1>8. CASE RecordWritten(t)
  <2>1. phase[t] = "record" /\ disk' = disk
    BY <1>8 DEF RecordWritten
  <2> QED BY <1>8, <2>1
<1>5. CASE CheckGate(t) \/ Spawn(t) \/ Register(t) \/ ChildEnds(t) \/ After(t)
  BY <1>5 DEF CheckGate, Spawn, Register, ChildEnds, After
<1>6. CASE LockTool(t) \/ RevokeEnvFile(t) \/ CleanedUp(t)
  BY <1>6 DEF LockTool, RevokeEnvFile, CleanedUp
<1> QED BY <1>1, <1>2, <1>3, <1>4, <1>5, <1>6, <1>7, <1>8 DEF RequestStep

\* With no cleanup begun or gone on, nothing of the lock has changed.
LEMMA SameCleaning ==
  ASSUME UNCHANGED cleanSees
  PROVE  /\ Over' = Over /\ RevokeComing' = RevokeComing
         /\ \A w : Idle(w)' = Idle(w)
BY DEF cleanSees, Over, RevokeComing, Revokes, Idle

LEMMA RequestShut ==
  ASSUME TypeOK, ShutInv, NEW t \in Threads,
         RequestStep(t) \/ Begin(t) \/ BeginTool(t),
         ~LockTool(t), ~RevokeEnvFile(t)
  PROVE  ShutInv'
<1> USE DEF ShutInv
<1>0. Over' = Over /\ RevokeComing' = RevokeComing /\ \A w : Idle(w)' = Idle(w)
  BY RequestLeaves, SameCleaning
<1>1. CleanupInv'
  <2>1. ASSUME NEW u \in Threads
        PROVE  /\ phase'[u] # "clean" => Idle(u)'
               /\ child'[u] # "none" \/ u \in registry' => phase'[u] \in {"register", "wait"}
               /\ phase'[u] \in {"write", "rename", "record"} => ask'[u].kind = "write"
    BY <1>0, RequestLeaves DEF CleanupInv
  <2> QED BY <2>1, RequestLeaves DEF CleanupInv, cleanSees
<1>2. LeasesGoing'
  <2> SUFFICES ASSUME Over', ~RevokeComing', NEW l \in store'
               PROVE  vault' = "taken" /\ \E u \in Threads :
                        /\ phase'[u] \in {"prepare", "undo"}
                        /\ call'[u] = l /\ lease'[u] = l
    BY DEF LeasesGoing
  <2>1. vault' = vault
    BY RequestLeaves DEF cleanSees
  <2>2. CASE l \notin store
    <3>1. FlagsAllow /\ phase'[t] = "prepare" /\ call'[t] = l /\ lease'[t] = l
      BY <2>2, RequestLeaves
    <3> QED BY <1>0, <2>1, <3>1 DEF Over, FlagsAllow
  <2>3. CASE l \in store
    <3>1. vault = "taken"
      BY <1>0, <2>3 DEF LeasesGoing
    <3>2. PICK u \in Threads : /\ phase[u] \in {"prepare", "undo"}
                               /\ call[u] = l /\ lease[u] = l
      BY <1>0, <2>3 DEF LeasesGoing
    <3>3. CASE u # t
      BY <2>1, <3>1, <3>2, <3>3, RequestLeaves
    <3>4. CASE u = t
      BY <2>1, <3>1, <3>2, <3>4, RequestLeaves
    <3> QED BY <3>3, <3>4
  <2> QED BY <2>2, <2>3
<1>3. FilesGoing'
  <2> SUFFICES ASSUME NEW p \in Places, NEW f \in Ids, disk'[p] = f,
                      f \notin overtaken'
               PROVE  FileGoes(p, f)'
    BY DEF FilesGoing, FileGoes
  <2>1. doomed' = doomed
    BY RequestLeaves DEF cleanSees
  <2>2. ASSUME NEW u \in Threads \ {t}, NEW x
        PROVE  Wrote(u, p, x)' = Wrote(u, p, x) /\ phase'[u] = phase[u]
    BY RequestLeaves DEF Wrote
  <2>3. CASE Rename(t)
    <3>1. /\ disk' = [disk EXCEPT ![ask[t].place] = call[t]]
          /\ phase'[t] = "record" /\ call'[t] = call[t] /\ ask'[t] = ask[t]
          /\ ledger' = ledger /\ overtaken' = overtaken /\ phase[t] = "rename"
      BY <2>3 DEF Rename, Proceed, Goto, callVars, histVars, TypeOK
    <3>2. CASE p = ask[t].place
      <4>1. f = call[t]
        BY <3>1, <3>2 DEF TypeOK
      <4> QED BY <3>1, <3>2, <4>1 DEF FileGoes, Wrote
    <3>3. CASE p # ask[t].place
      <4>1. disk[p] = f
        BY <3>1, <3>3 DEF TypeOK
      <4> QED BY <1>0, <2>1, <2>2, <3>1, <4>1, RequestLeaves DEF FilesGoing, FileGoes
    <3> QED BY <3>2, <3>3
  <2>4. CASE RecordWritten(t)
    <3>1. /\ ledger' = [ledger EXCEPT ![ask[t].place] = call[t]] /\ disk' = disk
          /\ phase[t] = "record" /\ phase'[t] = "after"
          /\ call'[t] = call[t] /\ ask'[t] = ask[t]
          /\ overtaken \subseteq overtaken'
          /\ ledger[ask[t].place] = disk[ask[t].place] /\ disk[ask[t].place] \in Ids
               => disk[ask[t].place] \in overtaken'
      BY <2>4 DEF RecordWritten, Goto, callVars, TypeOK
    <3>2. CASE Wrote(t, p, f)
      <4>1. ledger'[p] = f
        BY <3>1, <3>2 DEF Wrote, TypeOK
      <4>2. ask[t].kind = "write"
        BY <3>1 DEF CleanupInv
      <4> QED BY <3>1, <3>2, <4>1, <4>2 DEF FileGoes, Wrote
    <3>3. CASE ~Wrote(t, p, f)
      <4>1. ledger'[p] # f => ledger[p] # f
        BY <3>1 DEF TypeOK
      <4> QED BY <1>0, <2>1, <2>2, <3>1, <3>3, <4>1, RequestLeaves DEF FilesGoing, FileGoes
    <3> QED BY <3>2, <3>3
  <2>5. CASE ~Rename(t) /\ ~RecordWritten(t)
    <3>1. ledger' = ledger /\ overtaken' = overtaken /\ phase[t] # "record"
      BY <2>5, RequestFiles DEF RequestBegins
    <3>2. phase[t] = "after" /\ ask[t].kind = "write" /\ Wrote(t, p, f) => ~Over
      <4>1. SUFFICES ASSUME phase[t] = "after", ask[t].kind = "write",
                            Wrote(t, p, f), Over
                     PROVE  disk'[p] = NoFile
        BY DEF NoFile, Ids
      <4>2. After(t)
        BY <4>1, RequestFiles DEF RequestBegins
      <4>3. disk' = Shredded([place |-> p, file |-> f])
        BY <4>1, <4>2 DEF After, Serving, FlagsAllow, Over, Wrote
      <4>4. disk'[p] # f
        BY <4>3 DEF Shredded, TypeOK, NoFile, Ids
      <4> QED BY <4>4
    <3>3. disk[p] = f
      <4>1. CASE disk' = disk
        BY <4>1
      <4>2. CASE After(t)
        BY <4>2 DEF After, Shredded, TypeOK, NoFile, Ids
      <4> QED BY <2>5, <4>1, <4>2, RequestFiles DEF RequestBegins
    <3> QED BY <1>0, <2>1, <2>2, <3>1, <3>2, <3>3, RequestLeaves DEF FilesGoing, FileGoes
  <2> QED BY <2>3, <2>4, <2>5
<1> QED BY <1>1, <1>2, <1>3

\* A list that revokes.
LEMMA ListRevokes ==
  ASSUME NEW w \in Workers, NEW s,
         \E n \in DOMAIN s : s[n] = "revoke",
         todo \in [Workers -> Seq(Cleaning)],
         todo' = [todo EXCEPT ![w] = s]
  PROVE  RevokeComing'
BY DEF RevokeComing, Revokes

\* A step that replaces what one worker has to do, which was nothing, keeps what
\* the others have to do.
LEMMA ListBegins ==
  ASSUME NEW w \in Workers, NEW s, todo[w] = <<>>,
         todo \in [Workers -> Seq(Cleaning)],
         todo' = [todo EXCEPT ![w] = s]
  PROVE  RevokeComing => RevokeComing'
BY DEF RevokeComing, Revokes


\* A step that takes no lease and writes no file, and after which what is over is
\* over already or about to be revoked.
LEMMA ShutKept ==
  ASSUME TypeOK, ShutInv, CleanupInv',
         UNCHANGED <<call, ask, lease, ledger, overtaken>>,
         \A t \in Threads : phase[t] \in {"prepare", "undo", "record", "after"}
                              => phase'[t] = phase[t],
         store' \subseteq store,
         vault = "taken" => vault' = "taken",
         Over' => Over \/ RevokeComing',
         RevokeComing => RevokeComing',
         \A p \in Places, f \in Ids : disk'[p] = f =>
           /\ disk[p] = f
           /\ \A w \in Workers : [place |-> p, file |-> f] \in doomed[w]
                                   => [place |-> p, file |-> f] \in doomed'[w]
  PROVE  ShutInv'
<1> USE DEF ShutInv
<1>1. LeasesGoing'
  BY DEF LeasesGoing
<1>2. FilesGoing'
  <2> SUFFICES ASSUME NEW p \in Places, NEW f \in Ids, disk'[p] = f,
                      f \notin overtaken'
               PROVE  FileGoes(p, f)'
    BY DEF FilesGoing, FileGoes
  <2>1. disk[p] = f /\ f \notin overtaken /\ \A t : Wrote(t, p, f)' = Wrote(t, p, f)
    BY DEF Wrote
  <2>2. ASSUME NEW w \in Workers, [place |-> p, file |-> f] \in doomed[w]
        PROVE  [place |-> p, file |-> f] \in doomed'[w]
    BY <2>2
  <2>3. \A t \in Threads : phase[t] \in {"record", "after"} => phase'[t] = phase[t]
    OBVIOUS
  <2>4. CASE \E w \in Workers : [place |-> p, file |-> f] \in doomed[w]
    BY <2>2, <2>4 DEF FileGoes
  <2>5. CASE \E t \in Threads : phase[t] = "record" /\ Wrote(t, p, f)
    BY <2>1, <2>3, <2>5 DEF FileGoes
  <2>6. CASE /\ ledger[p] = f
             /\ \/ ~Over \/ RevokeComing
                \/ \E t \in Threads : /\ phase[t] = "after" /\ ask[t].kind = "write"
                                       /\ Wrote(t, p, f)
    BY <2>1, <2>3, <2>6 DEF FileGoes
  <2> QED BY <2>1, <2>4, <2>5, <2>6 DEF FilesGoing, FileGoes
<1> QED BY <1>1, <1>2

\* The next step of a cleanup is taken by a worker that has one, and does not
\* undo what is still to be revoked.
LEMMA NextCleaning ==
  ASSUME TypeOK, CleanupInv, NEW w \in Workers, NEW step, NextIs(w, step)
  PROVE  /\ step # "revoke" /\ RevokeComing => RevokeComing'
         /\ step = "unhook" => stopFlag
         /\ \A n \in DOMAIN todo'[w] : todo'[w][n] = "unhook" => stopFlag
         /\ w \in Threads => phase[w] = "clean"
         /\ w = Host => vault # "here"
         /\ \A x \in Workers \ {w} : todo'[x] = todo[x]
<1>1. todo[w] \in Seq(Cleaning) /\ todo[w] # <<>> /\ Head(todo[w]) = step
  BY DEF NextIs, TypeOK
<1>2. todo' = [todo EXCEPT ![w] = Tail(todo[w])]
  BY DEF NextIs
<1>3. ASSUME step # "revoke", NEW x \in Workers, Revokes(x) PROVE Revokes(x)'
  <2>1. CASE x = w
    <3>1. PICK n \in DOMAIN todo[w] : todo[w][n] = "revoke"
      BY <1>3, <2>1 DEF Revokes
    <3>2. \E m \in DOMAIN Tail(todo[w]) : Tail(todo[w])[m] = "revoke"
      BY <1>1, <1>3, <3>1, TailRevokes
    <3> QED BY <1>2, <2>1, <3>2 DEF Revokes, TypeOK
  <2>2. CASE x # w
    BY <1>2, <1>3, <2>2 DEF Revokes, TypeOK
  <2> QED BY <2>1, <2>2
<1>4. w \in Threads => phase[w] = "clean"
  BY <1>1 DEF CleanupInv, Idle
<1>5. w = Host => vault # "here"
  BY <1>1 DEF CleanupInv
<1>6. \A x \in Workers \ {w} : todo'[x] = todo[x]
  BY <1>2 DEF TypeOK
<1>7. step = "unhook" => stopFlag
  <2>1. 1 \in DOMAIN todo[w] /\ todo[w][1] = step
    BY <1>1
  <2> QED BY <2>1 DEF CleanupInv
<1>8. ASSUME NEW n \in DOMAIN todo'[w], todo'[w][n] = "unhook" PROVE stopFlag
  <2>1. todo'[w] = Tail(todo[w])
    BY <1>2 DEF TypeOK
  <2>2. n + 1 \in DOMAIN todo[w] /\ todo[w][n + 1] = todo'[w][n]
    BY <1>1, <1>8, <2>1
  <2> QED BY <1>8, <2>2 DEF CleanupInv
<1> QED BY <1>3, <1>4, <1>5, <1>6, <1>7, <1>8 DEF RevokeComing

\* Cleanups, one step at a time.
LEMMA CleanShut ==
  ASSUME TypeOK, ShutInv, NEW w \in Workers, CleanStep(w)
  PROVE  ShutInv'
<1> USE DEF ShutInv, vaultVars, leaseVars, fileVars, childVars, callVars, grantVars,
            histVars
<1>0. /\ Threads \cap {App, Host} = {} /\ Threads \subseteq Workers
      /\ Host \in Workers
  BY AgentAssumption DEF Workers
<1>1. ASSUME NEW step, NextIs(w, step), UNCHANGED <<phase, ask, vault, stopFlag>>,
             \A t \in Threads : child'[t] # "none" \/ t \in registry' =>
                                 child[t] # "none" \/ t \in registry,
             hook' # hook => hook' = "set" \/ (hook' = "gone" /\ step = "unhook"),
             \A x \in Workers \ {w} : doomed'[x] = doomed[x]
      PROVE  CleanupInv'
  <2>1. ASSUME NEW t \in Threads, phase[t] # "clean" PROVE Idle(t)'
    <3>1. t # w /\ Idle(t)
      BY <1>1, <2>1, NextCleaning DEF CleanupInv
    <3> QED BY <1>0, <1>1, <3>1, NextCleaning DEF Idle, TypeOK
  <2>2. vault = "here" => todo'[Host] = <<>>
    BY <1>0, <1>1, NextCleaning DEF CleanupInv
  <2>3. ASSUME NEW x \in Workers, NEW n \in DOMAIN todo'[x], todo'[x][n] = "unhook"
        PROVE  stopFlag
    BY <1>1, <2>3, NextCleaning DEF CleanupInv
  <2>4. /\ hook' = "gone" => stopFlag
        /\ hook' = "running" => vault = "taken"
    BY <1>1, NextCleaning DEF CleanupInv
  <2>5. \A t \in Threads : child'[t] # "none" \/ t \in registry' =>
                             phase'[t] \in {"register", "wait"}
    BY <1>1 DEF CleanupInv
  <2>6. \A t \in Threads : phase'[t] \in {"write", "rename", "record"} =>
                             ask'[t].kind = "write"
    BY <1>1 DEF CleanupInv
  <2> QED BY <1>1, <2>1, <2>2, <2>3, <2>4, <2>5, <2>6 DEF CleanupInv
<1>2. ASSUME NEW step, NextIs(w, step), step # "revoke",
             UNCHANGED <<phase, store, vault, lockFlag, stopFlag, fileVars, doomed,
                         call, ask, lease, overtaken>>,
             CleanupInv'
      PROVE  ShutInv'
  <2>1. (RevokeComing => RevokeComing') /\ Over' = Over
    BY <1>2, NextCleaning DEF Over
  <2> QED BY ONLY <1>2, <2>1, TypeOK, ShutInv, ShutKept DEF fileVars
<1>3. CASE DenyAll(w) \/ Reopen(w) \/ WaitForHandle(w)
  BY <1>1, <1>2, <1>3 DEF DenyAll, Reopen, WaitForHandle
<1>4. CASE KillAll(w)
  <2>1. \A t \in Threads : child'[t] # "none" \/ t \in registry' =>
                             child[t] # "none" \/ t \in registry
    BY <1>4 DEF KillAll, TypeOK
  <2> QED BY <1>1, <1>2, <1>4, <2>1 DEF KillAll
<1>5. CASE Unhook(w)
  BY <1>1, <1>2, <1>5 DEF Unhook
<1>6. CASE RevokeEverything(w)
  <2>1. /\ NextIs(w, "revoke") /\ doomed[w] = {} /\ store' = {} /\ disk' = disk
        /\ doomed' = [doomed EXCEPT ![w] = EntriesFor(Places)]
        /\ UNCHANGED <<phase, ask, call, vault, stopFlag, hook, child, registry,
                       overtaken>>
    BY <1>6 DEF RevokeEverything, NextIs
  <2>2. CleanupInv'
    BY <1>1, <2>1 DEF TypeOK
  <2>3. LeasesGoing'
    BY <2>1 DEF LeasesGoing
  <2>4. ASSUME NEW p \in Places, NEW f \in Ids, disk[p] = f
        PROVE  FileGoes(p, f)'
    <3>1. FileGoes(p, f) /\ \A t : Wrote(t, p, f)' = Wrote(t, p, f)
      BY <2>1, <2>4 DEF FilesGoing, Wrote
    <3>2. CASE ledger[p] = f
      <4>1. [place |-> p, file |-> f] \in EntriesFor(Places)
        BY <3>2 DEF EntriesFor, NoFile, Ids
      <4> QED BY <2>1, <4>1 DEF FileGoes, TypeOK
    <3>3. CASE \E x \in Workers : [place |-> p, file |-> f] \in doomed[x]
      BY <2>1, <3>3 DEF FileGoes, TypeOK
    <3> QED BY <2>1, <3>1, <3>2, <3>3 DEF FileGoes
  <2> QED BY <2>1, <2>2, <2>3, <2>4 DEF FilesGoing
<1>7. CASE Shred(w)
  <2>1. PICK e \in doomed[w] : /\ doomed' = [doomed EXCEPT ![w] = @ \ {e}]
                               /\ disk' = Shredded(e)
    BY <1>7 DEF Shred
  <2>2. UNCHANGED <<phase, ask, call, lease, vault, stopFlag, lockFlag, hook, child,
                    registry, overtaken, ledger, store, todo>>
    BY <1>7 DEF Shred
  <2>3. CleanupInv'
    <3>1. ASSUME NEW t \in Threads, phase[t] # "clean" PROVE Idle(t)'
      BY <1>0, <2>1, <2>2, <3>1 DEF CleanupInv, Idle, TypeOK
    <3> QED BY <2>2, <3>1 DEF CleanupInv
  <2>4. ASSUME NEW p \in Places, NEW f \in Ids, disk'[p] = f
        PROVE  /\ disk[p] = f
               /\ \A x \in Workers : [place |-> p, file |-> f] \in doomed[x]
                                       => [place |-> p, file |-> f] \in doomed'[x]
    <3>1. disk[p] = f /\ [place |-> p, file |-> f] # e
      BY <2>1, <2>4 DEF Shredded, TypeOK, NoFile, Ids
    <3> QED BY <2>1, <3>1 DEF TypeOK
  <2>5. Over' = Over /\ RevokeComing' = RevokeComing
    BY <2>2 DEF Over, RevokeComing, Revokes
  <2> QED BY ONLY <2>2, <2>3, <2>4, <2>5, TypeOK, ShutInv, ShutKept
<1> QED BY <1>3, <1>4, <1>5, <1>6, <1>7 DEF CleanStep

\* A lease is revoked with the files written under it.
LEMMA RevocationShut ==
  ASSUME TypeOK, ShutInv, NEW w \in Workers,
         w \in Threads => phase[w] = "revoking" /\ phase'[w] = "clean",
         Idle(w), \A x \in Workers \ {w} : doomed'[x] = doomed[x],
         \A t \in Threads \ {w} : phase'[t] = phase[t],
         store' \subseteq store,
         UNCHANGED <<vaultVars, fileVars, childVars, callVars, lease, todo, overtaken>>
  PROVE  ShutInv'
<1> USE DEF ShutInv, vaultVars, fileVars, childVars, callVars
<1>1. CleanupInv'
  <2>1. ASSUME NEW t \in Threads, phase'[t] # "clean" PROVE Idle(t)'
    <3>1. t # w
      BY <2>1
    <3>2. phase'[t] = phase[t] /\ doomed'[t] = doomed[t] /\ todo'[t] = todo[t]
      BY <3>1 DEF Workers
    <3>3. Idle(t)
      BY <2>1, <3>2 DEF CleanupInv
    <3> QED BY <3>2, <3>3 DEF Idle
  <2> QED BY <2>1 DEF CleanupInv
<1>2. Over' = Over /\ RevokeComing' = RevokeComing
  BY DEF Over, RevokeComing, Revokes
<1>3. \A x \in Workers : doomed[x] \subseteq doomed'[x]
  BY DEF Idle
<1>4. \A t \in Threads : phase[t] \in {"prepare", "undo", "record", "after"}
                           => phase'[t] = phase[t]
  OBVIOUS
<1> QED BY <1>1, <1>2, <1>3, <1>4, ShutKept

\* Cleanups that begin: at a request that finds the agent not serving, at a lock,
\* at a stop, at the host's take and at a revocation of everything.
LEMMA BeginShut ==
  ASSUME TypeOK, ShutInv, NEW w \in Workers, NEW s, todo[w] = <<>>,
         w \in Threads => doomed[w] = {} /\ phase'[w] = "clean",
         \A n \in DOMAIN s : s[n] = "unhook" => stopFlag',
         todo' = [todo EXCEPT ![w] = s],
         w = Host => vault' = "taken",
         \A t \in Threads \ {w} : phase'[t] = phase[t],
         w \in Threads => phase[w] \in {"idle", "locking"},
         vault = "taken" => vault' = "taken",
         stopFlag => stopFlag',
         hook' = hook \/ (hook' = "running" /\ vault' = "taken"),
         Over' => Over \/ \E n \in DOMAIN s : s[n] = "revoke",
         UNCHANGED <<fileVars, childVars, callVars, lease, store, doomed, overtaken>>
  PROVE  ShutInv'
<1> USE DEF ShutInv, fileVars, childVars, callVars
<1>0. /\ Threads \cap {App, Host} = {} /\ Threads \subseteq Workers
      /\ Host \in Workers /\ vault \in {"here", "taken"}
  BY AgentAssumption DEF Workers, TypeOK
<1>1. todo \in [Workers -> Seq(Cleaning)]
  BY DEF TypeOK
<1>2. CleanupInv'
  <2>1. ASSUME NEW t \in Threads, phase'[t] # "clean" PROVE Idle(t)'
    <3>1. t # w
      BY <2>1
    <3> QED BY <1>0, <1>1, <2>1, <3>1 DEF CleanupInv, Idle
  <2>2. vault' = "here" => todo'[Host] = <<>>
    BY <1>0, <1>1 DEF CleanupInv
  <2>3. /\ hook' = "gone" => stopFlag'
        /\ hook' = "running" => vault' = "taken"
    BY DEF CleanupInv
  <2>4. ASSUME NEW x \in Workers, NEW n \in DOMAIN todo'[x], todo'[x][n] = "unhook"
        PROVE  stopFlag'
    BY <1>1, <2>4 DEF CleanupInv
  <2>5. ASSUME NEW t \in Threads
        PROVE  /\ child'[t] # "none" \/ t \in registry' => phase'[t] \in {"register", "wait"}
               /\ phase'[t] \in {"write", "rename", "record"} => ask'[t].kind = "write"
    BY DEF CleanupInv
  <2> QED BY <2>1, <2>2, <2>3, <2>4, <2>5 DEF CleanupInv
<1>3. /\ RevokeComing => RevokeComing'
      /\ Over' => Over \/ RevokeComing'
  BY <1>1, ListBegins, ListRevokes
<1>4. \A t \in Threads : phase[t] \in {"prepare", "undo", "record", "after"}
                           => phase'[t] = phase[t]
  OBVIOUS
<1> QED BY <1>2, <1>3, <1>4, ShutKept

\* The other steps.
LEMMA OthersShut ==
  ASSUME TypeOK, ShutInv
  PROVE  /\ \A t \in Threads :
              BeginLocked(t) \/ LockTool(t) \/ RevokeEnvFile(t) => ShutInv'
         /\ HostStep \/ PersonStep \/ OutsideStep => ShutInv'
<1> USE DEF ShutInv
<1>0. /\ Threads \cap {App, Host} = {} /\ Threads \subseteq Workers
      /\ {App, Host} \subseteq Workers /\ App # Host
  BY AgentAssumption DEF Workers, App, Host
<1>1. ASSUME NEW t \in Threads, BeginLocked(t) PROVE ShutInv'
  <2>1. todo[t] = <<>> /\ doomed[t] = {} /\ phase[t] = "idle" /\ phase'[t] = "clean"
    BY <1>1 DEF BeginLocked, Goto, CleanupInv, Idle, TypeOK
  <2>2. \A n \in DOMAIN <<"revoke", "kill">> : <<"revoke", "kill">>[n] # "unhook"
    OBVIOUS
  <2>3. /\ UNCHANGED <<fileVars, childVars, callVars, lease, store, doomed, overtaken>>
        /\ UNCHANGED <<hook, vault, stopFlag>> /\ Over' = Over
        /\ \A u \in Threads \ {t} : phase'[u] = phase[u]
        /\ todo' = [todo EXCEPT ![t] = <<"revoke", "kill">>]
    BY <1>1 DEF BeginLocked, vaultVars, leaseVars, grantVars, histVars, Goto, Over,
                TypeOK
  <2> QED BY ONLY <1>0, <2>1, <2>2, <2>3, TypeOK, ShutInv, BeginShut
<1>2. ASSUME NEW t \in Threads, LockTool(t) PROVE ShutInv'
  <2> DEFINE s == <<"audit", "revoke", "kill", "deny", "audit">>
  <2>1. todo[t] = <<>> /\ doomed[t] = {} /\ phase[t] = "locking" /\ phase'[t] = "clean"
    BY <1>2 DEF LockTool, Goto, CleanupInv, Idle, TypeOK
  <2>2. (\A n \in DOMAIN s : s[n] # "unhook") /\ \E n \in DOMAIN s : s[n] = "revoke"
    BY ListsRevoke
  <2>3. todo' = [todo EXCEPT ![t] = s]
    BY <1>2 DEF LockTool
  <2> HIDE DEF s
  <2>4. /\ UNCHANGED <<fileVars, childVars, callVars, lease, store, doomed, overtaken>>
        /\ UNCHANGED <<hook, vault, stopFlag>>
        /\ \A u \in Threads \ {t} : phase'[u] = phase[u]
    BY <1>2 DEF LockTool, leaseVars, grantVars, histVars, Goto, TypeOK
  <2> QED BY ONLY <1>0, <2>1, <2>2, <2>3, <2>4, TypeOK, ShutInv, BeginShut
<1>3. ASSUME NEW t \in Threads, RevokeEnvFile(t) PROVE ShutInv'
  <2>1. /\ store' \subseteq store /\ \A x \in Workers \ {t} : doomed'[x] = doomed[x]
        /\ phase[t] = "revoking" /\ phase' = [phase EXCEPT ![t] = "clean"]
        /\ UNCHANGED <<vaultVars, fileVars, childVars, callVars, lease, todo, overtaken>>
    BY <1>0, <1>3 DEF RevokeEnvFile, RevokeLease, RevokePath, Goto, grantVars,
                      histVars, TypeOK
  <2>2. Idle(t)
    BY <2>1 DEF CleanupInv
  <2> QED BY <1>0, <2>1, <2>2, RevocationShut DEF TypeOK
<1>4. CASE TakeVault
  <2> DEFINE s == IF hook = "set" THEN <<"deny", "revoke", "kill", "unlatch">> ELSE <<>>
  <2>1. todo[Host] = <<>> /\ todo' = [todo EXCEPT ![Host] = s]
    BY <1>4 DEF TakeVault, CleanupInv
  <2>2. \A n \in DOMAIN s : s[n] # "unhook"
    OBVIOUS
  <2>3. hook = "set" => \E n \in DOMAIN s : s[n] = "revoke"
    BY ListsRevoke
  <2>4. hook # "set" => Over
    BY <1>4 DEF TakeVault, CleanupInv, Over, TypeOK
  <2> HIDE DEF s
  <2>5. hook' = hook \/ (hook' = "running" /\ vault' = "taken")
    BY <1>4 DEF TakeVault
  <2>6. /\ UNCHANGED <<fileVars, childVars, callVars, lease, store, doomed, overtaken>>
        /\ UNCHANGED <<phase, stopFlag>> /\ vault' = "taken"
    BY <1>4 DEF TakeVault, leaseVars, grantVars, histVars
  <2> QED BY ONLY <1>0, <2>1, <2>2, <2>3, <2>4, <2>5, <2>6, TypeOK, ShutInv, BeginShut
<1>5. CASE Stop
  <2> DEFINE s == <<"unhook", "deny", "revoke", "kill">>
  <2>1. todo[App] = <<>> /\ todo' = [todo EXCEPT ![App] = s]
    BY <1>5 DEF Stop, Idle
  <2>2. \E n \in DOMAIN s : s[n] = "revoke"
    BY ListsRevoke
  <2> HIDE DEF s
  <2>3. /\ UNCHANGED <<fileVars, childVars, callVars, lease, store, doomed, overtaken>>
        /\ UNCHANGED <<phase, hook, vault>> /\ stopFlag'
    BY <1>5 DEF Stop, leaseVars, grantVars, histVars
  <2> QED BY ONLY <1>0, <2>1, <2>2, <2>3, TypeOK, ShutInv, BeginShut
<1>6. CASE RevokeAll
  <2> DEFINE s == <<"deny", "revoke", "reopen">>
  <2>1. todo[App] = <<>> /\ todo' = [todo EXCEPT ![App] = s]
    BY <1>6 DEF RevokeAll, Idle
  <2>2. (\A n \in DOMAIN s : s[n] # "unhook") /\ \E n \in DOMAIN s : s[n] = "revoke"
    BY ListsRevoke
  <2> HIDE DEF s
  <2>3. /\ UNCHANGED <<fileVars, childVars, callVars, lease, store, doomed, overtaken>>
        /\ UNCHANGED <<phase, hook, vault, stopFlag>>
    BY <1>6 DEF RevokeAll, leaseVars, grantVars, histVars, vaultVars
  <2> QED BY ONLY <1>0, <2>1, <2>2, <2>3, TypeOK, ShutInv, BeginShut
<1>7. ASSUME NEW l \in Ids, AppRevokesLease(l) PROVE ShutInv'
  <2>1. /\ store' \subseteq store /\ \A x \in Workers \ {App} : doomed'[x] = doomed[x]
        /\ Idle(App)
        /\ UNCHANGED <<vaultVars, fileVars, childVars, callVars, lease, todo, overtaken,
                       phase>>
    BY <1>0, <1>7 DEF AppRevokesLease, RevokeLease, grantVars, histVars, TypeOK
  <2> QED BY ONLY <1>0, <2>1, TypeOK, ShutInv, RevocationShut
<1>8. CASE PersonStep \/ OutsideStep
  <2>1. /\ UNCHANGED <<cleanSees, call, ask, lease, ledger, overtaken, phase, store,
                       child, registry>>
        /\ \A p \in Places, f \in Ids : disk'[p] = f => disk[p] = f
    <3>1. CASE PersonStep
      BY <3>1 DEF PersonStep, Resolve, cleanSees, vaultVars, leaseVars, fileVars,
                  childVars, callVars, grantVars, cleanVars, histVars
    <3>2. ASSUME NEW l \in Ids, Expire(l) PROVE <2>1!:
      BY <3>2 DEF Expire, cleanSees, vaultVars, leaseVars, fileVars,
                  childVars, callVars, grantVars, cleanVars, histVars
    <3>3. ASSUME NEW p \in Places, UserPutsFile(p) PROVE <2>1!:
      BY <3>3 DEF UserPutsFile, cleanSees, vaultVars, leaseVars, fileVars,
                  childVars, callVars, grantVars, cleanVars, histVars, TypeOK,
                  Theirs, Ids
    <3> QED BY <1>8, <3>1, <3>2, <3>3 DEF OutsideStep
  <2>2. /\ Over' = Over /\ RevokeComing' = RevokeComing /\ \A x : Idle(x)' = Idle(x)
        /\ vault' = vault /\ doomed' = doomed
    BY <2>1, SameCleaning DEF cleanSees
  <2>3. CleanupInv'
    BY <2>1, <2>2 DEF CleanupInv, cleanSees
  <2> QED BY ONLY <2>1, <2>2, <2>3, TypeOK, ShutInv, ShutKept
<1> QED BY <1>1, <1>2, <1>3, <1>4, <1>5, <1>6, <1>7, <1>8 DEF HostStep

LEMMA ShutInvInit == Init => ShutInv
BY DEF Init, ShutInv, CleanupInv, LeasesGoing, FilesGoing, Idle, Workers, Ids, NoFile

LEMMA ShutInvStep == TypeOK /\ ShutInv /\ [Next]_vars => ShutInv'
<1> SUFFICES ASSUME TypeOK, ShutInv, [Next]_vars PROVE ShutInv'
  OBVIOUS
<1>1. ASSUME NEW t \in Threads, RequestStep(t) \/ RequestBegins(t) PROVE ShutInv'
  <2>1. CASE BeginLocked(t) \/ LockTool(t) \/ RevokeEnvFile(t)
    BY <2>1, OthersShut
  <2>2. CASE ~(BeginLocked(t) \/ LockTool(t) \/ RevokeEnvFile(t))
    BY <1>1, <2>2, RequestShut DEF RequestBegins
  <2> QED BY <2>1, <2>2
<1>2. ASSUME NEW w \in Workers, CleanStep(w) PROVE ShutInv'
  BY <1>2, CleanShut
<1>3. CASE HostStep \/ PersonStep \/ OutsideStep
  BY <1>3, OthersShut
<1>4. CASE UNCHANGED vars
  <2>1. UNCHANGED <<cleanSees, call, ask, lease, ledger, overtaken, phase, store,
                    child, registry, disk>>
    BY <1>4 DEF vars, cleanSees, vaultVars, leaseVars, fileVars, childVars, callVars,
                grantVars, cleanVars, histVars
  <2>2. /\ Over' = Over /\ RevokeComing' = RevokeComing /\ \A x : Idle(x)' = Idle(x)
    BY <2>1, SameCleaning
  <2>3. CleanupInv'
    BY <2>1, <2>2 DEF ShutInv, CleanupInv, cleanSees
  <2> QED BY ONLY <2>1, <2>2, <2>3, TypeOK, ShutInv, ShutKept DEF cleanSees
<1> QED BY <1>1, <1>2, <1>3, <1>4 DEF Next

\* Every lock, stop and take of the vault has its revocation to come, or behind it.
THEOREM AgentShuts == Spec => []ShutInv
BY ShutInvInit, ShutInvStep, AgentTypeCorrect, PTL DEF Spec

\* Locking means locking: once the vault was locked or the agent stopped and all is
\* at rest, no lease is live, no child runs and no file is left that kagisecure
\* wrote, but one a slower writer overtook in the ledger (service.rs:2676).
THEOREM AgentLockedMeansLocked == Spec => []LockedMeansLocked
<1>1. ShutInv => LockedMeansLocked
  <2> SUFFICES ASSUME ShutInv, AtRest, Over
               PROVE  /\ Live = {} /\ \A t \in Threads : child[t] = "none"
                      /\ \A p \in Places : disk[p] \in Ids => disk[p] \in overtaken
    BY DEF LockedMeansLocked
  <2>1. ~RevokeComing
    <3>1. \A w \in Workers : DOMAIN todo[w] = {}
      BY DEF AtRest, Idle
    <3> QED BY <3>1 DEF RevokeComing, Revokes
  <2>2. Live = {}
    BY <2>1 DEF ShutInv, LeasesGoing, AtRest, Live
  <2>3. \A t \in Threads : child[t] = "none"
    BY DEF ShutInv, CleanupInv, AtRest
  <2>4. \A p \in Places : disk[p] \in Ids => disk[p] \in overtaken
    BY <2>1 DEF ShutInv, FilesGoing, FileGoes, AtRest, Idle
  <2> QED BY <2>2, <2>3, <2>4
<1> QED BY <1>1, AgentShuts, PTL
=============================================================================
