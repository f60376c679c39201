-------------------------- MODULE AgentFillProofs --------------------------
(***************************************************************************)
(* Proofs about agent fills: for any number of agents, calls, browser      *)
(* sessions, tabs, unlocks and locks, FillInv is an invariant; with it     *)
(* whatever is released was approved, and ReleaseGate is implemented. With *)
(* TellingInv besides, what the agent and the log are told is true.        *)
(***************************************************************************)
EXTENDS AgentFill, TLAPS

(***************************************************************************)
(* Types.                                                                  *)
(***************************************************************************)

LEMMA NoAskType == NoAsk \in [agent : Agents, fields : SUBSET Login]
BY FillAssumption DEF NoAsk

LEMMA NoFlowType == NoFlow \in Flow
BY DEF NoFlow, Flow

LEMMA RefuseTypes ==
  ASSUME TypeOK, NEW c \in Calls, NEW told \in Answers, Refuse(c, told)
  PROVE  /\ phase' \in [Calls -> Phases] /\ answer' \in [Calls -> Answers]
         /\ flow' = NoFlow /\ flow' \in Flow /\ ~flow'.stored
         /\ notes' \in [Calls -> SUBSET Notes]
BY NoFlowType DEF TypeOK, Refuse, End, Goto, Noted, Notes, Phases, NoFlow

LEMMA EndTypes ==
  ASSUME TypeOK, NEW c \in Calls, NEW told \in Answers, End(c, told)
  PROVE  /\ phase' \in [Calls -> Phases] /\ answer' \in [Calls -> Answers]
         /\ flow' = NoFlow /\ flow' \in Flow /\ ~flow'.stored
BY NoFlowType DEF TypeOK, End, Goto, Phases, NoFlow

\* The first half of a request keeps the types.
LEMMA AskingTypes ==
  ASSUME TypeOK, NEW c \in Calls
  PROVE  /\ AdmitRefused(c) \/ (\E a \in Agents, fields \in Asks : Admit(c, a, fields)) => TypeOK'
         /\ Gates(c) \/ GatesRefused(c) \/ Locate(c) \/ LocateRefused(c) => TypeOK'
         /\ (\E r \in flow.reports : Choose(c, r)) \/ StepGone(c) \/ ChooseRefused(c) => TypeOK'
         /\ Pass(c) \/ Raise(c) \/ RaiseRefused(c) => TypeOK'
         /\ (\E decision \in {"allow", "deny"} : Decide(c, decision)) => TypeOK'
         /\ Approved(c) \/ NotApproved(c) => TypeOK'
<1> USE DEF vaultVars, brokerVars, callVars, sessionVars, logVars, Goto, Phases
<1>1. CASE AdmitRefused(c)
  BY <1>1 DEF AdmitRefused, TypeOK, Answers
<1>2. ASSUME NEW a \in Agents, NEW fields \in Asks, Admit(c, a, fields)
      PROVE  TypeOK'
  <2>1. ask' \in [Calls -> [agent : Agents, fields : SUBSET Login]]
    BY <1>2, FillAssumption DEF Admit, TypeOK
  <2>2. flow' \in Flow /\ ~flow'.stored
    BY <1>2 DEF Admit, NoFlow, Flow
  <2>3. cont' \in [Calls -> Calls \cup {NoCall}] /\ pending' \subseteq pending
    BY ZenonT(60), <1>2 DEF Admit, TypeOK
  <2>4. born' \in [Calls -> 0..MaxUnlocks] /\ began' \in [Calls -> Nat]
    BY <1>2, FillAssumption DEF Admit, TypeOK
  <2>5. phase' \in [Calls -> Phases]
    BY <1>2 DEF Admit, TypeOK
  <2> QED BY <1>2, <2>1, <2>2, <2>3, <2>4, <2>5 DEF Admit, TypeOK
<1>3. CASE Gates(c)
  BY <1>3 DEF Gates, TypeOK
<1>4. CASE GatesRefused(c)
  BY <1>4, EndTypes DEF GatesRefused, TypeOK, Answers
<1>5. CASE Locate(c)
  <2>1. flow' \in Flow /\ flow'.stored = flow.stored /\ flow'.delivery = flow.delivery
        /\ flow'.to = flow.to
    BY <1>5 DEF Locate, Flow, TypeOK, Browsers
  <2>2. phase' \in [Calls -> Phases]
    BY <1>5 DEF Locate, TypeOK
  <2> QED BY <1>5, <2>1, <2>2 DEF Locate, TypeOK
<1>6. CASE LocateRefused(c)
  BY <1>6, RefuseTypes DEF LocateRefused, TypeOK, Answers
<1>7. ASSUME NEW r \in flow.reports, Choose(c, r) PROVE TypeOK'
  <2>1. flow' \in Flow /\ flow'.stored = flow.stored /\ flow'.delivery = flow.delivery
        /\ flow'.to = flow.to
    BY <1>7 DEF Choose, Flow, TypeOK
  <2>2. phase' \in [Calls -> Phases]
    BY <1>7 DEF Choose, TypeOK
  <2>3. r \in Place
    BY DEF TypeOK, Flow
  <2> QED BY <1>7, <2>1, <2>2, <2>3 DEF Choose, TypeOK
<1>8. CASE StepGone(c)
  <2>1. flow' \in Flow /\ flow'.stored = flow.stored /\ flow'.delivery = flow.delivery
        /\ flow'.to = flow.to
    BY <1>8 DEF StepGone, Flow, TypeOK
  <2>2. phase' \in [Calls -> Phases] /\ notes' \in [Calls -> SUBSET Notes]
        /\ cont' \in [Calls -> Calls \cup {NoCall}]
    BY <1>8 DEF StepGone, TypeOK, Noted, Notes
  <2> QED BY <1>8, <2>1, <2>2 DEF StepGone, TypeOK
<1>9. CASE ChooseRefused(c)
  BY <1>9, RefuseTypes DEF ChooseRefused, TypeOK, Answers
<1>10. Consent(c).call \in Calls /\ Consent(c).uses \in {1, 2}
  BY DEF Consent
<1>11. CASE Pass(c)
  BY <1>10, <1>11 DEF Pass, TypeOK
<1>12. CASE Raise(c)
  BY <1>12 DEF Raise, TypeOK
<1>13. CASE RaiseRefused(c)
  BY <1>13, RefuseTypes DEF RaiseRefused, TypeOK, Answers
<1>14. ASSUME NEW decision \in {"allow", "deny"}, Decide(c, decision) PROVE TypeOK'
  BY <1>10, <1>14 DEF Decide, TypeOK
<1>15. CASE Approved(c)
  BY <1>15 DEF Approved, TypeOK
<1>16. CASE NotApproved(c)
  BY <1>16, RefuseTypes DEF NotApproved, TypeOK, Answers
<1> QED
  BY <1>1, <1>2, <1>3, <1>4, <1>5, <1>6, <1>7, <1>8, <1>9, <1>11, <1>12, <1>13, <1>14,
     <1>15, <1>16

\* The grant and what becomes of it keep the types.
LEMMA GrantTypes ==
  ASSUME TypeOK, FlowInv, NEW c \in Calls
  PROVE  /\ Issue(c) \/ IssueRefused(c) \/ GiveUp(c) => TypeOK'
         /\ ConcludeUnfilled(c) \/ ConcludeFilled(c) \/ ConcludeReleased(c) => TypeOK'
         /\ Keep(c) \/ Finish(c) \/ EndPending(c) => TypeOK'
<1> USE DEF vaultVars, brokerVars, callVars, sessionVars, logVars, Goto, Phases
<1>1. CASE Issue(c)
  <2>1. target[c].session \in Sessions /\ target[c].session # NoSession
    BY <1>1, FillAssumption DEF Issue, FlowInv, Place, Sessions, NoSession
  <2>2. flow' \in Flow /\ (flow'.stored => flow'.delivery = "waiting")
        /\ flow'.to = target[c].session
    BY ZenonT(60), <1>1, <2>1 DEF Issue, Flow, TypeOK
  <2>3. phase' \in [Calls -> Phases]
    BY <1>1 DEF Issue, TypeOK
  <2> QED BY <1>1, <2>1, <2>2, <2>3 DEF Issue, TypeOK
<1>2. CASE IssueRefused(c)
  BY <1>2, RefuseTypes DEF IssueRefused, TypeOK, Answers
<1>3. CASE GiveUp(c)
  <2>1. flow' \in Flow /\ ~flow'.stored
    BY <1>3 DEF GiveUp, Flow, TypeOK
  <2> QED BY <1>3, <2>1 DEF GiveUp, TypeOK
<1>4. CASE ConcludeUnfilled(c)
  BY <1>4, RefuseTypes DEF ConcludeUnfilled, TypeOK, Answers
<1>5. CASE ConcludeFilled(c)
  BY <1>5 DEF ConcludeFilled, TypeOK, Answers
<1>6. CASE ConcludeReleased(c)
  <2>1. notes' \in [Calls -> SUBSET Notes]
    BY <1>6 DEF ConcludeReleased, TypeOK, Noted, Notes
  <2>2. phase' \in [Calls -> Phases] /\ answer' \in [Calls -> Answers]
    BY <1>6 DEF ConcludeReleased, TypeOK, Answers
  <2> QED BY <1>6, <2>1, <2>2 DEF ConcludeReleased, TypeOK
<1>7. CASE Keep(c)
  <2>1. [call |-> c, gone |-> FALSE] \in [call : Calls, gone : BOOLEAN]
    OBVIOUS
  <2>2. pending' \subseteq [call : Calls, gone : BOOLEAN] /\ phase' \in [Calls -> Phases]
    BY <1>7, <2>1 DEF Keep, TypeOK
  <2> QED BY <1>7, <2>2 DEF Keep, TypeOK
<1>8. CASE Finish(c)
  <2>1. CASE answer[c] = "filled"
    BY <1>8, <2>1, EndTypes DEF Finish, TypeOK, Answers
  <2>2. CASE answer[c] # "filled"
    BY <1>8, <2>2, RefuseTypes DEF Finish, TypeOK, Answers
  <2> QED BY <2>1, <2>2
<1>9. CASE EndPending(c)
  <2>1. notes' \in [Calls -> SUBSET Notes] /\ pending' \subseteq pending
    BY <1>9 DEF EndPending, TypeOK, Noted, Notes
  <2> QED BY <1>9, <2>1 DEF EndPending, TypeOK
<1> QED BY <1>1, <1>2, <1>3, <1>4, <1>5, <1>6, <1>7, <1>8, <1>9

\* The extension's steps keep the types.
LEMMA SessionTypes ==
  ASSUME TypeOK, RedeemedInv, NEW s \in Sessions, ExtensionStep(s)
  PROVE  TypeOK'
<1> USE DEF vaultVars, brokerVars, callVars, sessionVars, logVars
<1>1. CASE Connect(s)
  BY <1>1, FillAssumption DEF Connect, TypeOK
<1>2. CASE Close(s)
  <2>1. thread' \in [Sessions -> Redeeming]
    BY <1>2 DEF Close, TypeOK, Resting, Redeeming
  <2>2. pending' \subseteq [call : Calls, gone : BOOLEAN]
    <3> SUFFICES ASSUME NEW p \in pending
                 PROVE  [p EXCEPT !.gone = TRUE] \in [call : Calls, gone : BOOLEAN]
      BY <1>2 DEF Close, TypeOK
    <3> QED BY DEF TypeOK
  <2>3. flow' \in Flow /\ (flow'.stored => flow.stored /\ flow'.delivery = flow.delivery)
        /\ flow'.to = flow.to
    BY ZenonT(60), <1>2 DEF Close, TypeOK, Flow
  <2> QED BY <1>2, <2>1, <2>2, <2>3 DEF Close, TypeOK
<1>3. CASE Release(s)
  <2>1. thread[s].call \in Calls /\ target[thread[s].call] \in Place
    BY <1>3 DEF Release, RedeemedInv, Taken, Releasing
  <2>2. thread' \in [Sessions -> Redeeming]
    BY <1>3, <2>1 DEF Release, Serve, TypeOK, Redeeming
  <2>3. ApprovalOf(thread[s].call) \in Calls
    BY <2>1, FillAssumption DEF ApprovalOf, TypeOK
  <2>4. Writes(thread[s].call) \subseteq Login
    BY <2>1 DEF Writes, TypeOK, Login
  <2>5. UseOf(thread[s].call) \in {1, 2} /\ target[thread[s].call].tab \in Tabs
    BY <2>1 DEF UseOf, Place
  <2>6. \A e \in entered' :
          /\ e.call \in Calls /\ e.lease \in Calls /\ e.use \in {1, 2}
          /\ e.session \in Sessions /\ e.tab \in Tabs /\ e.fields \subseteq Login
    BY <1>3, <2>1, <2>3, <2>4, <2>5 DEF Release, TypeOK
  <2> QED BY <1>3, <2>2, <2>6 DEF Release, TypeOK
<1>4. CASE RedeemRefused(s)
  <2>1. thread' \in [Sessions -> Redeeming]
    BY <1>4 DEF RedeemRefused, Serve, TypeOK, Redeeming
  <2> QED BY <1>4, <2>1 DEF RedeemRefused, TypeOK
<1>5. CASE Settle(s)
  <2>1. thread' \in [Sessions -> Redeeming]
    <3>1. thread[s] \in Redeeming /\ Resting \in Redeeming
      BY DEF TypeOK, Redeeming, Resting
    <3>2. [thread[s] EXCEPT !.at = "reply"] \in Redeeming
      BY <3>1 DEF Redeeming
    <3>3. \/ thread' = [thread EXCEPT ![s] = [thread[s] EXCEPT !.at = "reply"]]
          \/ thread' = [thread EXCEPT ![s] = Resting]
      BY <1>5 DEF Settle
    <3> QED BY <3>1, <3>2, <3>3 DEF TypeOK
  <2>2. flow' \in Flow /\ flow'.to = flow.to
        /\ (flow'.stored => flow.stored /\ flow'.delivery = flow.delivery)
    BY <1>5 DEF Settle, TypeOK, Flow, RedeemedInv, Taken
  <2>3. notes' \in [Calls -> SUBSET Notes]
    BY <1>5 DEF Settle, TypeOK, Noted, Notes
  <2> QED BY <1>5, <2>1, <2>2, <2>3 DEF Settle, TypeOK
<1>6. CASE Reply(s)
  <2>1. thread' \in [Sessions -> Redeeming] /\ wire' \in [Calls -> {"none", "sent", "lost"}]
    BY <1>6 DEF Reply, TypeOK, Redeeming, Resting
  <2> QED BY <1>6, <2>1 DEF Reply, TypeOK
<1>7. CASE ReplyFails(s)
  <2>1. thread' \in [Sessions -> Redeeming] /\ wire' \in [Calls -> {"none", "sent", "lost"}]
    BY <1>7 DEF ReplyFails, Serve, TypeOK, Redeeming
  <2>2. flow' \in Flow /\ flow'.stored = flow.stored /\ flow'.delivery = flow.delivery
        /\ flow'.to = flow.to
    BY <1>7 DEF ReplyFails, TypeOK, Flow
  <2>3. notes' \in [Calls -> SUBSET Notes]
    BY <1>7 DEF ReplyFails, TypeOK, Noted, Notes
  <2> QED BY <1>7, <2>1, <2>2, <2>3 DEF ReplyFails, TypeOK
<1>8. ASSUME NEW tab \in Tabs, NEW page \in Shown, Report(s, tab, page) PROVE TypeOK'
  <2>1. [session |-> s, tab |-> tab, page |-> page] \in Place
    BY FillAssumption DEF Place
  <2>2. flow' \in Flow /\ flow'.stored = flow.stored /\ flow'.delivery = flow.delivery
        /\ flow'.to = flow.to
    BY ZenonT(60), <1>8, <2>1 DEF Report, TypeOK, Flow
  <2> QED BY <1>8, <2>2 DEF Report, TypeOK
<1>9. ASSUME NEW c \in Calls, Abandon(s, c) PROVE TypeOK'
  <2>1. thread' \in [Sessions -> Redeeming]
    BY <1>9 DEF Abandon, Serve, TypeOK, Redeeming
  <2>2. flow' \in Flow /\ ~flow'.stored
    BY <1>9 DEF Abandon, TypeOK, Flow
  <2> QED BY <1>9, <2>1, <2>2 DEF Abandon, TypeOK
<1>10. ASSUME NEW c \in Calls, NEW tab \in Tabs, NEW page \in Shown, Redeem(s, c, tab, page)
       PROVE  TypeOK'
  <2>1. thread' \in [Sessions -> Redeeming]
    BY <1>10 DEF Redeem, Serve, TypeOK, Redeeming
  <2>2. flow' \in Flow /\ ~flow'.stored
    BY <1>10 DEF Redeem, TypeOK, Flow
  <2> QED BY <1>10, <2>1, <2>2 DEF Redeem, TypeOK
<1>11. ASSUME NEW c \in Calls, NEW told \in {"written", "failed"}, Outcome(s, c, told)
       PROVE  TypeOK'
  <2>1. flow' \in Flow /\ (flow'.stored => flow.stored /\ flow'.delivery = flow.delivery)
        /\ flow'.to = flow.to
    BY ZenonT(60), <1>11 DEF Outcome, TypeOK, Flow
  <2> QED BY <1>11, <2>1 DEF Outcome, TypeOK
<1> QED
  BY <1>1, <1>2, <1>3, <1>4, <1>5, <1>6, <1>7, <1>8, <1>9, <1>10, <1>11 DEF ExtensionStep

\* Locks, revocations and unlocks keep the types.
LEMMA CleaningTypes ==
  ASSUME TypeOK
  PROVE  /\ LockTool \/ TakeVault \/ RevokeAll \/ Unlock => TypeOK'
         /\ \A w \in Cleaners : Cleaning(w) => TypeOK'
<1> USE DEF vaultVars, brokerVars, callVars, sessionVars, logVars
<1>1. ASSUME NEW w \in Cleaners, CleanupBegins(w)
      PROVE  /\ cleaning' \in [Cleaners -> {"idle", "deny", "revoke", "reopen"}]
             /\ cleanups' \in 0..MaxCleanups
  BY <1>1, FillAssumption DEF CleanupBegins, TypeOK
<1>2. {"tool", "host", "app"} \subseteq Cleaners
  BY DEF Cleaners
<1>3. CASE LockTool
  BY <1>1, <1>2, <1>3 DEF LockTool, CleanupBegins, TypeOK
<1>4. CASE TakeVault
  BY <1>1, <1>2, <1>4 DEF TakeVault, CleanupBegins, TypeOK
<1>5. CASE RevokeAll
  BY <1>1, <1>2, <1>5 DEF RevokeAll, CleanupBegins, TypeOK
<1>6. CASE Unlock
  <2>1. unlock' \in 1..MaxUnlocks
    BY <1>6, FillAssumption DEF Unlock, TypeOK
  <2> QED BY <1>6, <2>1 DEF Unlock, TypeOK
<1>7. ASSUME NEW w \in Cleaners, DenyAll(w) PROVE TypeOK'
  BY <1>7 DEF DenyAll, TypeOK
<1>8. ASSUME NEW w \in Cleaners, RevokeGrants(w) PROVE TypeOK'
  <2>1. flow' \in Flow /\ ~flow'.stored
    BY <1>8 DEF RevokeGrants, TypeOK, Flow
  <2>2. cleaning' \in [Cleaners -> {"idle", "deny", "revoke", "reopen"}] /\ epoch' \in Nat
    BY <1>8 DEF RevokeGrants, TypeOK
  <2> QED BY <1>8, <2>1, <2>2 DEF RevokeGrants, TypeOK
<1>9. ASSUME NEW w \in Cleaners, Reopen(w) PROVE TypeOK'
  BY <1>9 DEF Reopen, TypeOK
<1> QED BY <1>3, <1>4, <1>5, <1>6, <1>7, <1>8, <1>9 DEF Cleaning

LEMMA FillTypes == FillInv /\ [Next]_vars => TypeOK'
<1> SUFFICES ASSUME FillInv, [Next]_vars PROVE TypeOK'
  OBVIOUS
<1>1. CASE UNCHANGED vars
  BY <1>1 DEF vars, vaultVars, brokerVars, callVars, sessionVars, logVars, FillInv, TypeOK
<1>2. ASSUME NEW c \in Calls, Request(c) \/ Work(c) \/ EndPending(c) \/
                 \E decision \in {"allow", "deny"} : Decide(c, decision)
      PROVE  TypeOK'
  BY <1>2, AskingTypes, GrantTypes DEF Request, Work, FillInv
<1> QED BY <1>1, <1>2, SessionTypes, CleaningTypes DEF Next, FillInv

(***************************************************************************)
(* The one flow.                                                           *)
(***************************************************************************)

\* What a step of the extension leaves alone.
LEMMA SessionFrame ==
  ASSUME TypeOK, NEW s \in Sessions, ExtensionStep(s)
  PROVE  /\ UNCHANGED <<vaultVars, epoch, phase, callVars, consents>>
         /\ flow'.call = flow.call /\ flow'.to = flow.to /\ (flow'.stored => flow.stored)
<1> USE DEF vaultVars, brokerVars, callVars, sessionVars, logVars
<1>1. flow \in Flow
  BY DEF TypeOK
<1>2. CASE Connect(s) \/ Release(s) \/ RedeemRefused(s) \/ Reply(s)
  BY <1>2 DEF Connect, Release, RedeemRefused, Reply
<1>3. CASE Close(s)
  BY <1>1, <1>3 DEF Close, Flow
<1>4. CASE Settle(s)
  BY <1>1, <1>4 DEF Settle, Flow
<1>5. CASE ReplyFails(s)
  BY <1>1, <1>5 DEF ReplyFails, Flow
<1>6. ASSUME NEW tab \in Tabs, NEW page \in Shown, Report(s, tab, page)
      PROVE  /\ UNCHANGED <<vaultVars, epoch, phase, callVars, consents>>
             /\ flow'.call = flow.call /\ flow'.to = flow.to /\ (flow'.stored => flow.stored)
  BY <1>1, <1>6 DEF Report, Flow
<1>7. ASSUME NEW c \in Calls, Abandon(s, c)
      PROVE  /\ UNCHANGED <<vaultVars, epoch, phase, callVars, consents>>
             /\ flow'.call = flow.call /\ flow'.to = flow.to /\ (flow'.stored => flow.stored)
  BY <1>1, <1>7 DEF Abandon, Flow
<1>8. ASSUME NEW c \in Calls, NEW tab \in Tabs, NEW page \in Shown, Redeem(s, c, tab, page)
      PROVE  /\ UNCHANGED <<vaultVars, epoch, phase, callVars, consents>>
             /\ flow'.call = flow.call /\ flow'.to = flow.to /\ (flow'.stored => flow.stored)
  BY <1>1, <1>8 DEF Redeem, Flow
<1>9. ASSUME NEW c \in Calls, NEW told \in {"written", "failed"}, Outcome(s, c, told)
      PROVE  /\ UNCHANGED <<vaultVars, epoch, phase, callVars, consents>>
             /\ flow'.call = flow.call /\ flow'.to = flow.to /\ (flow'.stored => flow.stored)
  BY <1>1, <1>9 DEF Outcome, Flow
<1> QED BY <1>2, <1>3, <1>4, <1>5, <1>6, <1>7, <1>8, <1>9 DEF ExtensionStep

\* What a lock, a revocation or an unlock leaves alone.
LEMMA CleaningFrame ==
  ASSUME TypeOK, LockTool \/ TakeVault \/ RevokeAll \/ Unlock \/ \E w \in Cleaners : Cleaning(w)
  PROVE  /\ UNCHANGED <<phase, ask, born, began, cont, target, sess, sessionVars, logVars>>
         /\ flow'.call = flow.call /\ flow'.to = flow.to /\ (flow'.stored => flow.stored)
         /\ pending' \subseteq pending
<1> USE DEF vaultVars, brokerVars, callVars, sessionVars, logVars
<1>1. flow \in Flow
  BY DEF TypeOK
<1>2. CASE LockTool \/ TakeVault \/ RevokeAll \/ Unlock
  BY <1>2 DEF LockTool, TakeVault, RevokeAll, Unlock, CleanupBegins
<1>3. ASSUME NEW w \in Cleaners, DenyAll(w) \/ Reopen(w)
      PROVE  UNCHANGED <<phase, ask, born, began, cont, target, brokerVars, sessionVars, logVars>>
  BY <1>3 DEF DenyAll, Reopen
<1>4. ASSUME NEW w \in Cleaners, RevokeGrants(w)
      PROVE  /\ UNCHANGED <<phase, ask, born, began, cont, target, sess, sessionVars, logVars>>
             /\ flow'.call = flow.call /\ flow'.to = flow.to /\ ~flow'.stored
             /\ pending' = {}
  BY <1>1, <1>4 DEF RevokeGrants, Flow
<1> QED BY <1>2, <1>3, <1>4 DEF Cleaning

LEMMA FlowKept ==
  ASSUME FlowInv, UNCHANGED <<phase, target>>,
         flow'.call = flow.call, flow'.to = flow.to, flow'.stored => flow.stored
  PROVE  FlowInv'
BY DEF FlowInv

\* A flow that ends leaves none.
LEMMA FlowEnded ==
  ASSUME TypeOK, FlowInv, NEW c \in Calls, NEW told \in Answers, End(c, told),
         phase[c] \notin {"idle", "done"}, UNCHANGED target
  PROVE  FlowInv'
BY DEF TypeOK, FlowInv, End, Goto, NoFlow

LEMMA FlowStep ==
  ASSUME TypeOK, FlowInv, Next
  PROVE  FlowInv'
<1> USE DEF vaultVars, brokerVars, callVars, sessionVars, logVars, Goto
<1>1. flow \in Flow
  BY DEF TypeOK
<1>2. ASSUME NEW c \in Calls, AdmitRefused(c)
      PROVE  FlowInv'
  BY <1>2 DEF AdmitRefused, FlowInv, TypeOK
<1>3. ASSUME NEW c \in Calls, NEW a \in Agents, NEW fields \in Asks, Admit(c, a, fields)
      PROVE  FlowInv'
  BY SMTT(40), <1>3, FillAssumption DEF Admit, FlowInv, TypeOK, NoFlow, Calls, NoCall
<1>4. ASSUME NEW c \in Calls, Gates(c) \/ Pass(c) \/ Raise(c) \/ Approved(c)
      PROVE  FlowInv'
  BY SMTT(40), <1>4 DEF Gates, Pass, Raise, Approved, FlowInv, TypeOK
<1>5. ASSUME NEW c \in Calls, GatesRefused(c)
      PROVE  FlowInv'
  BY <1>5, FlowEnded DEF GatesRefused, Answers
<1>6. ASSUME NEW c \in Calls,
             \/ LocateRefused(c) \/ ChooseRefused(c) \/ RaiseRefused(c) \/ NotApproved(c)
             \/ IssueRefused(c) \/ ConcludeUnfilled(c)
      PROVE  FlowInv'
  <2>1. /\ phase[c] \notin {"idle", "done"} /\ UNCHANGED target
        /\ End(c, "refused") \/ End(c, "nothing")
    BY <1>6 DEF LocateRefused, ChooseRefused, RaiseRefused, NotApproved, IssueRefused,
                ConcludeUnfilled, Refuse
  <2> QED BY <2>1, FlowEnded DEF Answers
<1>7. ASSUME NEW c \in Calls, Locate(c)
      PROVE  FlowInv'
  BY <1>1, <1>7 DEF Locate, FlowInv, TypeOK, Flow
<1>8. ASSUME NEW c \in Calls, NEW r \in flow.reports, Choose(c, r)
      PROVE  FlowInv'
  <2>1. r \in Place
    BY <1>1 DEF Flow
  <2> QED BY <1>1, <1>8, <2>1 DEF Choose, FlowInv, TypeOK, Flow
<1>9. ASSUME NEW c \in Calls, StepGone(c)
      PROVE  FlowInv'
  BY <1>1, <1>9 DEF StepGone, FlowInv, TypeOK, Flow
<1>10. ASSUME NEW c \in Calls, Issue(c)
       PROVE  FlowInv'
  BY <1>1, <1>10 DEF Issue, FlowInv, TypeOK, Flow
<1>11. ASSUME NEW c \in Calls, GiveUp(c)
       PROVE  FlowInv'
  BY <1>1, <1>11 DEF GiveUp, FlowInv, TypeOK, Flow
<1>12. ASSUME NEW c \in Calls, ConcludeFilled(c) \/ ConcludeReleased(c) \/ Keep(c)
       PROVE  FlowInv'
  BY SMTT(40), <1>12 DEF ConcludeFilled, ConcludeReleased, Keep, FlowInv, TypeOK
<1>13. ASSUME NEW c \in Calls, Finish(c)
       PROVE  FlowInv'
  <2>1. End(c, "filled") \/ End(c, "nothing")
    BY <1>13 DEF Finish, Refuse
  <2> QED BY <1>13, <2>1, FlowEnded DEF Finish, Answers
<1>14. ASSUME NEW c \in Calls,
              EndPending(c) \/ \E decision \in {"allow", "deny"} : Decide(c, decision)
       PROVE  FlowInv'
  BY <1>14 DEF EndPending, Decide, FlowInv
<1>15. ASSUME NEW s \in Sessions, ExtensionStep(s)
       PROVE  FlowInv'
  BY <1>15, SessionFrame, FlowKept
<1>16. CASE LockTool \/ TakeVault \/ RevokeAll \/ Unlock \/ \E w \in Cleaners : Cleaning(w)
  BY <1>16, CleaningFrame, FlowKept
<1> QED
  BY <1>2, <1>3, <1>4, <1>5, <1>6, <1>7, <1>8, <1>9, <1>10, <1>11, <1>12, <1>13, <1>14,
     <1>15, <1>16 DEF Next, Request, Work

(***************************************************************************)
(* Approvals.                                                              *)
(***************************************************************************)

\* What is said of a call stays said while nothing about it changes.
LEMMA Unmoved ==
  ASSUME UNCHANGED <<ask, born, cont, target>>, consents \subseteq consents', NEW d
  PROVE  /\ StepOf(d)' = StepOf(d) /\ Writes(d)' = Writes(d) /\ UseOf(d)' = UseOf(d)
         /\ ApprovalOf(d)' = ApprovalOf(d) /\ Consent(d)' = Consent(d)
         /\ Backed(d) => Backed(d)'
BY DEF StepOf, TwoStep, Writes, UseOf, ApprovalOf, Consent, Backed

\* The same, when they change for one call only.
LEMMA UnmovedElsewhere ==
  ASSUME NEW c \in Calls, consents \subseteq consents', FlowInv, TypeOK,
         \A x \in Calls \ {c} : /\ ask'[x] = ask[x] /\ born'[x] = born[x]
                                /\ cont'[x] = cont[x] /\ target'[x] = target[x],
         NEW d \in Calls, d # c
  PROVE  /\ StepOf(d)' = StepOf(d) /\ Writes(d)' = Writes(d) /\ UseOf(d)' = UseOf(d)
         /\ ApprovalOf(d)' = ApprovalOf(d) /\ Consent(d)' = Consent(d)
         /\ Backed(d) /\ ApprovalOf(d) # c => Backed(d)'
<1>1. /\ ask'[d] = ask[d] /\ born'[d] = born[d] /\ cont'[d] = cont[d] /\ target'[d] = target[d]
  OBVIOUS
<1>2. StepOf(d)' = StepOf(d) /\ ApprovalOf(d)' = ApprovalOf(d) /\ ApprovalOf(d) \in Calls
  BY <1>1 DEF StepOf, TwoStep, ApprovalOf, TypeOK
<1>3. Writes(d)' = Writes(d) /\ UseOf(d)' = UseOf(d) /\ Consent(d)' = Consent(d)
  BY <1>1, <1>2 DEF Writes, UseOf, Consent
<1>4. ASSUME ApprovalOf(d) # c, Backed(d) PROVE Backed(d)'
  <2> DEFINE x == ApprovalOf(d)
  <2>1. x \in Calls /\ x # c /\ x' = x
    BY <1>2, <1>4
  <2>2. StepOf(x)' = StepOf(x)
    BY <2>1 DEF StepOf, TwoStep
  <2>3. Consent(x)' = Consent(x)
    BY <2>1, <2>2 DEF Consent
  <2> QED BY <1>1, <1>4, <2>1, <2>3 DEF Backed
<1> QED BY <1>2, <1>3, <1>4

LEMMA ConsentsKept ==
  ASSUME TypeOK, ConsentsInv, UNCHANGED <<ask, born, cont, target, sheet, consents>>,
         \A d \in Calls : /\ phase[d] \in Decided => phase'[d] \in Decided
                          /\ sheet[d] # "none" => phase'[d] = phase[d]
                          /\ phase'[d] \in {"sheet", "asking"} => cont[d] = NoCall
  PROVE  ConsentsInv'
<1>1. \A d : Consent(d)' = Consent(d)
  BY Unmoved
<1> QED BY <1>1 DEF ConsentsInv, TypeOK

LEMMA ConsentsStep ==
  ASSUME TypeOK, FlowInv, ConsentsInv, Next
  PROVE  ConsentsInv'
<1> USE DEF vaultVars, brokerVars, callVars, sessionVars, logVars, Goto
<1>1. ASSUME NEW c \in Calls,
             \/ AdmitRefused(c) \/ Gates(c) \/ GatesRefused(c) \/ Locate(c) \/ LocateRefused(c)
             \/ ChooseRefused(c) \/ RaiseRefused(c) \/ Issue(c) \/ IssueRefused(c)
             \/ GiveUp(c) \/ ConcludeUnfilled(c) \/ ConcludeFilled(c) \/ ConcludeReleased(c)
             \/ Keep(c) \/ Finish(c) \/ EndPending(c)
      PROVE  ConsentsInv'
  <2>1. UNCHANGED <<ask, born, cont, target, sheet, consents>>
    BY <1>1 DEF AdmitRefused, Gates, GatesRefused, Locate, LocateRefused, ChooseRefused,
         RaiseRefused, Issue, IssueRefused, GiveUp, ConcludeUnfilled, ConcludeFilled,
         ConcludeReleased, Keep, Finish, EndPending
  <2>2. \A d \in Calls \ {c} : phase'[d] = phase[d]
    BY ZenonT(60), <1>1 DEF AdmitRefused, Gates, GatesRefused, Locate, LocateRefused, ChooseRefused,
         RaiseRefused, Issue, IssueRefused, GiveUp, ConcludeUnfilled, ConcludeFilled,
         ConcludeReleased, Keep, Finish, EndPending, End, Refuse, TypeOK
  <2>3. \/ phase'[c] = phase[c]
        \/ phase[c] # "asking" /\ phase'[c] \in Granted
        \/ phase[c] \in {"gates", "locate"} /\ phase'[c] \in {"locate", "probe"}
    BY <1>1 DEF AdmitRefused, Gates, GatesRefused, Locate, LocateRefused, ChooseRefused,
         RaiseRefused, Issue, IssueRefused, GiveUp, ConcludeUnfilled, ConcludeFilled,
         ConcludeReleased, Keep, Finish, EndPending, End, Refuse, TypeOK, Granted
  <2> QED BY <2>1, <2>2, <2>3, ConsentsKept DEF Decided, Granted, ConsentsInv
<1>2. ASSUME NEW c \in Calls,
             \/ \E a \in Agents, fields \in Asks : Admit(c, a, fields)
             \/ \E r \in flow.reports : Choose(c, r)
             \/ StepGone(c)
      PROVE  ConsentsInv'
  <2>1. /\ UNCHANGED <<sheet, consents>> /\ phase[c] \in {"idle", "probe"}
        /\ \A d \in Calls \ {c} : /\ phase'[d] = phase[d] /\ ask'[d] = ask[d] /\ born'[d] = born[d]
                                  /\ cont'[d] = cont[d] /\ target'[d] = target[d]
        /\ phase'[c] \in {"gates", "locate", "sheet", "issue"}
        /\ phase'[c] = "sheet" => cont'[c] = NoCall
    BY <1>2 DEF Admit, Choose, StepGone, TypeOK
  <2>2. \A d \in Calls \ {c} : Consent(d)' = Consent(d)
    BY <2>1, UnmovedElsewhere
  <2>3. \A a \in consents : a.call \in Calls \ {c}
    BY <2>1 DEF ConsentsInv, TypeOK, Decided, Granted
  <2> QED BY <2>1, <2>2, <2>3 DEF ConsentsInv
<1>3. ASSUME NEW c \in Calls, Pass(c)
      PROVE  ConsentsInv'
  <2>1. \A d : Consent(d)' = Consent(d)
    BY <1>3, Unmoved DEF Pass
  <2>2. Consent(c).call = c /\ sheet[c] = "none" /\ cont[c] = NoCall
    BY <1>3 DEF Consent, Pass, ConsentsInv
  <2> QED BY <1>3, <2>1, <2>2 DEF Pass, ConsentsInv, TypeOK, Decided
<1>4. ASSUME NEW c \in Calls, Raise(c)
      PROVE  ConsentsInv'
  <2>1. \A d : Consent(d)' = Consent(d)
    BY <1>4, Unmoved DEF Raise
  <2>2. \A a \in consents : a.call # c
    BY <1>4 DEF Raise, ConsentsInv, Decided, Granted
  <2> QED BY <1>4, <2>1, <2>2 DEF Raise, ConsentsInv, TypeOK
<1>5. ASSUME NEW c \in Calls, NEW decision \in {"allow", "deny"}, Decide(c, decision)
      PROVE  ConsentsInv'
  <2>1. \A d : Consent(d)' = Consent(d)
    BY <1>5, Unmoved DEF Decide
  <2>2. Consent(c).call = c /\ phase[c] = "asking" /\ cont[c] = NoCall
    BY <1>5 DEF Consent, Decide, ConsentsInv
  <2> QED BY <1>5, <2>1, <2>2 DEF Decide, ConsentsInv, TypeOK, Decided
<1>6. ASSUME NEW c \in Calls, Approved(c) \/ NotApproved(c)
      PROVE  ConsentsInv'
  <2>1. \A d : Consent(d)' = Consent(d)
    BY <1>6, Unmoved DEF Approved, NotApproved
  <2>2. /\ sheet' = [sheet EXCEPT ![c] = "none"] /\ UNCHANGED <<cont, consents>>
        /\ \A d \in Calls \ {c} : phase'[d] = phase[d]
        /\ phase'[c] \in {"issue", "done"}
    BY <1>6 DEF Approved, NotApproved, Refuse, End, TypeOK
  <2> QED BY <2>1, <2>2 DEF ConsentsInv, TypeOK, Decided, Granted
<1>7. ASSUME NEW s \in Sessions, ExtensionStep(s)
      PROVE  ConsentsInv'
  BY <1>7, SessionFrame, ConsentsKept DEF ConsentsInv
<1>8. ASSUME NEW w \in Cleaners, DenyAll(w)
      PROVE  ConsentsInv'
  <2>1. \A d : Consent(d)' = Consent(d)
    BY <1>8, Unmoved DEF DenyAll
  <2> QED BY <1>8, <2>1 DEF DenyAll, ConsentsInv, TypeOK
<1>9. CASE \/ LockTool \/ TakeVault \/ RevokeAll \/ Unlock
           \/ \E w \in Cleaners : RevokeGrants(w) \/ Reopen(w)
  <2>1. UNCHANGED <<ask, born, cont, target, sheet, consents, phase>>
    BY <1>9 DEF LockTool, TakeVault, RevokeAll, Unlock, CleanupBegins, RevokeGrants, Reopen
  <2> QED BY <2>1, ConsentsKept DEF ConsentsInv
<1> QED
  BY <1>1, <1>2, <1>3, <1>4, <1>5, <1>6, <1>7, <1>8, <1>9 DEF Next, Request, Work, Cleaning

(***************************************************************************)
(* Sign-ins in two pages.                                                  *)
(***************************************************************************)

LEMMA FirstStep ==
  ASSUME NEW c, StepOf(c) = "one"
  PROVE  cont[c] = NoCall /\ ApprovalOf(c) = c
BY DEF StepOf, ApprovalOf

LEMMA StepsKept ==
  ASSUME TypeOK, StepsInv, UNCHANGED <<ask, born, cont, target>>, consents \subseteq consents',
         \A d \in Calls : /\ phase[d] \in {"end", "done"} => phase'[d] \in {"end", "done"}
                          /\ phase'[d] = "idle" => phase[d] = "idle"
                          /\ phase'[d] = "keep" => StepOf(d) = "one",
         \A p \in pending' : \E q \in pending : q.call = p.call,
         \A p, q \in pending' : p.call = q.call => p = q
  PROVE  StepsInv'
<1>1. \A d : StepOf(d)' = StepOf(d) /\ (Backed(d) => Backed(d)')
  BY Unmoved
<1>2. \A p \in pending : p.call \in Calls
  BY DEF TypeOK
<1>3. \A p \in pending' :
        /\ phase'[p.call] \in {"end", "done"} /\ StepOf(p.call)' = "one" /\ Backed(p.call)'
        /\ \A q \in pending' : q.call = p.call => q = p
  BY <1>1, <1>2 DEF StepsInv
<1>4. ASSUME NEW c \in Calls, NEW d \in Calls, Continuation(c, d)
      PROVE  Continuation(c, d)'
  BY <1>1, <1>4 DEF Continuation
<1>5. \A c \in Calls : /\ phase'[c] = "idle" => cont'[c] = NoCall
                       /\ phase'[c] = "keep" => StepOf(c)' = "one"
  BY <1>1 DEF StepsInv
<1>6. \A c \in Calls : cont[c] # NoCall => cont[c] \in Calls /\ Continuation(c, cont[c])
  BY DEF StepsInv, TypeOK
<1>7. \A c \in Calls : cont'[c] # NoCall => Continuation(c, cont[c])'
  BY <1>4, <1>6
<1> QED BY <1>3, <1>5, <1>7 DEF StepsInv

\* No call's steps are about a call that is still to be placed.
LEMMA StepsElsewhere ==
  ASSUME TypeOK, FlowInv, StepsInv, NEW c \in Calls, phase[c] \in {"idle", "probe"},
         consents \subseteq consents',
         \A x \in Calls \ {c} : /\ ask'[x] = ask[x] /\ born'[x] = born[x]
                                /\ cont'[x] = cont[x] /\ target'[x] = target[x]
  PROVE  \A d \in Calls \ {c} :
           /\ StepOf(d)' = StepOf(d) /\ Writes(d)' = Writes(d) /\ UseOf(d)' = UseOf(d)
           /\ ApprovalOf(d)' = ApprovalOf(d) /\ Consent(d)' = Consent(d)
           /\ Backed(d) => Backed(d)'
<1> SUFFICES ASSUME NEW d \in Calls \ {c}
             PROVE  /\ StepOf(d)' = StepOf(d) /\ Writes(d)' = Writes(d) /\ UseOf(d)' = UseOf(d)
                    /\ ApprovalOf(d)' = ApprovalOf(d) /\ Consent(d)' = Consent(d)
                    /\ Backed(d) => Backed(d)'
  OBVIOUS
<1>1. ApprovalOf(d) # c
  BY DEF ApprovalOf, StepsInv, Continuation
<1> QED BY <1>1, UnmovedElsewhere

LEMMA StepsStep ==
  ASSUME TypeOK, FlowInv, StepsInv, UnlockInv, RedeemedInv, ConsentsInv, Next
  PROVE  StepsInv'
<1> USE DEF vaultVars, brokerVars, callVars, sessionVars, logVars, Goto
<1>0. \A p, q \in pending : p.call = q.call => p = q
  BY DEF StepsInv
<1>1. ASSUME NEW c \in Calls,
             \/ AdmitRefused(c) \/ Gates(c) \/ GatesRefused(c) \/ Locate(c) \/ LocateRefused(c)
             \/ ChooseRefused(c) \/ RaiseRefused(c) \/ Issue(c) \/ IssueRefused(c)
             \/ GiveUp(c) \/ ConcludeUnfilled(c) \/ ConcludeFilled(c) \/ ConcludeReleased(c)
             \/ Finish(c) \/ Pass(c) \/ Raise(c) \/ Approved(c) \/ NotApproved(c)
      PROVE  StepsInv'
  <2>1. UNCHANGED <<ask, born, cont, target, pending>> /\ consents \subseteq consents'
    BY <1>1 DEF AdmitRefused, Gates, GatesRefused, Locate, LocateRefused, ChooseRefused,
         RaiseRefused, Issue, IssueRefused, GiveUp, ConcludeUnfilled, ConcludeFilled,
         ConcludeReleased, Finish, Pass, Raise, Approved, NotApproved
  <2>2. \A d \in Calls \ {c} : phase'[d] = phase[d]
    BY ZenonT(60), <1>1 DEF AdmitRefused, Gates, GatesRefused, Locate, LocateRefused, ChooseRefused,
         RaiseRefused, Issue, IssueRefused, GiveUp, ConcludeUnfilled, ConcludeFilled,
         ConcludeReleased, Finish, Pass, Raise, Approved, NotApproved, End, Refuse, TypeOK
  <2>3. /\ phase[c] # "done" /\ phase'[c] # "idle"
        /\ phase[c] = "end" => phase'[c] = "done"
        /\ phase'[c] = "keep" => StepOf(c) = "one"
    BY ZenonT(60), <1>1 DEF AdmitRefused, Gates, GatesRefused, Locate, LocateRefused, ChooseRefused,
         RaiseRefused, Issue, IssueRefused, GiveUp, ConcludeUnfilled, ConcludeFilled,
         ConcludeReleased, Finish, Pass, Raise, Approved, NotApproved, End, Refuse, TypeOK
  <2> QED BY <1>0, <2>1, <2>2, <2>3, StepsKept DEF StepsInv
<1>2. ASSUME NEW c \in Calls, NEW a \in Agents, NEW fields \in Asks, Admit(c, a, fields)
      PROVE  StepsInv'
  <2>1. /\ phase[c] = "idle" /\ cont[c] = NoCall /\ consents' = consents
        /\ \A d \in Calls \ {c} : /\ phase'[d] = phase[d] /\ ask'[d] = ask[d] /\ born'[d] = born[d]
                                  /\ cont'[d] = cont[d] /\ target'[d] = target[d]
        /\ phase'[c] = "gates" /\ born'[c] = unlock
        /\ ask'[c] = [agent |-> a, fields |-> fields]
    BY <1>2 DEF Admit, TypeOK, StepsInv
  <2>2. \A d \in Calls \ {c} : StepOf(d)' = StepOf(d) /\ (Backed(d) => Backed(d)')
    BY <2>1, StepsElsewhere
  <2>3. \A p \in pending : p.call \in Calls \ {c}
    BY <2>1 DEF StepsInv, TypeOK
  <2>4. \A b \in Calls : cont[b] # NoCall => b # c /\ cont[b] \in Calls \ {c}
    BY <2>1 DEF StepsInv, Continuation, TypeOK
  <2>5. CASE UNCHANGED <<cont, pending>>
    BY <2>1, <2>2, <2>3, <2>4, <2>5 DEF StepsInv, Continuation
  <2>6. ASSUME NEW p \in pending, Continues(p, a, fields),
               cont' = [cont EXCEPT ![c] = p.call], pending' = pending \ {p}
        PROVE  StepsInv'
    <3>1. /\ fields = {"password"} /\ ask[p.call].agent = a /\ born[p.call] = unlock
          /\ cont'[c] = p.call
      BY <2>6 DEF Continues, UnlockInv, Lives, TypeOK
    <3>2. \A q \in pending' :
            /\ phase'[q.call] \in {"end", "done"} /\ StepOf(q.call)' = "one" /\ Backed(q.call)'
            /\ \A r \in pending' : r.call = q.call => r = q
      BY <2>1, <2>2, <2>3, <2>6 DEF StepsInv
    <3>3. ASSUME NEW b \in Calls, cont'[b] # NoCall
          PROVE  Continuation(b, cont[b])'
      <4>1. CASE b = c
        BY <2>1, <2>2, <2>3, <2>6, <3>1, <4>1, FillAssumption
        DEF StepsInv, Continuation, Calls, NoCall
      <4>2. CASE b # c
        <5>1. cont'[b] = cont[b] /\ cont[b] \in Calls \ {c} /\ Continuation(b, cont[b])
          BY <2>1, <2>4, <3>3, <4>2 DEF StepsInv
        <5>2. \A e \in Calls : cont'[e] = cont[b] => e = b
          BY <2>1, <2>6, <3>1, <5>1 DEF Continuation
        <5> QED BY <2>1, <2>2, <2>6, <4>2, <5>1, <5>2 DEF Continuation
      <4> QED BY <4>1, <4>2
    <3>4. \A b \in Calls : /\ phase'[b] = "idle" => cont'[b] = NoCall
                           /\ phase'[b] = "keep" => StepOf(b)' = "one"
      BY <2>1, <2>2 DEF StepsInv
    <3> QED BY <3>2, <3>3, <3>4 DEF StepsInv
  <2> QED BY <1>2, <2>5, <2>6 DEF Admit
<1>3. ASSUME NEW c \in Calls, (\E r \in flow.reports : Choose(c, r)) \/ StepGone(c)
      PROVE  StepsInv'
  <2>1. /\ phase[c] = "probe" /\ UNCHANGED <<consents, pending, ask, born>>
        /\ \A d \in Calls \ {c} : /\ phase'[d] = phase[d] /\ ask'[d] = ask[d] /\ born'[d] = born[d]
                                  /\ cont'[d] = cont[d] /\ target'[d] = target[d]
        /\ phase'[c] \in {"sheet", "issue", "locate"} /\ cont'[c] \in {cont[c], NoCall}
    BY <1>3 DEF Choose, StepGone, TypeOK
  <2>2. \A d \in Calls \ {c} : StepOf(d)' = StepOf(d) /\ (Backed(d) => Backed(d)')
    BY <2>1, StepsElsewhere
  <2>3. \A p \in pending : p.call \in Calls \ {c}
    BY <2>1 DEF StepsInv, TypeOK
  <2>4. \A b \in Calls : cont[b] # NoCall => cont[b] \in Calls \ {c}
    BY <2>1 DEF StepsInv, Continuation, TypeOK
  <2> QED BY <2>1, <2>2, <2>3, <2>4 DEF StepsInv, Continuation
<1>4. ASSUME NEW c \in Calls, Keep(c)
      PROVE  StepsInv'
  <2>1. /\ UNCHANGED <<ask, born, cont, target, consents>> /\ phase[c] = "keep"
        /\ \A d \in Calls \ {c} : phase'[d] = phase[d]
        /\ phase'[c] = "end"
    BY <1>4 DEF Keep, TypeOK
  <2>2. CASE pending' = pending
    BY <1>0, <2>1, <2>2, StepsKept DEF StepsInv
  <2>3. CASE pending' = pending \cup {[call |-> c, gone |-> FALSE]}
    <3>1. \A d : StepOf(d)' = StepOf(d) /\ (Backed(d) => Backed(d)')
      BY <2>1, Unmoved
    <3>2. StepOf(c) = "one" /\ Backed(c)
      BY <2>1 DEF StepsInv, RedeemedInv
    <3>3. \A p \in pending : p.call # c
      BY <2>1 DEF StepsInv
    <3>4. \A b \in Calls : cont[b] # c
      BY <2>1, FillAssumption DEF StepsInv, Continuation, Calls, NoCall
    <3>5. \A b \in Calls : cont'[b] # NoCall => Continuation(b, cont[b])'
      BY <2>1, <2>3, <3>1, <3>4 DEF StepsInv, Continuation, TypeOK
    <3>6. \A p \in pending' :
            /\ phase'[p.call] \in {"end", "done"} /\ StepOf(p.call)' = "one" /\ Backed(p.call)'
            /\ \A q \in pending' : q.call = p.call => q = p
      <4>1. \A p \in pending' : p \in pending \/ (p.call = c /\ p = [call |-> c, gone |-> FALSE])
        BY <2>3
      <4>2. \A p \in pending : p.call \in Calls \ {c}
        BY <3>3 DEF TypeOK
      <4> QED BY <2>1, <3>1, <3>2, <4>1, <4>2 DEF StepsInv
    <3> QED BY <2>1, <3>1, <3>5, <3>6 DEF StepsInv
  <2> QED BY <1>4, <2>2, <2>3 DEF Keep
<1>5. ASSUME NEW c \in Calls,
             EndPending(c) \/ \E decision \in {"allow", "deny"} : Decide(c, decision)
      PROVE  StepsInv'
  <2>1. /\ UNCHANGED <<ask, born, cont, target, phase>> /\ consents \subseteq consents'
        /\ pending' \subseteq pending
    BY <1>5 DEF EndPending, Decide
  <2> QED BY <1>0, <2>1, StepsKept DEF StepsInv
<1>6. ASSUME NEW s \in Sessions, ExtensionStep(s)
      PROVE  StepsInv'
  <2>1. UNCHANGED <<ask, born, cont, target, phase, consents>>
    BY <1>6, SessionFrame
  <2>2. CASE pending' = pending
    BY <1>0, <2>1, <2>2, StepsKept DEF StepsInv
  <2>3. CASE Close(s)
    <3> DEFINE Closed(p) == IF target[p.call].session = s THEN [p EXCEPT !.gone = TRUE] ELSE p
    <3>1. pending' = {Closed(p) : p \in pending}
      BY <2>3 DEF Close
    <3>2. \A p \in pending : Closed(p).call = p.call
      BY DEF TypeOK
    <3>3. \A p \in pending' : \E q \in pending : q.call = p.call /\ p = Closed(q)
      BY <3>1, <3>2
    <3> HIDE DEF Closed
    <3>4. \A p, q \in pending' : p.call = q.call => p = q
      BY <1>0, <3>3
    <3> QED BY <2>1, <3>3, <3>4, StepsKept DEF StepsInv
  <2>4. pending' = pending \/ Close(s)
    BY <1>6 DEF ExtensionStep, Connect, Release, RedeemRefused, Settle, Reply, ReplyFails,
         Report, Abandon, Redeem, Outcome
  <2> QED BY <2>2, <2>3, <2>4
<1>7. CASE LockTool \/ TakeVault \/ RevokeAll \/ Unlock \/ \E w \in Cleaners : Cleaning(w)
  BY <1>0, <1>7, CleaningFrame, StepsKept DEF StepsInv
<1> QED
  BY <1>1, <1>2, <1>3, <1>4, <1>5, <1>6, <1>7 DEF Next, Request, Work

(***************************************************************************)
(* Unlocks.                                                                *)
(***************************************************************************)

\* The broker's part of a step that no lock is in.
LEMMA UnlockKept ==
  ASSUME TypeOK, FlowInv, UnlockInv, UNCHANGED <<vault, unlock, cleaning, epoch, born, began>>,
         flow'.stored => flow.stored /\ flow'.call = flow.call,
         \A p \in pending' : \E q \in pending : q.call = p.call,
         \A d \in Calls : phase'[d] \in {"wait", "keep"} => phase[d] \in {"wait", "keep"}
  PROVE  UnlockInv'
BY DEF UnlockInv, Lives

LEMMA UnlockStep ==
  ASSUME TypeOK, FlowInv, StepsInv, UnlockInv, Next
  PROVE  UnlockInv'
<1> USE DEF vaultVars, brokerVars, callVars, sessionVars, logVars, Goto
<1>1. flow \in Flow
  BY DEF TypeOK
<1>2. ASSUME NEW c \in Calls,
             \/ AdmitRefused(c) \/ Gates(c) \/ Pass(c) \/ Raise(c) \/ Approved(c)
             \/ ConcludeFilled(c) \/ ConcludeReleased(c)
      PROVE  UnlockInv'
  <2>1. UNCHANGED <<vault, unlock, cleaning, epoch, born, began, flow, pending>>
    BY <1>2 DEF AdmitRefused, Gates, Pass, Raise, Approved, ConcludeFilled, ConcludeReleased
  <2>2. \A d \in Calls : phase'[d] \in {"wait", "keep"} => phase[d] \in {"wait", "keep"}
    BY <1>2 DEF AdmitRefused, Gates, Pass, Raise, Approved, ConcludeFilled, ConcludeReleased,
         TypeOK
  <2> QED BY <2>1, <2>2, UnlockKept
<1>3. ASSUME NEW c \in Calls, NEW a \in Agents, NEW fields \in Asks, Admit(c, a, fields)
      PROVE  UnlockInv'
  <2>1. /\ phase[c] = "idle" /\ UNCHANGED <<vault, unlock, cleaning, epoch>>
        /\ \A d \in Calls \ {c} : /\ phase'[d] = phase[d] /\ born'[d] = born[d]
                                  /\ began'[d] = began[d]
        /\ phase'[c] = "gates" /\ began'[c] = epoch
        /\ ~flow'.stored /\ pending' \subseteq pending
    BY <1>3 DEF Admit, TypeOK, NoFlow
  <2>2. \A p \in pending : p.call \in Calls \ {c}
    BY <2>1 DEF StepsInv, TypeOK
  <2>3. \A p \in pending' : Lives(born'[p.call])
    BY <2>1, <2>2 DEF UnlockInv
  <2>4. \A d \in Calls :
          /\ began'[d] <= epoch
          /\ phase'[d] \in {"wait", "keep"} /\ began'[d] = epoch => Lives(born'[d])
    BY <2>1 DEF UnlockInv, TypeOK
  <2> QED BY <2>1, <2>3, <2>4 DEF UnlockInv, Lives
<1>4. ASSUME NEW c \in Calls, GatesRefused(c)
      PROVE  UnlockInv'
  BY <1>4, UnlockKept DEF GatesRefused, End, TypeOK, NoFlow
<1>5. ASSUME NEW c \in Calls,
             \/ LocateRefused(c) \/ ChooseRefused(c) \/ RaiseRefused(c) \/ NotApproved(c)
             \/ IssueRefused(c) \/ ConcludeUnfilled(c) \/ Finish(c)
      PROVE  UnlockInv'
  <2>1. /\ UNCHANGED <<vault, unlock, cleaning, epoch, born, began, pending>>
        /\ flow' = NoFlow /\ phase' = [phase EXCEPT ![c] = "done"]
    BY <1>5 DEF LocateRefused, ChooseRefused, RaiseRefused, NotApproved, IssueRefused,
         ConcludeUnfilled, Finish, Refuse, End
  <2>2. ~flow'.stored
    BY <2>1 DEF NoFlow
  <2>3. \A d \in Calls : phase'[d] \in {"wait", "keep"} => phase[d] \in {"wait", "keep"}
    BY <2>1 DEF TypeOK
  <2> QED BY <2>1, <2>2, <2>3, UnlockKept
<1>6. ASSUME NEW c \in Calls,
             Locate(c) \/ (\E r \in flow.reports : Choose(c, r)) \/ StepGone(c) \/ GiveUp(c)
      PROVE  UnlockInv'
  <2>1. UNCHANGED <<vault, unlock, cleaning, epoch, born, began, pending>>
    BY <1>6 DEF Locate, Choose, StepGone, GiveUp
  <2>2. flow'.call = flow.call /\ (flow'.stored => flow.stored)
    BY <1>1, <1>6 DEF Locate, Choose, StepGone, GiveUp, Flow
  <2>3. \A d \in Calls : phase'[d] \in {"wait", "keep"} => phase[d] \in {"wait", "keep"}
    BY <1>6 DEF Locate, Choose, StepGone, GiveUp, TypeOK
  <2> QED BY <2>1, <2>2, <2>3, UnlockKept
<1>7. ASSUME NEW c \in Calls, Issue(c)
      PROVE  UnlockInv'
  <2>1. /\ UNCHANGED <<vault, unlock, cleaning, epoch, born, began, pending>>
        /\ vault = "here" /\ unlock = born[c] /\ flow'.call = c
        /\ \A d \in Calls \ {c} : phase'[d] = phase[d]
    BY SMTT(40), <1>1, <1>7 DEF Issue, NotLockedSince, Unlocked, FlowInv, Flow, TypeOK
  <2> QED BY <2>1 DEF UnlockInv, Lives
<1>8. ASSUME NEW c \in Calls, Keep(c)
      PROVE  UnlockInv'
  <2>1. /\ UNCHANGED <<vault, unlock, cleaning, epoch, born, began, flow>> /\ phase[c] = "keep"
        /\ \A d \in Calls : phase'[d] \in {"wait", "keep"} => phase[d] \in {"wait", "keep"}
    BY <1>8 DEF Keep, TypeOK
  <2>2. \A p \in pending' : p \in pending \/ (p.call = c /\ began[c] = epoch)
    BY <1>8 DEF Keep
  <2>3. \A p \in pending' : Lives(born[p.call])
    BY <2>1, <2>2 DEF UnlockInv
  <2> QED BY <2>1, <2>3 DEF UnlockInv, Lives
<1>9. ASSUME NEW c \in Calls,
             EndPending(c) \/ \E decision \in {"allow", "deny"} : Decide(c, decision)
      PROVE  UnlockInv'
  BY <1>9, UnlockKept DEF EndPending, Decide
<1>10. ASSUME NEW s \in Sessions, ExtensionStep(s)
       PROVE  UnlockInv'
  <2>1. CASE Close(s)
    <3>1. \A p \in pending' : \E q \in pending : q.call = p.call
      BY <2>1 DEF Close, TypeOK
    <3> QED BY <1>10, <3>1, SessionFrame, UnlockKept
  <2>2. pending' = pending \/ Close(s)
    BY <1>10 DEF ExtensionStep, Connect, Release, RedeemRefused, Settle, Reply, ReplyFails,
         Report, Abandon, Redeem, Outcome
  <2> QED BY <1>10, <2>1, <2>2, SessionFrame, UnlockKept
<1>11. {"tool", "host", "app"} = Cleaners
  BY DEF Cleaners
<1>12. CASE LockTool \/ TakeVault \/ RevokeAll
  BY <1>11, <1>12 DEF LockTool, TakeVault, RevokeAll, CleanupBegins, UnlockInv, Lives, TypeOK
<1>13. CASE Unlock
  BY <1>13 DEF Unlock, UnlockInv, Lives, TypeOK
<1>14. ASSUME NEW w \in Cleaners, DenyAll(w) \/ Reopen(w)
       PROVE  UnlockInv'
  BY <1>11, <1>14 DEF DenyAll, Reopen, UnlockInv, Lives, TypeOK
<1>15. ASSUME NEW w \in Cleaners, RevokeGrants(w)
       PROVE  UnlockInv'
  <2>1. ~flow'.stored /\ pending' = {} /\ epoch' = epoch + 1 /\ UNCHANGED began
    BY <1>1, <1>15 DEF RevokeGrants, Flow
  <2>2. cleaning'["host"] # "reopen"
    BY <1>11, <1>15 DEF RevokeGrants, UnlockInv, TypeOK
  <2> QED BY <2>1, <2>2 DEF UnlockInv, TypeOK
<1> QED
  BY <1>2, <1>3, <1>4, <1>5, <1>6, <1>7, <1>8, <1>9, <1>10, <1>12, <1>13, <1>14, <1>15
  DEF Next, Request, Work, Cleaning

(***************************************************************************)
(* Redemptions.                                                            *)
(***************************************************************************)

LEMMA RedeemedKept ==
  ASSUME TypeOK, RedeemedInv, UNCHANGED <<ask, born, cont, target, listener, entered>>,
         consents \subseteq consents',
         flow'.stored => flow.stored /\ flow'.call = flow.call,
         \A d \in Calls : /\ phase[d] \in Granted => phase'[d] \in Granted
                          /\ phase'[d] \in {"issue", "wait", "keep"} =>
                               phase[d] \in {"issue", "wait", "keep"} \/ Backed(d)',
         \A s \in Sessions :
           thread'[s].at \in {"release", "settle"} => sess'[s] = "on" /\ thread'[s] = thread[s]
  PROVE  RedeemedInv'
<1>1. \A d : /\ Writes(d)' = Writes(d) /\ UseOf(d)' = UseOf(d) /\ ApprovalOf(d)' = ApprovalOf(d)
             /\ Backed(d) => Backed(d)'
  BY Unmoved
<1>2. \A c : Taken(c) => Taken(c)'
  BY DEF Taken
<1>3. \A s, c : Releasing(s, c) => Releasing(s, c)'
  BY <1>1 DEF Releasing
<1>4. \A e, c : EnteredFor(e, c) => EnteredFor(e, c)'
  BY <1>1 DEF EnteredFor
<1>5. \A c \in Calls : phase'[c] \in {"issue", "wait", "keep"} => Backed(c)'
  BY <1>1 DEF RedeemedInv
<1>6. \A s \in Sessions :
        /\ thread'[s].at \in {"release", "settle"} => sess'[s] = "on" /\ Taken(thread[s].call)'
        /\ thread'[s].at = "release" => Releasing(s, thread[s].call)'
  BY <1>2, <1>3 DEF RedeemedInv
<1>7. \A e \in entered' : Taken(e.call)' /\ EnteredFor(e, e.call)'
  BY <1>2, <1>4 DEF RedeemedInv
<1> QED BY <1>5, <1>6, <1>7 DEF RedeemedInv

\* A request's steps, once it is placed.
LEMMA RequestRedeemed ==
  ASSUME TypeOK, FlowInv, ConsentsInv, StepsInv, RedeemedInv, NEW c \in Calls,
         Work(c) \/ AdmitRefused(c) \/ EndPending(c) \/
           (\E decision \in {"allow", "deny"} : Decide(c, decision)),
         ~(\E r \in flow.reports : Choose(c, r)), ~StepGone(c), ~Issue(c)
  PROVE  RedeemedInv'
<1> USE DEF vaultVars, brokerVars, callVars, sessionVars, logVars, Goto
<1>0. flow \in Flow
  BY DEF TypeOK
<1>1. CASE \/ AdmitRefused(c) \/ Gates(c) \/ GatesRefused(c) \/ Locate(c) \/ LocateRefused(c)
           \/ ChooseRefused(c) \/ Raise(c) \/ RaiseRefused(c) \/ NotApproved(c) \/ IssueRefused(c)
           \/ GiveUp(c) \/ ConcludeUnfilled(c) \/ ConcludeFilled(c) \/ ConcludeReleased(c)
           \/ Keep(c) \/ Finish(c) \/ EndPending(c)
           \/ (\E decision \in {"allow", "deny"} : Decide(c, decision))
  <2>1. /\ UNCHANGED <<ask, born, cont, target, listener, thread, sess, entered>>
        /\ consents \subseteq consents'
    BY <1>1 DEF AdmitRefused, Gates, GatesRefused, Locate, LocateRefused, ChooseRefused,
         Raise, RaiseRefused, NotApproved, IssueRefused, GiveUp, ConcludeUnfilled,
         ConcludeFilled, ConcludeReleased, Keep, Finish, EndPending, Decide
  <2>2. \A d \in Calls \ {c} : phase'[d] = phase[d]
    BY <1>1 DEF AdmitRefused, Gates, GatesRefused, Locate, LocateRefused, ChooseRefused,
         Raise, RaiseRefused, NotApproved, IssueRefused, GiveUp, ConcludeUnfilled,
         ConcludeFilled, ConcludeReleased, Keep, Finish, EndPending, Decide, End, Refuse, TypeOK
  <2>3. \/ phase'[c] = phase[c]
        \/ phase'[c] = "done"
        \/ phase[c] \in {"wait", "keep"} /\ phase'[c] \in {"keep", "end"}
        \/ phase[c] \in {"gates", "locate", "sheet"} /\ phase'[c] \in {"locate", "probe", "asking"}
    BY <1>1 DEF AdmitRefused, Gates, GatesRefused, Locate, LocateRefused, ChooseRefused,
         Raise, RaiseRefused, NotApproved, IssueRefused, GiveUp, ConcludeUnfilled,
         ConcludeFilled, ConcludeReleased, Keep, Finish, EndPending, Decide, End, Refuse, TypeOK
  <2>4. flow'.stored => flow.stored /\ flow'.call = flow.call
    <3>1. CASE Locate(c) \/ GiveUp(c)
      BY <1>0, <3>1 DEF Locate, GiveUp, Flow
    <3>2. \/ Locate(c) \/ GiveUp(c) \/ flow' = flow \/ flow' = NoFlow
      BY <1>1 DEF AdmitRefused, Gates, GatesRefused, LocateRefused, ChooseRefused,
         Raise, RaiseRefused, NotApproved, IssueRefused, ConcludeUnfilled,
         ConcludeFilled, ConcludeReleased, Keep, Finish, EndPending, Decide, End, Refuse
    <3> QED BY <3>1, <3>2 DEF NoFlow
  <2>5. \A s \in Sessions :
          thread'[s].at \in {"release", "settle"} => sess'[s] = "on" /\ thread'[s] = thread[s]
    BY <2>1 DEF RedeemedInv
  <2>6. \A d \in Calls : /\ phase[d] \in Granted => phase'[d] \in Granted
                         /\ phase'[d] \in {"issue", "wait", "keep"} =>
                              phase[d] \in {"issue", "wait", "keep"}
    BY <2>2, <2>3 DEF Granted
  <2> QED BY <2>1, <2>4, <2>5, <2>6, RedeemedKept
<1>2. CASE Pass(c) \/ Approved(c)
  <2>1. /\ UNCHANGED <<ask, born, cont, target, listener, thread, sess, entered, flow>>
        /\ consents \subseteq consents'
        /\ phase' = [phase EXCEPT ![c] = "issue"] /\ phase[c] \in {"sheet", "asking"}
    BY <1>2 DEF Pass, Approved
  <2>2. Consent(c) \in consents' /\ cont[c] = NoCall
    BY <1>2 DEF Pass, Approved, ConsentsInv
  <2>3. ApprovalOf(c) = c /\ ApprovalOf(c)' = c /\ Consent(c)' = Consent(c)
    BY <2>1, <2>2, Unmoved DEF ApprovalOf
  <2>4. Backed(c)'
    BY <2>2, <2>3 DEF Backed
  <2>5. \A s \in Sessions :
          thread'[s].at \in {"release", "settle"} => sess'[s] = "on" /\ thread'[s] = thread[s]
    BY <2>1 DEF RedeemedInv
  <2> QED BY <2>1, <2>4, <2>5, RedeemedKept DEF TypeOK, Granted
<1> QED BY <1>1, <1>2 DEF Work

\* A request that is admitted or placed.
LEMMA PlacedRedeemed ==
  ASSUME TypeOK, FlowInv, ConsentsInv, StepsInv, RedeemedInv, NEW c \in Calls,
         \/ \E a \in Agents, fields \in Asks : Admit(c, a, fields)
         \/ \E r \in flow.reports : Choose(c, r)
         \/ StepGone(c)
  PROVE  RedeemedInv'
<1> USE DEF vaultVars, brokerVars, callVars, sessionVars, logVars, Goto
<1>0. flow \in Flow
  BY DEF TypeOK
<1>1. /\ phase[c] \in {"idle", "probe"} /\ UNCHANGED <<sess, thread, listener, consents, entered>>
      /\ \A d \in Calls \ {c} : /\ phase'[d] = phase[d] /\ ask'[d] = ask[d] /\ born'[d] = born[d]
                                /\ cont'[d] = cont[d] /\ target'[d] = target[d]
      /\ phase'[c] \in {"gates", "locate", "sheet", "issue"}
      /\ flow'.stored => flow.stored /\ flow'.call = flow.call
  <2>1. ASSUME NEW a \in Agents, NEW fields \in Asks, Admit(c, a, fields) PROVE <1>1!:
    BY <2>1 DEF Admit, TypeOK, NoFlow
  <2>2. ASSUME NEW r \in flow.reports, Choose(c, r) PROVE <1>1!:
    BY <1>0, <2>2 DEF Choose, TypeOK, Flow
  <2>3. CASE StepGone(c)
    BY <1>0, <2>3 DEF StepGone, TypeOK, Flow
  <2> QED BY <2>1, <2>2, <2>3
<1>2. \A d \in Calls \ {c} :
        /\ Writes(d)' = Writes(d) /\ UseOf(d)' = UseOf(d) /\ ApprovalOf(d)' = ApprovalOf(d)
        /\ Backed(d) => Backed(d)'
  BY <1>1, StepsElsewhere
<1>3. \A d : Taken(d) => d \in Calls \ {c} /\ Taken(d)'
  BY <1>1 DEF Taken, Granted
<1>4. \A d \in Calls \ {c} : \A s : Releasing(s, d) => Releasing(s, d)'
  BY <1>1, <1>2 DEF Releasing
<1>5. \A d \in Calls \ {c} : \A e : EnteredFor(e, d) => EnteredFor(e, d)'
  BY <1>1, <1>2 DEF EnteredFor
<1>6. ASSUME phase'[c] = "issue" PROVE Backed(c)'
  <2>1. PICK r \in flow.reports : Choose(c, r)
    BY <1>6 DEF Admit, StepGone, TypeOK
  <2>2. PICK d \in Calls : d = cont[c] /\ d # NoCall
    BY <1>6, <2>1 DEF Choose, TypeOK
  <2>3. d \in Calls \ {c} /\ StepOf(d) = "one" /\ Backed(d)
    BY <1>1, <2>2 DEF StepsInv, Continuation
  <2>4. ApprovalOf(d) = d /\ Consent(d) \in consents
    BY <2>3, FirstStep DEF Backed
  <2>5. Consent(d)' = Consent(d)
    BY <1>1, <2>3, StepsElsewhere
  <2>6. cont' = cont /\ target'[c] = r /\ r \in Eligible(c)
    BY <2>1 DEF Choose, TypeOK
  <2>7. r.session = target[d].session /\ r.tab = target[d].tab
    BY <2>2, <2>6 DEF Eligible
  <2>8. ApprovalOf(c)' = d
    BY <2>2, <2>6 DEF ApprovalOf
  <2>9. Consent(ApprovalOf(c))' \in consents'
    BY <1>1, <2>4, <2>5, <2>6, <2>8
  <2> QED BY <1>1, <2>3, <2>6, <2>7, <2>8, <2>9 DEF Backed
<1>7. \A d \in Calls : phase'[d] \in {"issue", "wait", "keep"} => Backed(d)'
  BY <1>1, <1>2, <1>6 DEF RedeemedInv
<1>8. \A s \in Sessions :
        /\ thread'[s].at \in {"release", "settle"} => sess'[s] = "on" /\ Taken(thread[s].call)'
        /\ thread'[s].at = "release" => Releasing(s, thread[s].call)'
  BY <1>1, <1>3, <1>4 DEF RedeemedInv
<1>9. \A e \in entered' : Taken(e.call)' /\ EnteredFor(e, e.call)'
  BY <1>1, <1>3, <1>5 DEF RedeemedInv
<1> QED BY <1>1, <1>7, <1>8, <1>9 DEF RedeemedInv

\* The grant: nothing of this call was taken before.
LEMMA IssueRedeemed ==
  ASSUME TypeOK, FlowInv, RedeemedInv, NEW c \in Calls, Issue(c)
  PROVE  RedeemedInv'
<1> USE DEF vaultVars, brokerVars, callVars, sessionVars, logVars, Goto
<1>1. /\ UNCHANGED <<ask, born, cont, target, listener, thread, sess, entered, consents>>
      /\ phase' = [phase EXCEPT ![c] = "wait"] /\ phase[c] = "issue"
      /\ flow'.call = flow.call /\ flow.call = c
  BY SMTT(40) DEF Issue, FlowInv, TypeOK, Flow
<1>2. \A d : /\ Writes(d)' = Writes(d) /\ UseOf(d)' = UseOf(d) /\ ApprovalOf(d)' = ApprovalOf(d)
             /\ Backed(d) => Backed(d)'
  BY <1>1, Unmoved
<1>3. \A d : Taken(d) => Taken(d)'
  BY <1>1 DEF Taken, Granted, TypeOK
<1>4. \A s, d : Releasing(s, d) => Releasing(s, d)'
  BY <1>1, <1>2 DEF Releasing
<1>5. \A e, d : EnteredFor(e, d) => EnteredFor(e, d)'
  BY <1>1, <1>2 DEF EnteredFor
<1>6. \A d \in Calls : phase'[d] \in {"issue", "wait", "keep"} => Backed(d)'
  BY <1>1, <1>2 DEF RedeemedInv, TypeOK
<1>7. \A s \in Sessions :
        /\ thread'[s].at \in {"release", "settle"} => sess'[s] = "on" /\ Taken(thread[s].call)'
        /\ thread'[s].at = "release" => Releasing(s, thread[s].call)'
  BY <1>1, <1>3, <1>4 DEF RedeemedInv
<1>8. \A e \in entered' : Taken(e.call)' /\ EnteredFor(e, e.call)'
  BY <1>1, <1>3, <1>5 DEF RedeemedInv
<1> QED BY <1>1, <1>6, <1>7, <1>8 DEF RedeemedInv

\* A redemption that takes the grant finds what was approved, in its own unlock.
LEMMA RedeemRedeemed ==
  ASSUME TypeOK, FlowInv, UnlockInv, RedeemedInv, NEW s \in Sessions, NEW c \in Calls,
         Abandon(s, c) \/ \E tab \in Tabs, page \in Shown : Redeem(s, c, tab, page)
  PROVE  RedeemedInv'
<1> USE DEF vaultVars, brokerVars, callVars, sessionVars, logVars
<1>1. /\ UNCHANGED <<phase, ask, born, cont, target, listener, sess, entered, consents>>
      /\ flow.call = c /\ flow.stored /\ ~flow'.stored
      /\ sess[s] = "on" /\ listener[s] = unlock
  BY ZenonT(60) DEF Abandon, Redeem, Served, TypeOK, Flow
<1>2. \E next \in {"release", "settle"} :
        thread' = [thread EXCEPT ![s] = [at |-> next, call |-> c, released |-> FALSE]]
  BY DEF Abandon, Redeem, Serve
<1>3. /\ thread'[s].call = c /\ thread'[s].at \in {"release", "settle"}
      /\ \A r \in Sessions \ {s} : thread'[r] = thread[r]
  BY <1>2 DEF TypeOK
<1>4. phase[c] = "wait" /\ Backed(c) /\ born[c] = unlock
  BY <1>1 DEF FlowInv, RedeemedInv, UnlockInv, Lives
<1>5. ASSUME thread'[s].at = "release"
      PROVE  target[c] \in Place /\ target[c].session = s
  <2>1. PICK tab \in Tabs, page \in Shown : Redeem(s, c, tab, page) /\ Matches(c, s, tab, page)
    BY <1>5 DEF Abandon, Redeem, Serve, TypeOK
  <2> QED BY <2>1, FillAssumption DEF Matches, Place
<1>6. \A d : /\ Writes(d)' = Writes(d) /\ UseOf(d)' = UseOf(d) /\ ApprovalOf(d)' = ApprovalOf(d)
             /\ Backed(d) => Backed(d)'
  BY <1>1, Unmoved
<1>7. \A e \in entered : e.call # c
  BY <1>1 DEF RedeemedInv, Taken
<1>8. Taken(c)' /\ \A d : Taken(d) => Taken(d)'
  BY <1>1, <1>4 DEF Taken, Granted
<1>9. \A r, d : Releasing(r, d) => Releasing(r, d)'
  BY <1>1, <1>6 DEF Releasing
<1>10. thread'[s].at = "release" => Releasing(s, c)'
  BY <1>1, <1>4, <1>5, <1>6, <1>7 DEF Releasing
<1>11. \A e, d : EnteredFor(e, d) => EnteredFor(e, d)'
  BY <1>1, <1>6 DEF EnteredFor
<1>12. \A d \in Calls : phase'[d] \in {"issue", "wait", "keep"} => Backed(d)'
  BY <1>1, <1>6 DEF RedeemedInv
<1>13. ASSUME NEW r \in Sessions
       PROVE  /\ thread'[r].at \in {"release", "settle"} => sess'[r] = "on" /\ Taken(thread[r].call)'
              /\ thread'[r].at = "release" => Releasing(r, thread[r].call)'
  <2>1. CASE r = s
    BY <1>1, <1>3, <1>8, <1>10, <2>1
  <2>2. CASE r # s
    BY <1>1, <1>3, <1>8, <1>9, <2>2 DEF RedeemedInv
  <2> QED BY <2>1, <2>2
<1>14. \A e \in entered' : Taken(e.call)' /\ EnteredFor(e, e.call)'
  BY <1>1, <1>8, <1>11 DEF RedeemedInv
<1> QED BY <1>1, <1>12, <1>13, <1>14 DEF RedeemedInv

\* What a release enters, and that it is the first of its call.
LEMMA ReleaseEnters ==
  ASSUME TypeOK, RedeemedInv, NEW s \in Sessions, Release(s)
  PROVE  \E e : /\ entered' = entered \cup {e} /\ e.call = thread[s].call
                /\ e.call \in Calls /\ EnteredFor(e, e.call) /\ Backed(e.call)
                /\ e.unlock = listener[s] /\ Unlocked(listener[s])
                /\ \A f \in entered : f.call # e.call
<1> DEFINE c == thread[s].call
           e == [call |-> c, lease |-> ApprovalOf(c), use |-> UseOf(c),
                 fields |-> Writes(c), agent |-> ask[c].agent, session |-> s,
                 tab |-> target[c].tab, unlock |-> listener[s],
                 seq |-> Cardinality(entered) + 1]
<1>1. entered' = entered \cup {e} /\ thread[s].at = "release" /\ Unlocked(listener[s])
  BY DEF Release
<1>2. Releasing(s, c) /\ Taken(c)
  BY <1>1 DEF RedeemedInv
<1>3. EnteredFor(e, c) /\ Backed(c) /\ c \in Calls
  BY <1>2 DEF EnteredFor, Releasing, Taken
<1>4. \A f \in entered : f.call # c
  BY <1>2 DEF Releasing
<1>5. e.call = c /\ e.unlock = listener[s]
  OBVIOUS
<1> HIDE DEF e, c
<1> QED BY <1>1, <1>3, <1>4, <1>5 DEF c

LEMMA ReleaseRedeemed ==
  ASSUME TypeOK, RedeemedInv, NEW s \in Sessions, Release(s)
  PROVE  RedeemedInv'
<1> USE DEF vaultVars, brokerVars, callVars, sessionVars, logVars
<1>1. PICK e : /\ entered' = entered \cup {e} /\ e.call = thread[s].call
               /\ e.call \in Calls /\ EnteredFor(e, e.call) /\ Backed(e.call)
               /\ \A f \in entered : f.call # e.call
  BY ReleaseEnters
<1>2. /\ UNCHANGED <<phase, flow, ask, born, cont, target, listener, sess, consents>>
      /\ thread[s].at = "release"
  BY DEF Release
<1>3. thread'[s].at = "settle" /\ thread'[s].call = thread[s].call
      /\ \A r \in Sessions \ {s} : thread'[r] = thread[r]
  BY DEF Release, Serve, TypeOK
<1>4. \A d : /\ Writes(d)' = Writes(d) /\ UseOf(d)' = UseOf(d) /\ ApprovalOf(d)' = ApprovalOf(d)
             /\ Backed(d) => Backed(d)'
  BY <1>2, Unmoved
<1>5. \A d : Taken(d) => Taken(d)'
  BY <1>2 DEF Taken
<1>6. \A f, d : EnteredFor(f, d) => EnteredFor(f, d)'
  BY <1>2, <1>4 DEF EnteredFor
<1>7. \A d \in Calls : phase'[d] \in {"issue", "wait", "keep"} => Backed(d)'
  BY <1>2, <1>4 DEF RedeemedInv
<1>8. ASSUME NEW r \in Sessions
      PROVE  /\ thread'[r].at \in {"release", "settle"} => sess'[r] = "on" /\ Taken(thread[r].call)'
             /\ thread'[r].at = "release" => Releasing(r, thread[r].call)'
  <2>1. CASE r = s
    BY <1>2, <1>3, <1>5, <2>1 DEF RedeemedInv
  <2>2. CASE r # s /\ thread[r].at # "release"
    BY <1>2, <1>3, <1>5, <2>2 DEF RedeemedInv
  <2>3. CASE r # s /\ thread[r].at = "release"
    <3>1. Releasing(r, thread[r].call) /\ Releasing(s, thread[s].call)
      BY <1>2, <2>3 DEF RedeemedInv
    <3>2. thread[r].call # e.call /\ thread'[r] = thread[r]
      BY <1>1, <1>3, <2>3, <3>1 DEF Releasing
    <3>3. Releasing(r, thread[r].call)'
      BY <1>1, <1>2, <1>4, <3>1, <3>2 DEF Releasing
    <3>4. Taken(thread[r].call)' /\ sess'[r] = "on"
      BY <1>2, <1>5, <2>3, <3>2 DEF RedeemedInv
    <3> QED BY <3>3, <3>4
  <2> QED BY <2>1, <2>2, <2>3
<1>9. Taken(e.call)'
  BY <1>1, <1>2, <1>5 DEF RedeemedInv
<1>10. \A f \in entered' : Taken(f.call)' /\ EnteredFor(f, f.call)'
  BY <1>1, <1>5, <1>6, <1>9 DEF RedeemedInv
<1>11. \A f, g \in entered' : f.call = g.call => f = g
  BY <1>1 DEF RedeemedInv
<1> QED BY <1>7, <1>8, <1>10, <1>11 DEF RedeemedInv

LEMMA RedeemedStep ==
  ASSUME TypeOK, FlowInv, ConsentsInv, StepsInv, UnlockInv, RedeemedInv, Next
  PROVE  RedeemedInv'
<1> USE DEF vaultVars, brokerVars, callVars, sessionVars, logVars
<1>1. ASSUME NEW c \in Calls, Request(c) \/ Work(c) \/ EndPending(c) \/
                 \E decision \in {"allow", "deny"} : Decide(c, decision)
      PROVE  RedeemedInv'
  BY <1>1, RequestRedeemed, PlacedRedeemed, IssueRedeemed DEF Request, Work
<1>2. ASSUME NEW s \in Sessions, ExtensionStep(s)
      PROVE  RedeemedInv'
  <2>1. CASE Release(s)
    BY <2>1, ReleaseRedeemed
  <2>2. CASE \E c \in Calls : \/ Abandon(s, c)
                             \/ \E tab \in Tabs, page \in Shown : Redeem(s, c, tab, page)
    BY <2>2, RedeemRedeemed
  <2>3. CASE RedeemRefused(s)
    <3>1. /\ UNCHANGED <<phase, flow, ask, born, cont, target, listener, sess, entered, consents>>
          /\ thread[s].at = "release"
          /\ thread'[s].at = "settle" /\ thread'[s].call = thread[s].call
          /\ \A r \in Sessions \ {s} : thread'[r] = thread[r]
      BY <2>3 DEF RedeemRefused, Serve, TypeOK
    <3>2. \A d : /\ Writes(d)' = Writes(d) /\ UseOf(d)' = UseOf(d) /\ ApprovalOf(d)' = ApprovalOf(d)
                 /\ Backed(d) => Backed(d)'
      BY <3>1, Unmoved
    <3>3. /\ \A d : Taken(d) => Taken(d)'
          /\ \A r, d : Releasing(r, d) => Releasing(r, d)'
          /\ \A e, d : EnteredFor(e, d) => EnteredFor(e, d)'
      BY <3>1, <3>2 DEF Taken, Releasing, EnteredFor
    <3>4. \A d \in Calls : phase'[d] \in {"issue", "wait", "keep"} => Backed(d)'
      BY <3>1, <3>2 DEF RedeemedInv
    <3>5. \A r \in Sessions :
            /\ thread'[r].at \in {"release", "settle"} => sess'[r] = "on" /\ Taken(thread[r].call)'
            /\ thread'[r].at = "release" => Releasing(r, thread[r].call)'
      BY <3>1, <3>3 DEF RedeemedInv
    <3>6. \A e \in entered' : Taken(e.call)' /\ EnteredFor(e, e.call)'
      BY <3>1, <3>3 DEF RedeemedInv
    <3> QED BY <3>1, <3>4, <3>5, <3>6 DEF RedeemedInv
  <2>4. CASE Connect(s)
    <3>1. /\ UNCHANGED <<phase, flow, ask, born, cont, target, thread, entered, consents>>
          /\ sess[s] = "new"
          /\ \A r \in Sessions \ {s} : sess'[r] = sess[r] /\ listener'[r] = listener[r]
      BY <2>4 DEF Connect, TypeOK
    <3>2. \A d : /\ Writes(d)' = Writes(d) /\ UseOf(d)' = UseOf(d) /\ ApprovalOf(d)' = ApprovalOf(d)
                 /\ Backed(d) => Backed(d)'
      BY <3>1, Unmoved
    <3>3. /\ \A d : Taken(d) => Taken(d)'
          /\ \A r \in Sessions \ {s} : \A d : Releasing(r, d) => Releasing(r, d)'
          /\ \A e, d : EnteredFor(e, d) => EnteredFor(e, d)'
      BY <3>1, <3>2 DEF Taken, Releasing, EnteredFor
    <3>4. \A d \in Calls : phase'[d] \in {"issue", "wait", "keep"} => Backed(d)'
      BY <3>1, <3>2 DEF RedeemedInv
    <3>5. thread[s].at \notin {"release", "settle"}
      BY <3>1 DEF RedeemedInv
    <3>6. \A r \in Sessions :
            /\ thread'[r].at \in {"release", "settle"} => sess'[r] = "on" /\ Taken(thread[r].call)'
            /\ thread'[r].at = "release" => Releasing(r, thread[r].call)'
      BY <3>1, <3>3, <3>5 DEF RedeemedInv
    <3>7. \A e \in entered' : Taken(e.call)' /\ EnteredFor(e, e.call)'
      BY <3>1, <3>3 DEF RedeemedInv
    <3> QED BY <3>1, <3>4, <3>6, <3>7 DEF RedeemedInv
  <2>5. CASE \/ Close(s) \/ Settle(s) \/ Reply(s) \/ ReplyFails(s)
             \/ \E tab \in Tabs, page \in Shown : Report(s, tab, page)
             \/ \E c \in Calls, told \in {"written", "failed"} : Outcome(s, c, told)
    <3>1. UNCHANGED <<listener, entered>>
      BY <2>5 DEF Close, Settle, Reply, ReplyFails, Report, Outcome
    <3>2. \A r \in Sessions \ {s} : thread'[r] = thread[r] /\ sess'[r] = sess[r]
      BY ZenonT(60), <2>5 DEF Close, Settle, Reply, ReplyFails, Report, Outcome, Serve, TypeOK
    <3>3. \/ thread'[s] = thread[s] /\ sess'[s] = sess[s]
          \/ thread'[s].at \notin {"release", "settle"}
      <4>1. CASE Settle(s)
        <5>1. thread[s] \in Redeeming
          BY DEF TypeOK
        <5> QED BY <4>1, <5>1 DEF Settle, Resting, TypeOK, Redeeming
      <4>2. CASE Close(s) \/ Reply(s)
        BY <4>2 DEF Close, Reply, Resting, TypeOK
      <4>3. CASE ReplyFails(s)
        BY <4>3 DEF ReplyFails, Serve, TypeOK
      <4>4. CASE \/ \E tab \in Tabs, page \in Shown : Report(s, tab, page)
                 \/ \E c \in Calls, told \in {"written", "failed"} : Outcome(s, c, told)
        BY <4>4 DEF Report, Outcome
      <4> QED BY <2>5, <4>1, <4>2, <4>3, <4>4
    <3>4. \A r \in Sessions :
            thread'[r].at \in {"release", "settle"} => sess'[r] = "on" /\ thread'[r] = thread[r]
      BY <3>2, <3>3 DEF RedeemedInv
    <3> QED BY <1>2, <3>1, <3>4, SessionFrame, RedeemedKept
  <2> QED BY <1>2, <2>1, <2>2, <2>3, <2>4, <2>5 DEF ExtensionStep
<1>3. CASE LockTool \/ TakeVault \/ RevokeAll \/ Unlock \/ \E w \in Cleaners : Cleaning(w)
  <2>1. /\ UNCHANGED <<phase, ask, born, cont, target, sess, sessionVars, logVars>>
        /\ flow'.call = flow.call /\ (flow'.stored => flow.stored)
    BY <1>3, CleaningFrame
  <2>2. \A r \in Sessions :
          thread'[r].at \in {"release", "settle"} => sess'[r] = "on" /\ thread'[r] = thread[r]
    BY <2>1 DEF RedeemedInv
  <2> QED BY <2>1, <2>2, RedeemedKept
<1> QED BY <1>1, <1>2, <1>3 DEF Next

(***************************************************************************)
(* The invariant.                                                          *)
(***************************************************************************)

LEMMA FillInvInit == Init => FillInv
<1> SUFFICES ASSUME Init PROVE FillInv
  OBVIOUS
<1>1. TypeOK
  <2>1. /\ unlock \in 1..MaxUnlocks /\ cleanups \in 0..MaxCleanups
        /\ born \in [Calls -> 0..MaxUnlocks] /\ listener \in [Sessions -> 0..MaxUnlocks]
    BY FillAssumption DEF Init
  <2>2. ask \in [Calls -> [agent : Agents, fields : SUBSET Login]]
    BY NoAskType DEF Init
  <2>3. flow \in Flow /\ ~flow.stored
    BY NoFlowType DEF Init, NoFlow
  <2>4. thread \in [Sessions -> Redeeming]
    BY DEF Init, Redeeming, Resting
  <2>5. /\ phase \in [Calls -> Phases] /\ answer \in [Calls -> Answers]
        /\ notes \in [Calls -> SUBSET Notes] /\ target \in [Calls -> Place \cup {NoPlace}]
    BY DEF Init, Phases, Answers
  <2> QED BY <2>1, <2>2, <2>3, <2>4, <2>5 DEF Init, TypeOK
<1>2. FlowInv
  BY DEF Init, FlowInv, NoFlow
<1>3. ConsentsInv /\ StepsInv /\ RedeemedInv
  BY DEF Init, ConsentsInv, StepsInv, RedeemedInv, Resting
<1>4. UnlockInv
  BY DEF Init, UnlockInv, NoFlow, Cleaners
<1> QED BY <1>1, <1>2, <1>3, <1>4 DEF FillInv

LEMMA FillInvStep == FillInv /\ [Next]_vars => FillInv'
<1> SUFFICES ASSUME FillInv, [Next]_vars PROVE FillInv'
  OBVIOUS
<1>1. CASE Next
  BY <1>1, FillTypes, FlowStep, ConsentsStep, StepsStep, UnlockStep, RedeemedStep DEF FillInv
<1>2. CASE UNCHANGED vars
  <2> USE <1>2 DEF vars, vaultVars, brokerVars, callVars, sessionVars, logVars
  <2>1. TypeOK'
    BY FillTypes
  <2>2. FlowInv'
    BY FlowKept DEF FillInv
  <2>3. ConsentsInv'
    BY ConsentsKept DEF FillInv, ConsentsInv
  <2>4. StepsInv'
    BY StepsKept DEF FillInv, StepsInv
  <2>5. UnlockInv'
    BY UnlockKept DEF FillInv
  <2>6. RedeemedInv'
    BY RedeemedKept DEF FillInv, RedeemedInv
  <2> QED BY <2>1, <2>2, <2>3, <2>4, <2>5, <2>6 DEF FillInv
<1> QED BY <1>1, <1>2

\* What keeps agent fills apart and approved, for all instances.
THEOREM FillInvariant == Spec => []FillInv
<1> QED BY FillInvInit, FillInvStep, PTL DEF Spec

\* The variables of the broker, the requests and the extension keep their types.
THEOREM FillTypeCorrect == Spec => []TypeOK
<1>1. FillInv => TypeOK
  BY DEF FillInv
<1> QED BY <1>1, FillInvariant, PTL

(***************************************************************************)
(* What is released was approved.                                          *)
(***************************************************************************)

LEMMA ApprovalIsOfTheCall ==
  ASSUME FillInv, NEW c \in Calls, Backed(c)
  PROVE  \E a \in consents :
           /\ a.call = ApprovalOf(c) /\ a = Consent(ApprovalOf(c))
           /\ a.agent = ask[c].agent /\ a.unlock = born[c]
           /\ a.session = target[c].session /\ a.tab = target[c].tab
           /\ Writes(c) \subseteq a.fields
<1> DEFINE d == ApprovalOf(c)
<1>1. Consent(d) \in consents /\ Consent(d).call = d /\ Consent(d).fields = ask[d].fields
  BY DEF Backed, Consent
<1>2. Consent(d).session = target[c].session /\ Consent(d).tab = target[c].tab
  BY DEF Backed, Consent
<1>3. CASE cont[c] # NoCall
  <2>1. /\ Continuation(c, d) /\ d = cont[c] /\ StepOf(c) = "two"
    BY <1>3 DEF FillInv, StepsInv, ApprovalOf, StepOf
  <2>2. ask[c].agent = ask[d].agent /\ born[c] = born[d] /\ ask[d].fields = Login
    BY <2>1 DEF Continuation, StepOf, TwoStep
  <2>3. Writes(c) \subseteq Login
    BY <2>1 DEF Writes, Login
  <2> QED BY <1>1, <1>2, <2>2, <2>3 DEF Consent
<1>4. CASE cont[c] = NoCall
  <2>1. d = c
    BY <1>4 DEF ApprovalOf
  <2>2. Writes(c) \subseteq ask[c].fields
    BY <1>4 DEF Writes, StepOf, TwoStep, Login
  <2> QED BY <1>1, <1>2, <2>1, <2>2 DEF Consent
<1> QED BY <1>3, <1>4

\* Two calls on one approval are the two steps of a sign-in.
LEMMA OneApprovalTwoSteps ==
  ASSUME FillInv, NEW c \in Calls, NEW b \in Calls, c # b, ApprovalOf(c) = ApprovalOf(b)
  PROVE  Writes(c) \cap Writes(b) = {} /\ UseOf(c) # UseOf(b)
<1>1. ASSUME NEW x \in Calls, NEW y \in Calls, cont[x] # NoCall, cont[x] = y
      PROVE  /\ Writes(x) = {"password"} /\ UseOf(x) = 2
             /\ Writes(y) = {"username"} /\ UseOf(y) = 1
  BY <1>1 DEF FillInv, StepsInv, Continuation, Writes, UseOf, StepOf
<1>2. CASE cont[c] # NoCall /\ cont[b] # NoCall
  BY <1>2 DEF ApprovalOf, FillInv, StepsInv, Continuation
<1>3. CASE cont[c] = NoCall /\ cont[b] = NoCall
  BY <1>3 DEF ApprovalOf
<1>4. CASE cont[c] # NoCall /\ cont[b] = NoCall
  BY <1>1, <1>4 DEF ApprovalOf
<1>5. CASE cont[c] = NoCall /\ cont[b] # NoCall
  BY <1>1, <1>5 DEF ApprovalOf
<1> QED BY <1>2, <1>3, <1>4, <1>5

\* Every entry of a fill stands on one approval, for its agent, tab, session and
\* unlock, and no field goes twice on one approval (still_matches, admit, keep_pending).
THEOREM FillsApproved == Spec => []ReleasedToApproved
<1>1. FillInv => ReleasedToApproved
  <2> SUFFICES ASSUME FillInv, NEW e \in entered
               PROVE  \E a \in consents :
                        /\ a.call = e.lease
                        /\ a.agent = e.agent /\ a.session = e.session /\ a.tab = e.tab
                        /\ a.unlock = e.unlock
                        /\ e.fields \subseteq a.fields
                        /\ \A f \in entered :
                             f.lease = e.lease /\ f # e => f.fields \cap e.fields = {}
    BY DEF ReleasedToApproved
  <2>1. e.call \in Calls /\ Backed(e.call) /\ EnteredFor(e, e.call)
    BY DEF FillInv, RedeemedInv, Taken, EnteredFor
  <2>2. PICK a \in consents :
           /\ a.call = ApprovalOf(e.call)
           /\ a.agent = ask[e.call].agent /\ a.unlock = born[e.call]
           /\ a.session = target[e.call].session /\ a.tab = target[e.call].tab
           /\ Writes(e.call) \subseteq a.fields
    BY <2>1, ApprovalIsOfTheCall
  <2>3. ASSUME NEW f \in entered, f.lease = e.lease, f # e
        PROVE  f.fields \cap e.fields = {}
    <3>1. f.call \in Calls /\ f.call # e.call /\ EnteredFor(f, f.call)
      BY <2>3 DEF FillInv, RedeemedInv, Taken
    <3>2. ApprovalOf(f.call) = ApprovalOf(e.call)
      BY <2>1, <2>3, <3>1 DEF EnteredFor
    <3>3. Writes(f.call) \cap Writes(e.call) = {}
      BY <2>1, <3>1, <3>2, OneApprovalTwoSteps
    <3> QED BY <2>1, <3>1, <3>3 DEF EnteredFor
  <2> QED BY <2>1, <2>2, <2>3 DEF EnteredFor
<1> QED BY <1>1, FillInvariant, PTL

(***************************************************************************)
(* Agent fills implement ReleaseGate.                                      *)
(***************************************************************************)

gateOf == IF Unlocked(1) THEN "open" ELSE "shut"
grantedOf == [c \in Calls |-> IF \E a \in InFirst(consents) : a.call = c
                THEN (CHOOSE a \in InFirst(consents) : a.call = c).uses ELSE 0]
releasedOf == {[call |-> e.call, lease |-> e.lease, use |-> e.use] : e \in InFirst(entered)}
GateStep == [Gate!GateNext]_(Gate!gateVars)

LEMMA GateStutters ==
  UNCHANGED <<gateOf, grantedOf, releasedOf>> => GateStep
BY DEF GateStep, Gate!gateVars, gateOf, grantedOf, releasedOf

LEMMA GateShuts ==
  gateOf' = "shut" /\ UNCHANGED <<grantedOf, releasedOf>> => GateStep
BY DEF GateStep, Gate!GateNext, Gate!Shut, gateOf, grantedOf, releasedOf

\* What the first unlock granted a call is what its approval says.
LEMMA GrantedValue ==
  ASSUME ConsentsInv, NEW c \in Calls
  PROVE  grantedOf[c] = IF Consent(c) \in consents /\ born[c] = 1 THEN Consent(c).uses ELSE 0
<1>1. \A a \in InFirst(consents) : a.call = c => a = Consent(c)
  BY DEF InFirst, ConsentsInv
<1>2. Consent(c).call = c /\ Consent(c).unlock = born[c]
  BY DEF Consent
<1>3. CASE Consent(c) \in consents /\ born[c] = 1
  <2>1. Consent(c) \in InFirst(consents)
    BY <1>2, <1>3 DEF InFirst
  <2>2. (CHOOSE a \in InFirst(consents) : a.call = c) = Consent(c)
    BY <1>1, <1>2, <2>1
  <2> QED BY <1>2, <1>3, <2>1, <2>2 DEF grantedOf
<1>4. CASE ~(Consent(c) \in consents /\ born[c] = 1)
  <2>1. \A a \in InFirst(consents) : a.call # c
    BY <1>1, <1>2, <1>4 DEF InFirst
  <2> QED BY <1>4, <2>1 DEF grantedOf
<1> QED BY <1>3, <1>4

LEMMA GrantedValueNext ==
  ASSUME ConsentsInv', NEW c \in Calls
  PROVE  grantedOf'[c] = IF Consent(c)' \in consents' /\ born'[c] = 1 THEN Consent(c)'.uses ELSE 0
<1>1. \A a \in InFirst(consents') : a.call = c => a = Consent(c)'
  BY DEF InFirst, ConsentsInv
<1>2. Consent(c)'.call = c /\ Consent(c)'.unlock = born'[c]
  BY DEF Consent
<1>3. CASE Consent(c)' \in consents' /\ born'[c] = 1
  <2>1. Consent(c)' \in InFirst(consents')
    BY <1>2, <1>3 DEF InFirst
  <2>2. (CHOOSE a \in InFirst(consents') : a.call = c) = Consent(c)'
    BY <1>1, <1>2, <2>1
  <2> QED BY <1>2, <1>3, <2>1, <2>2 DEF grantedOf
<1>4. CASE ~(Consent(c)' \in consents' /\ born'[c] = 1)
  <2>1. \A a \in InFirst(consents') : a.call # c
    BY <1>1, <1>2, <1>4 DEF InFirst
  <2> QED BY <1>4, <2>1 DEF grantedOf
<1> QED BY <1>3, <1>4

\* An approval grants uses, in the first unlock.
LEMMA ApprovalGrants ==
  ASSUME FillInv, ConsentsInv', NEW c \in Calls, Consent(c) \notin consents,
         consents' = consents \cup {Consent(c)},
         UNCHANGED <<ask, born, cont, target, entered, vault, unlock>>
  PROVE  GateStep
<1>1. \A d : Consent(d)' = Consent(d)
  BY Unmoved
<1>2. UNCHANGED <<gateOf, releasedOf>>
  BY DEF gateOf, Unlocked, releasedOf, InFirst
<1>3. \A d \in Calls : grantedOf[d] =
        IF Consent(d) \in consents /\ born[d] = 1 THEN Consent(d).uses ELSE 0
  BY GrantedValue DEF FillInv
<1>4. \A d \in Calls : grantedOf'[d] =
        IF Consent(d) \in consents' /\ born[d] = 1 THEN Consent(d).uses ELSE 0
  BY <1>1, GrantedValueNext
<1>5. \A d \in Calls \ {c} : Consent(d) # Consent(c)
  BY DEF Consent
<1>6. grantedOf = [d \in Calls |-> grantedOf[d]] /\ grantedOf' = [d \in Calls |-> grantedOf'[d]]
  BY DEF grantedOf
<1>7. \A d \in Calls \ {c} : grantedOf'[d] = grantedOf[d]
  BY <1>3, <1>4, <1>5
<1>8. CASE born[c] = 1
  <2>1. grantedOf[c] = 0 /\ grantedOf'[c] \in Nat \ {0}
    BY <1>3, <1>4, <1>8 DEF Consent
  <2>2. grantedOf' = [grantedOf EXCEPT ![c] = grantedOf'[c]]
    BY <1>6, <1>7
  <2> QED BY <1>2, <2>1, <2>2
      DEF GateStep, Gate!GateNext, Gate!GrantUses, gateOf, grantedOf, releasedOf
<1>9. CASE born[c] # 1
  <2>1. grantedOf'[c] = grantedOf[c]
    BY <1>3, <1>4, <1>9
  <2>2. grantedOf' = grantedOf
    BY <1>6, <1>7, <2>1
  <2> QED BY <1>2, <2>2, GateStutters
<1> QED BY <1>8, <1>9

\* A release spends one use of one approval: a use the approval grants, and no other
\* release has spent, since two calls on one approval are its two steps.
LEMMA ReleaseSpends ==
  ASSUME FillInv, NEW s \in Sessions, Release(s)
  PROVE  GateStep
<1> USE DEF vaultVars, brokerVars, callVars, logVars
<1>1. UNCHANGED <<gateOf, grantedOf>>
  BY DEF Release, gateOf, Unlocked, grantedOf
<1>2. PICK e : /\ entered' = entered \cup {e} /\ e.call = thread[s].call
               /\ e.call \in Calls /\ EnteredFor(e, e.call) /\ Backed(e.call)
               /\ e.unlock = listener[s] /\ Unlocked(listener[s])
               /\ \A f \in entered : f.call # e.call
  BY ReleaseEnters DEF FillInv
<1> DEFINE c == e.call
           g == ApprovalOf(c)
<1>3. CASE listener[s] # 1
  <2>1. releasedOf' = releasedOf
    BY <1>2, <1>3 DEF releasedOf, InFirst
  <2> QED BY <1>1, <2>1, GateStutters
<1>4. CASE listener[s] = 1
  <2>1. releasedOf' = releasedOf \cup {[call |-> c, lease |-> e.lease, use |-> e.use]}
    BY <1>2, <1>4 DEF releasedOf, InFirst
  <2>2. e.lease = g /\ e.use = UseOf(c)
    BY <1>2 DEF EnteredFor
  <2>3. gateOf = "open"
    BY <1>2, <1>4 DEF gateOf
  <2>4. g \in Calls /\ UseOf(c) \in 1..grantedOf[g]
    <3>1. Consent(g) \in consents /\ Consent(g).unlock = born[c] /\ born[c] = 1
      BY <1>2, <1>4, ApprovalIsOfTheCall DEF EnteredFor
    <3>2. g \in Calls /\ born[g] = 1
      BY <3>1, <1>2 DEF Consent, ApprovalOf, FillInv, TypeOK
    <3>3. grantedOf[g] = Consent(g).uses
      BY <3>1, <3>2, GrantedValue DEF FillInv
    <3>4. CASE cont[c] = NoCall
      BY <3>2, <3>3, <3>4 DEF UseOf, StepOf, Consent
    <3>5. CASE cont[c] # NoCall
      <4>1. StepOf(g) = "one"
        BY <1>2, <3>5 DEF FillInv, StepsInv, Continuation, ApprovalOf
      <4> QED BY <3>2, <3>3, <4>1 DEF UseOf, Consent
    <3> QED BY <3>4, <3>5
  <2>5. \A r \in releasedOf : r.call # c
    BY <1>2 DEF releasedOf, InFirst
  <2>6. \A r \in releasedOf : ~(r.lease = g /\ r.use = UseOf(c))
    <3> SUFFICES ASSUME NEW f \in entered, f.lease = g
                 PROVE  f.use # UseOf(c)
      BY DEF releasedOf, InFirst
    <3>1. f.call \in Calls /\ f.call # c /\ EnteredFor(f, f.call)
      BY <1>2 DEF FillInv, RedeemedInv, Taken
    <3>2. ApprovalOf(f.call) = g /\ f.use = UseOf(f.call)
      BY <3>1 DEF EnteredFor
    <3> QED BY <1>2, <3>1, <3>2, OneApprovalTwoSteps
  <2>7. Gate!Release(c)
    BY <1>1, <2>1, <2>2, <2>3, <2>4, <2>5, <2>6
       DEF Gate!Release, gateOf, grantedOf, releasedOf
  <2> QED BY <1>2, <2>7 DEF GateStep, Gate!GateNext
<1> QED BY <1>3, <1>4

LEMMA GateStepOfNext ==
  ASSUME FillInv, Next
  PROVE  GateStep
<1> USE DEF vaultVars, brokerVars, callVars, sessionVars, logVars
<1>1. ConsentsInv'
  BY ConsentsStep DEF FillInv
<1>2. ASSUME NEW c \in Calls, Pass(c) \/ Decide(c, "allow")
      PROVE  GateStep
  <2>1. Consent(c) \notin consents
    BY <1>2 DEF Pass, Decide, Consent, FillInv, ConsentsInv, Decided, Granted
  <2>2. /\ consents' = consents \cup {Consent(c)}
        /\ UNCHANGED <<ask, born, cont, target, entered, vault, unlock>>
    BY <1>2 DEF Pass, Decide
  <2> QED BY <1>1, <2>1, <2>2, ApprovalGrants
<1>3. ASSUME NEW c \in Calls,
             \/ Request(c) \/ EndPending(c) \/ Decide(c, "deny")
             \/ Work(c) /\ ~Pass(c)
      PROVE  GateStep
  <2>1. UNCHANGED <<vault, unlock, entered, consents>>
    BY <1>3 DEF Request, AdmitRefused, Admit, EndPending, Decide, Work, Gates, GatesRefused,
         Locate, LocateRefused, Choose, StepGone, ChooseRefused, Raise, RaiseRefused, Approved,
         NotApproved, Issue, IssueRefused, GiveUp, ConcludeUnfilled, ConcludeFilled,
         ConcludeReleased, Keep, Finish
  <2> QED BY <2>1, GateStutters DEF gateOf, grantedOf, releasedOf, Unlocked
<1>4. ASSUME NEW s \in Sessions, ExtensionStep(s), ~Release(s)
      PROVE  GateStep
  <2>1. UNCHANGED <<vault, unlock, entered, consents>>
    BY <1>4 DEF ExtensionStep, Connect, Close, RedeemRefused, Settle, Reply, ReplyFails, Report,
         Abandon, Redeem, Outcome
  <2> QED BY <2>1, GateStutters DEF gateOf, grantedOf, releasedOf, Unlocked
<1>5. CASE TakeVault \/ Unlock
  <2>1. UNCHANGED <<entered, consents>> /\ ~Unlocked(1)'
    BY <1>5 DEF TakeVault, CleanupBegins, Unlock, Unlocked, FillInv, TypeOK
  <2> QED BY <2>1, GateShuts DEF gateOf, grantedOf, releasedOf
<1>6. CASE LockTool \/ RevokeAll \/ \E w \in Cleaners : Cleaning(w)
  <2>1. UNCHANGED <<vault, unlock, entered, consents>>
    BY <1>6 DEF LockTool, RevokeAll, CleanupBegins, Cleaning, DenyAll, RevokeGrants, Reopen
  <2> QED BY <2>1, GateStutters DEF gateOf, grantedOf, releasedOf, Unlocked
<1> QED BY <1>2, <1>3, <1>4, <1>5, <1>6, ReleaseSpends DEF Next, Work

\* A fill of the first unlock is released only while the vault is in its handle, once
\* for a call, and on a use that its approval grants and nothing else has spent: the
\* agent fills implement the gate (admit, keep_pending, revoke_all, audited_release).
THEOREM FillImplementsGate == Spec => ImplementsGate
<1>1. Init => Gate!GateInit
  <2> SUFFICES ASSUME Init PROVE Gate!GateInit
    OBVIOUS
  <2>1. InFirst(consents) = {} /\ InFirst(entered) = {} /\ Unlocked(1)
    BY DEF Init, InFirst, Unlocked
  <2> QED BY <2>1 DEF Gate!GateInit
<1>2. FillInv /\ [Next]_vars => GateStep
  <2> SUFFICES ASSUME FillInv, [Next]_vars PROVE GateStep
    OBVIOUS
  <2>1. CASE Next
    BY <2>1, GateStepOfNext
  <2>2. CASE UNCHANGED vars
    <3>1. UNCHANGED <<vault, unlock, entered, consents>>
      BY <2>2 DEF vars, vaultVars, logVars
    <3> QED BY <3>1, GateStutters DEF gateOf, grantedOf, releasedOf, Unlocked
  <2> QED BY <2>1, <2>2
<1> QED BY <1>1, <1>2, FillInvariant, PTL DEF Spec, ImplementsGate, Gate!GateSpec, GateStep

(***************************************************************************)
(* What the agent is told.                                                 *)
(***************************************************************************)

\* A request's steps are on its own call.
LEMMA RequestFrame ==
  ASSUME TypeOK, NEW c \in Calls,
         \/ Request(c) \/ Work(c) \/ EndPending(c)
         \/ \E decision \in {"allow", "deny"} : Decide(c, decision)
  PROVE  /\ UNCHANGED <<vault, unlock, sess, thread, listener, entered, wire>>
         /\ \A d \in Calls \ {c} : /\ phase'[d] = phase[d] /\ answer'[d] = answer[d]
                                   /\ born'[d] = born[d] /\ cont'[d] = cont[d]
                                   /\ target'[d] = target[d]
<1> USE DEF vaultVars, brokerVars, callVars, sessionVars, logVars, Goto
<1>1. CASE Request(c)
  BY <1>1 DEF Request, AdmitRefused, Admit, TypeOK
<1>2. CASE Gates(c) \/ GatesRefused(c) \/ Locate(c) \/ LocateRefused(c)
  BY <1>2 DEF Gates, GatesRefused, Locate, LocateRefused, Refuse, End, TypeOK
<1>3. CASE (\E r \in flow.reports : Choose(c, r)) \/ StepGone(c) \/ ChooseRefused(c)
  BY <1>3 DEF Choose, StepGone, ChooseRefused, Refuse, End, TypeOK
<1>4. CASE Pass(c) \/ Raise(c) \/ RaiseRefused(c) \/ Approved(c) \/ NotApproved(c)
  BY <1>4 DEF Pass, Raise, RaiseRefused, Approved, NotApproved, Refuse, End, TypeOK
<1>5. CASE Issue(c) \/ IssueRefused(c) \/ GiveUp(c) \/ ConcludeUnfilled(c)
  BY <1>5 DEF Issue, IssueRefused, GiveUp, ConcludeUnfilled, Refuse, End, TypeOK
<1>6. CASE ConcludeFilled(c) \/ ConcludeReleased(c) \/ Keep(c)
  BY <1>6 DEF ConcludeFilled, ConcludeReleased, Keep, TypeOK
<1>7. CASE Finish(c)
  BY <1>7 DEF Finish, Refuse, End, TypeOK
<1>8. CASE EndPending(c) \/ \E decision \in {"allow", "deny"} : Decide(c, decision)
  BY <1>8 DEF EndPending, Decide
<1> QED BY <1>1, <1>2, <1>3, <1>4, <1>5, <1>6, <1>7, <1>8 DEF Work

\* Follow-ups are never taken back.
LEMMA NotedGrows ==
  ASSUME TypeOK, NEW d \in Calls, NEW code, NEW u
  PROVE  \A x \in Calls : notes[x] \subseteq Noted(d, code, u)[x]
BY DEF Noted, TypeOK

LEMMA RefuseNotes ==
  ASSUME TypeOK, NEW c \in Calls, NEW told, Refuse(c, told)
  PROVE  \A x \in Calls : notes[x] \subseteq notes'[x]
BY NotedGrows DEF Refuse, TypeOK

LEMMA NotesGrow ==
  ASSUME TypeOK, RedeemedInv, ValuesGo, Next
  PROVE  \A x \in Calls : notes[x] \subseteq notes'[x]
<1> USE DEF vaultVars, brokerVars, callVars, sessionVars, logVars
<1>1. ASSUME NEW c \in Calls, Request(c)
      PROVE  notes' = notes
  BY <1>1 DEF Request, AdmitRefused, Admit
<1>2. ASSUME NEW c \in Calls,
             \/ Gates(c) \/ GatesRefused(c) \/ Locate(c) \/ (\E r \in flow.reports : Choose(c, r))
             \/ Pass(c) \/ Raise(c) \/ Approved(c) \/ Issue(c) \/ GiveUp(c) \/ ConcludeFilled(c)
             \/ Keep(c) \/ \E decision \in {"allow", "deny"} : Decide(c, decision)
      PROVE  notes' = notes
  BY <1>2 DEF Gates, GatesRefused, Locate, Choose, Pass, Raise, Approved, Issue, GiveUp,
       ConcludeFilled, Keep, Decide
<1>3. ASSUME NEW c \in Calls,
             \/ LocateRefused(c) \/ ChooseRefused(c) \/ RaiseRefused(c) \/ NotApproved(c)
             \/ IssueRefused(c) \/ ConcludeUnfilled(c) \/ Finish(c)
      PROVE  \A x \in Calls : notes[x] \subseteq notes'[x]
  BY <1>3, RefuseNotes DEF LocateRefused, ChooseRefused, RaiseRefused, NotApproved, IssueRefused,
       ConcludeUnfilled, Finish
<1>4. ASSUME NEW c \in Calls, StepGone(c) \/ ConcludeReleased(c) \/ EndPending(c)
      PROVE  \A x \in Calls : notes[x] \subseteq notes'[x]
  BY <1>4, NotedGrows DEF StepGone, ConcludeReleased, EndPending, TypeOK
<1>5. ASSUME NEW s \in Sessions, Settle(s) \/ ReplyFails(s)
      PROVE  \A x \in Calls : notes[x] \subseteq notes'[x]
  <2>1. thread[s].at = "settle" \/ thread[s].at = "reply"
    BY <1>5 DEF Settle, ReplyFails
  <2>2. thread[s].call \in Calls
    BY <2>1 DEF RedeemedInv, Taken, ValuesGo, OnItsWay
  <2>3. notes' = notes \/ \E code, u : notes' = Noted(thread[s].call, code, u)
    BY <1>5 DEF Settle, ReplyFails
  <2> QED BY <2>2, <2>3, NotedGrows
<1>6. ASSUME NEW s \in Sessions, ExtensionStep(s), ~Settle(s), ~ReplyFails(s)
      PROVE  notes' = notes
  BY <1>6 DEF ExtensionStep, Connect, Close, Release, RedeemRefused, Reply, Report, Abandon,
       Redeem, Outcome
<1>7. CASE LockTool \/ TakeVault \/ RevokeAll \/ Unlock \/ \E w \in Cleaners : Cleaning(w)
  BY <1>7, CleaningFrame
<1> QED BY <1>1, <1>2, <1>3, <1>4, <1>5, <1>6, <1>7 DEF Next, Work

\* An unlock that is over stays over.
LEMMA UnlockedBefore ==
  ASSUME TypeOK, Next, NEW u \in 0..unlock, Unlocked(u)'
  PROVE  Unlocked(u)
<1> USE DEF vaultVars, brokerVars, callVars, sessionVars, logVars
<1>1. ASSUME NEW c \in Calls,
             \/ Request(c) \/ Work(c) \/ EndPending(c)
             \/ \E decision \in {"allow", "deny"} : Decide(c, decision)
      PROVE  Unlocked(u)
  BY <1>1, RequestFrame DEF Unlocked
<1>2. ASSUME NEW s \in Sessions, ExtensionStep(s)
      PROVE  Unlocked(u)
  BY <1>2, SessionFrame DEF Unlocked
<1>3. CASE LockTool \/ TakeVault \/ RevokeAll \/ \E w \in Cleaners : Cleaning(w)
  BY <1>3 DEF LockTool, TakeVault, RevokeAll, Cleaning, DenyAll, RevokeGrants, Reopen,
       CleanupBegins, Unlocked, TypeOK
<1>4. CASE Unlock
  BY <1>4 DEF Unlock, Unlocked, TypeOK
<1> QED BY <1>1, <1>2, <1>3, <1>4 DEF Next

(* What the flow has heard.                                                *)

\* Before the grant is issued the flow has heard of nothing.
Early == {"gates", "locate", "probe", "sheet", "asking", "issue"}

LEMMA HearsNothing ==
  ASSUME FlowInv, FlowHears, NEW c \in Calls, phase[c] \in Early
  PROVE  flow.call = c /\ flow.delivery = "notYet" /\ flow.heard = "nothing"
BY DEF FlowInv, FlowHears, Early

LEMMA HearsAnew ==
  ASSUME flow'.delivery = "notYet", flow'.heard = "nothing"
  PROVE  FlowHears'
BY DEF FlowHears

LEMMA HearsKept ==
  ASSUME FlowHears,
         flow'.call = flow.call, flow'.to = flow.to, flow'.delivery = flow.delivery,
         flow'.heard = flow.heard,
         flow.delivery # "notYet" =>
           /\ phase'[flow.call] = phase[flow.call] /\ target'[flow.call] = target[flow.call]
           /\ born'[flow.call] = born[flow.call] /\ wire'[flow.call] = wire[flow.call]
           /\ notes[flow.call] \subseteq notes'[flow.call]
           /\ Unlocked(born[flow.call])' => Unlocked(born[flow.call]),
         \A s \in Sessions : thread[s].at = "reply" => thread'[s] = thread[s]
  PROVE  FlowHears'
BY DEF FlowHears

\* A flow that is issued, waits or ends.
LEMMA HearsIssue ==
  ASSUME TypeOK, FlowInv, FlowHears, NEW c \in Calls, Issue(c)
  PROVE  FlowHears'
<1> USE DEF vaultVars, brokerVars, callVars, sessionVars, logVars, Goto
<1>1. flow \in Flow /\ flow.call = c /\ flow.heard = "nothing" /\ phase[c] = "issue"
  BY HearsNothing DEF Issue, TypeOK, Early
<1>2. /\ flow'.call = c /\ flow'.heard = "nothing" /\ flow'.to = target[c].session
      /\ flow'.delivery \in {"waiting", "undelivered"}
  BY <1>1 DEF Issue, Flow
<1>3. phase'[c] = "wait" /\ target' = target
  BY <1>1 DEF Issue, TypeOK
<1> QED BY <1>2, <1>3 DEF FlowHears

LEMMA HearsWork ==
  ASSUME TypeOK, FlowInv, RedeemedInv, TellingInv, Next, NEW c \in Calls,
         \/ Request(c) \/ Work(c) \/ EndPending(c)
         \/ \E decision \in {"allow", "deny"} : Decide(c, decision)
  PROVE  FlowHears'
<1> USE DEF vaultVars, brokerVars, callVars, sessionVars, logVars, Goto
<1>1. /\ flow \in Flow /\ FlowHears /\ \A x \in Calls : notes[x] \subseteq notes'[x]
      /\ UNCHANGED <<vault, unlock, thread, wire>>
      /\ \A d \in Calls \ {c} : /\ phase'[d] = phase[d] /\ born'[d] = born[d]
                                /\ target'[d] = target[d]
      /\ flow.delivery # "notYet" => flow.call \in Calls
  BY RequestFrame, NotesGrow DEF TellingInv, TypeOK, FlowHears
<1>2. CASE flow' = flow /\ phase[c] \in {"idle"} \cup Early
  <2>1. flow.call = c => flow.delivery = "notYet" /\ flow.heard = "nothing"
    BY <1>1, <1>2 DEF FlowHears, Early
  <2>2. CASE flow.call = c
    BY <1>2, <2>1, <2>2, HearsAnew
  <2>3. CASE flow.call # c
    BY <1>1, <1>2, <2>3, HearsKept DEF Unlocked
  <2> QED BY <2>2, <2>3
<1>3. CASE \/ Locate(c) \/ (\E r \in flow.reports : Choose(c, r)) \/ StepGone(c)
  <2>1. phase[c] \in Early
    BY <1>3 DEF Locate, Choose, StepGone, Early
  <2>2. flow.delivery = "notYet" /\ flow.heard = "nothing"
    BY <1>1, <2>1, HearsNothing
  <2>3. flow'.delivery = flow.delivery /\ flow'.heard = flow.heard
    BY <1>1, <1>3 DEF Locate, Choose, StepGone, Flow
  <2> QED BY <2>2, <2>3, HearsAnew
<1>4. CASE flow'.delivery = "notYet" /\ flow'.heard = "nothing"
  BY <1>4, HearsAnew
<1>5. CASE Issue(c)
  BY <1>1, <1>5, HearsIssue
<1>6. CASE GiveUp(c)
  <2>1. flow.delivery \in {"waiting", "redeeming"} /\ phase' = phase /\ target' = target
    BY <1>6 DEF GiveUp
  <2>2. /\ flow'.call = flow.call /\ flow'.to = flow.to /\ flow'.heard = flow.heard
        /\ flow'.delivery = "undelivered"
    BY <1>1, <1>6 DEF GiveUp, Flow
  <2> QED BY <1>1, <2>1, <2>2 DEF FlowHears
<1>7. CASE ConcludeFilled(c) \/ ConcludeReleased(c) \/ Keep(c)
  <2>1. /\ flow' = flow /\ target' = target /\ born' = born /\ phase[c] \in {"wait", "keep"}
        /\ phase'[c] \in {"keep", "end"}
        /\ phase[c] = "wait" => flow.delivery = "released"
    BY <1>7 DEF ConcludeFilled, ConcludeReleased, Keep, TypeOK
  <2>2. flow.call = c
    BY <2>1 DEF FlowInv
  <2>3. flow.delivery \notin {"waiting", "redeeming"}
    BY <1>1, <2>1, <2>2 DEF FlowHears
  <2>4. \A s \in Sessions : thread'[s] = thread[s]
    BY <1>1
  <2>5. notes[c] \subseteq notes'[c] /\ wire' = wire /\ (Unlocked(born[c])' => Unlocked(born[c]))
    BY <1>1, <2>1 DEF Unlocked
  <2> QED BY <1>1, <2>1, <2>2, <2>3, <2>4, <2>5 DEF FlowHears
<1>8. CASE EndPending(c) \/ \E decision \in {"allow", "deny"} : Decide(c, decision)
  <2>1. UNCHANGED <<flow, phase, target, born>>
    BY <1>8 DEF EndPending, Decide
  <2>2. flow.delivery # "notYet" => notes[flow.call] \subseteq notes'[flow.call]
    BY <1>1
  <2> QED BY <1>1, <2>1, <2>2, HearsKept DEF Unlocked
<1>9. CASE \/ GatesRefused(c) \/ LocateRefused(c) \/ ChooseRefused(c) \/ RaiseRefused(c)
           \/ NotApproved(c) \/ IssueRefused(c) \/ ConcludeUnfilled(c) \/ Finish(c)
  <2>1. flow' = NoFlow
    BY <1>9 DEF GatesRefused, LocateRefused, ChooseRefused, RaiseRefused, NotApproved,
         IssueRefused, ConcludeUnfilled, Finish, Refuse, End
  <2> QED BY <1>4, <2>1 DEF NoFlow
<1>10. CASE Gates(c) \/ Pass(c) \/ Raise(c) \/ Approved(c) \/ AdmitRefused(c)
  BY <1>2, <1>10 DEF Gates, Pass, Raise, Approved, AdmitRefused, Early
<1>11. ASSUME NEW a \in Agents, NEW fields \in Asks, Admit(c, a, fields)
       PROVE  FlowHears'
  BY <1>4, <1>11 DEF Admit, NoFlow
<1> QED BY <1>3, <1>5, <1>6, <1>7, <1>8, <1>9, <1>10, <1>11 DEF Request, Work

\* A step of the extension that changes what the flow has heard.
LEMMA HearsClose ==
  ASSUME TypeOK, FlowHears, NEW s \in Sessions, Close(s)
  PROVE  FlowHears'
<1> USE DEF vaultVars, brokerVars, callVars, sessionVars, logVars
<1>1. /\ UNCHANGED <<vault, unlock, phase, target, born, wire, notes>>
      /\ \A r \in Sessions : thread[r].at = "reply" => thread'[r] = thread[r]
      /\ flow \in Flow
  BY DEF Close, TypeOK
<1>2. /\ flow'.call = flow.call /\ flow'.to = flow.to
      /\ \/ flow'.delivery = flow.delivery
         \/ flow.delivery \in {"waiting", "redeeming"} /\ flow'.delivery = "undelivered"
      /\ \/ flow'.heard = flow.heard
         \/ flow.delivery = "released" /\ flow.heard = "nothing" /\ flow'.heard = "gone"
  BY <1>1 DEF Close, Flow, TypeOK
<1> QED BY <1>1, <1>2 DEF FlowHears, Unlocked

LEMMA HearsSettle ==
  ASSUME TypeOK, FlowHears, ValuesGo, NEW s \in Sessions, Settle(s)
  PROVE  FlowHears'
<1> USE DEF vaultVars, brokerVars, callVars, sessionVars, logVars
<1> DEFINE c == thread[s].call
           taken == flow.call = c /\ flow.to # NoSession /\ flow.delivery \in {"waiting", "redeeming"}
<1>1. /\ UNCHANGED <<vault, unlock, phase, target, born, wire>> /\ thread[s].at = "settle"
      /\ \A r \in Sessions \ {s} : thread'[r] = thread[r]
      /\ flow \in Flow /\ thread[s] \in Redeeming
  BY DEF Settle, TypeOK
<1>2. flow.delivery # "notYet" => flow.call \in Calls
  BY DEF FlowHears
<1>3. CASE ~taken
  <2>1. flow' = flow
    BY <1>3 DEF Settle
  <2>2. notes' = notes \/ (thread[s].released /\ \E code, u : notes' = Noted(c, code, u))
    BY DEF Settle
  <2>3. thread[s].released => c \in Calls
    BY DEF ValuesGo, OnItsWay
  <2>4. \A x \in Calls : notes[x] \subseteq notes'[x]
    BY <2>2, <2>3, NotedGrows
  <2> HIDE DEF c, taken
  <2> QED BY <1>1, <1>2, <2>1, <2>4, HearsKept DEF Unlocked
<1>4. CASE taken
  <2>1. /\ flow'.call = c /\ flow'.to = flow.to /\ flow'.heard = flow.heard
        /\ flow'.delivery = IF thread[s].released THEN "released" ELSE "refused"
        /\ flow.heard = "nothing" /\ phase[c] = "wait" /\ c \in Calls /\ flow.to = target[c].session
    BY <1>1, <1>4 DEF Settle, Flow, FlowHears
  <2>2. thread[s].released => /\ target[c].session = s /\ thread'[s].at = "reply"
                              /\ thread'[s].call = c
    BY <1>1, <1>4 DEF Settle, ValuesGo, OnItsWay, TypeOK, Redeeming
  <2> HIDE DEF c, taken
  <2> QED BY <1>1, <2>1, <2>2 DEF FlowHears
<1> QED BY <1>3, <1>4

LEMMA HearsReply ==
  ASSUME TypeOK, FlowHears, ValuesGo, NEW s \in Sessions, Reply(s)
  PROVE  FlowHears'
<1> USE DEF vaultVars, brokerVars, callVars, sessionVars, logVars
<1> DEFINE c == thread[s].call
<1>1. /\ UNCHANGED <<vault, unlock, flow, phase, target, born, notes>> /\ thread[s].at = "reply"
      /\ \A r \in Sessions \ {s} : thread'[r] = thread[r]
      /\ wire' = [wire EXCEPT ![c] = "sent"]
  BY DEF Reply, TypeOK
<1>2. \A x \in Calls : wire[x] = "sent" => wire'[x] = "sent"
  BY <1>1 DEF TypeOK
<1>3. c \in Calls /\ wire'[c] = "sent"
  BY <1>1 DEF ValuesGo, OnItsWay, TypeOK
<1> QED BY <1>1, <1>2, <1>3 DEF FlowHears, Unlocked

LEMMA HearsReplyFails ==
  ASSUME TypeOK, FlowHears, ValuesGo, NEW s \in Sessions, ReplyFails(s)
  PROVE  FlowHears'
<1> USE DEF vaultVars, brokerVars, callVars, sessionVars, logVars
<1> DEFINE c == thread[s].call
<1>1. /\ UNCHANGED <<vault, unlock, phase, target, born>> /\ thread[s].at = "reply"
      /\ \A r \in Sessions \ {s} : thread'[r] = thread[r]
      /\ flow \in Flow
      /\ wire' = [wire EXCEPT ![c] = "lost"] /\ notes' = Noted(c, "reply_failed", listener[s])
  BY DEF ReplyFails, Serve, TypeOK
<1>2. c \in Calls /\ wire[c] = "none" /\ listener[s] = born[c]
  BY <1>1 DEF ValuesGo, OnItsWay
<1>3. \A x \in Calls \ {c} : wire'[x] = wire[x]
  BY <1>1 DEF TypeOK
<1>4. \A x \in Calls : notes[x] \subseteq notes'[x]
  BY <1>1, <1>2, NotedGrows
<1>5. Unlocked(born[c]) => "reply_failed" \in notes'[c]
  BY <1>1, <1>2 DEF Noted, TypeOK
<1>6. CASE flow.call = c /\ flow.delivery = "released"
  <2>1. /\ flow'.call = c /\ flow'.to = flow.to /\ flow'.heard = "replyFailed"
        /\ flow'.delivery = "released"
    BY <1>1, <1>6 DEF ReplyFails, Flow
  <2> HIDE DEF c
  <2> QED BY <1>1, <1>5, <1>6, <2>1 DEF FlowHears, Unlocked
<1>7. CASE ~(flow.call = c /\ flow.delivery = "released")
  <2>1. flow' = flow
    BY <1>7 DEF ReplyFails
  <2>2. CASE flow.call = c
    <3>1. flow.heard = "nothing" /\ flow.delivery # "released"
      BY <1>7, <2>2 DEF FlowHears
    <3> QED BY <1>1, <2>1, <3>1 DEF FlowHears
  <2>3. CASE flow.call # c
    <3> HIDE DEF c
    <3>1. flow.delivery # "notYet" => flow.call \in Calls \ {c}
      BY <2>3 DEF FlowHears
    <3>2. flow.delivery = "released" /\ thread[flow.to].at = "reply"
            /\ thread[flow.to].call = flow.call => flow.to # s
      BY <2>3 DEF c
    <3> QED BY <1>1, <1>3, <1>4, <2>1, <3>1, <3>2 DEF FlowHears, Unlocked
  <2> QED BY <2>2, <2>3
<1> QED BY <1>6, <1>7

LEMMA HearsOutcome ==
  ASSUME TypeOK, FlowHears, NEW s \in Sessions, NEW c \in Calls, NEW told \in {"written", "failed"},
         Outcome(s, c, told)
  PROVE  FlowHears'
<1> USE DEF vaultVars, brokerVars, callVars, sessionVars, logVars
<1>1. /\ UNCHANGED <<vault, unlock, phase, target, born, wire, notes, thread>>
      /\ flow \in Flow /\ flow.to = s /\ thread[s].at = "idle"
  BY DEF Outcome, Served, TypeOK
<1>2. /\ flow'.call = flow.call /\ flow'.to = flow.to
      /\ \/ /\ flow.delivery = "waiting" /\ flow'.delivery = "undelivered"
            /\ flow'.heard = flow.heard
         \/ /\ flow.delivery = "released" /\ flow'.delivery = "released"
            /\ flow.heard = "nothing" /\ flow'.heard = told
  BY <1>1 DEF Outcome, Flow
<1> QED BY <1>1, <1>2 DEF FlowHears, Unlocked

LEMMA HearsExtension ==
  ASSUME TypeOK, FlowHears, ValuesGo, NEW s \in Sessions, ExtensionStep(s)
  PROVE  FlowHears'
<1> USE DEF vaultVars, brokerVars, callVars, sessionVars, logVars
<1>1. UNCHANGED <<vault, unlock, phase, target, born>> /\ flow \in Flow
  BY SessionFrame DEF TypeOK
<1>2. CASE Connect(s) \/ Release(s) \/ RedeemRefused(s)
  <2>1. /\ UNCHANGED <<flow, wire, notes>>
        /\ \A r \in Sessions : thread[r].at = "reply" => thread'[r] = thread[r]
    BY <1>2 DEF Connect, Release, RedeemRefused, Serve, TypeOK
  <2> QED BY <1>1, <2>1, HearsKept DEF Unlocked
<1>3. ASSUME NEW tab \in Tabs, NEW page \in Shown, Report(s, tab, page)
      PROVE  FlowHears'
  <2>1. /\ UNCHANGED <<thread, wire, notes>>
        /\ flow'.call = flow.call /\ flow'.to = flow.to /\ flow'.delivery = flow.delivery
        /\ flow'.heard = flow.heard
    BY <1>1, <1>3 DEF Report, Flow
  <2> QED BY <1>1, <2>1, HearsKept DEF Unlocked
<1>4. ASSUME NEW c \in Calls, Abandon(s, c)
      PROVE  FlowHears'
  <2>1. /\ UNCHANGED <<wire, notes>>
        /\ flow'.call = flow.call /\ flow'.to = flow.to /\ flow'.delivery = flow.delivery
        /\ flow'.heard = flow.heard
        /\ \A r \in Sessions : thread[r].at = "reply" => thread'[r] = thread[r]
    BY <1>1, <1>4 DEF Abandon, Flow, Served, Serve, TypeOK
  <2> QED BY <1>1, <2>1, HearsKept DEF Unlocked
<1>5. ASSUME NEW c \in Calls, NEW tab \in Tabs, NEW page \in Shown, Redeem(s, c, tab, page)
      PROVE  FlowHears'
  <2>1. /\ flow'.call = flow.call /\ flow'.to = flow.to /\ flow'.delivery = "redeeming"
        /\ flow'.heard = flow.heard /\ flow.delivery = "waiting"
    BY <1>1, <1>5 DEF Redeem, Flow, TypeOK
  <2> QED BY <1>1, <2>1 DEF FlowHears
<1>6. ASSUME NEW c \in Calls, NEW told \in {"written", "failed"}, Outcome(s, c, told)
      PROVE  FlowHears'
  BY <1>6, HearsOutcome
<1> QED
  BY <1>2, <1>3, <1>4, <1>5, <1>6, HearsClose, HearsSettle, HearsReply, HearsReplyFails
  DEF ExtensionStep

LEMMA HearsStep ==
  ASSUME FillInv, TellingInv, Next
  PROVE  FlowHears'
<1> USE DEF vaultVars, brokerVars, callVars, sessionVars, logVars
<1>0. TypeOK /\ FlowInv /\ RedeemedInv /\ FlowHears /\ ValuesGo
  BY DEF FillInv, TellingInv
<1>1. CASE LockTool \/ TakeVault \/ RevokeAll \/ Unlock \/ \E w \in Cleaners : DenyAll(w) \/ Reopen(w)
  <2>1. /\ UNCHANGED <<flow, phase, target, born, notes, wire, thread>>
    BY <1>1 DEF LockTool, TakeVault, RevokeAll, Unlock, CleanupBegins, DenyAll, Reopen
  <2>2. flow.delivery # "notYet" =>
          /\ flow.call \in Calls /\ born[flow.call] \in 0..unlock
    BY <1>0 DEF TellingInv, NotesInv, FlowHears, TypeOK
  <2>3. flow.delivery # "notYet" => (Unlocked(born[flow.call])' => Unlocked(born[flow.call]))
    BY <1>0, <2>1, <2>2, UnlockedBefore DEF Unlocked
  <2> QED BY <1>0, <2>1, <2>3, HearsKept
<1>2. ASSUME NEW w \in Cleaners, RevokeGrants(w)
      PROVE  FlowHears'
  <2>1. /\ UNCHANGED <<vault, unlock, phase, target, born, notes, wire, thread>>
        /\ flow'.call = flow.call /\ flow'.to = flow.to /\ flow'.heard = flow.heard
        /\ \/ flow'.delivery = flow.delivery
           \/ flow.delivery = "waiting" /\ flow'.delivery = "locked"
    BY <1>0, <1>2 DEF RevokeGrants, Flow, TypeOK
  <2> QED BY <1>0, <2>1 DEF FlowHears, Unlocked
<1> QED BY <1>0, <1>1, <1>2, HearsWork, HearsExtension DEF Next, Cleaning

(* A value on its way.                                                     *)

LEMMA OnItsWayKept ==
  ASSUME NEW s \in Sessions, NEW c, OnItsWay(s, c), UNCHANGED <<born, target>>,
         entered \subseteq entered', wire'[c] = wire[c], phase'[c] \in Granted,
         sess'[s] = "on", listener'[s] = listener[s]
  PROVE  OnItsWay(s, c)'
BY DEF OnItsWay, Entered

\* A request's own steps: the value of another call is not about it.
LEMMA ValuesWork ==
  ASSUME TypeOK, FlowInv, StepsInv, RedeemedInv, TellingInv, NEW c \in Calls,
         \/ Request(c) \/ Work(c) \/ EndPending(c)
         \/ \E decision \in {"allow", "deny"} : Decide(c, decision)
  PROVE  ValuesGo'
<1> USE DEF vaultVars, brokerVars, callVars, sessionVars, logVars, Goto
<1>1. /\ UNCHANGED <<sess, thread, listener, entered, wire>>
      /\ \A d \in Calls \ {c} : /\ phase'[d] = phase[d] /\ answer'[d] = answer[d]
                                /\ born'[d] = born[d] /\ target'[d] = target[d]
      /\ ValuesGo /\ FlowHears
  BY RequestFrame DEF TellingInv
<1>2. phase[c] \in Granted =>
        phase'[c] \in Granted /\ born'[c] = born[c] /\ target'[c] = target[c]
  <2>1. SUFFICES ASSUME phase[c] \in Granted
                 PROVE  phase'[c] \in Granted /\ born'[c] = born[c] /\ target'[c] = target[c]
    OBVIOUS
  <2>2. CASE GiveUp(c) \/ ConcludeUnfilled(c) \/ ConcludeFilled(c) \/ ConcludeReleased(c)
    BY <2>2 DEF GiveUp, ConcludeUnfilled, ConcludeFilled, ConcludeReleased, Refuse, End, TypeOK,
         Granted
  <2>3. CASE Keep(c) \/ Finish(c)
    BY <2>3 DEF Keep, Finish, Refuse, End, TypeOK, Granted
  <2>4. CASE EndPending(c) \/ \E decision \in {"allow", "deny"} : Decide(c, decision)
    BY <2>1, <2>4 DEF EndPending, Decide
  <2>5. CASE GatesRefused(c)
    BY <2>1, <2>5 DEF GatesRefused, Granted
  <2> QED BY <2>1, <2>2, <2>3, <2>4, <2>5 DEF Granted, Request, AdmitRefused, Admit, Work, Gates,
       Locate, LocateRefused, Choose, StepGone, ChooseRefused, Pass, Raise, RaiseRefused, Approved,
       NotApproved, Issue, IssueRefused
<1>3. answer'[c] = "filled" => wire[c] = "sent" /\ phase'[c] \in {"keep", "end", "done"}
  <2>1. SUFFICES ASSUME answer'[c] = "filled"
                 PROVE  wire[c] = "sent" /\ phase'[c] \in {"keep", "end", "done"}
    OBVIOUS
  <2>2. CASE ConcludeFilled(c)
    <3>1. flow.call = c /\ flow.heard = "written" /\ phase'[c] \in {"keep", "end"}
      BY <2>2 DEF ConcludeFilled, FlowInv, TypeOK
    <3> QED BY <1>1, <3>1 DEF FlowHears
  <2>3. CASE Keep(c) \/ Finish(c)
    <3>1. answer[c] = "filled" /\ phase'[c] \in {"end", "done"}
      BY <2>1, <2>3 DEF Keep, Finish, Refuse, End, TypeOK
    <3> QED BY <1>1, <3>1 DEF ValuesGo
  <2>4. CASE UNCHANGED <<answer, phase>>
    BY <1>1, <2>1, <2>4 DEF ValuesGo
  <2>5. CASE answer' = answer /\ phase[c] \notin {"keep", "end", "done"}
    BY <1>1, <2>1, <2>5 DEF ValuesGo
  <2>6. CASE \E told \in {"refused", "nothing"} : answer' = [answer EXCEPT ![c] = told]
    BY <2>1, <2>6 DEF TypeOK
  <2>7. CASE EndPending(c) \/ \E decision \in {"allow", "deny"} : Decide(c, decision)
    BY <2>4, <2>7 DEF EndPending, Decide
  <2>8. CASE Request(c)
    BY <2>5, <2>6, <2>8 DEF Request, AdmitRefused, Admit
  <2>9. CASE \/ GatesRefused(c) \/ LocateRefused(c) \/ ChooseRefused(c) \/ RaiseRefused(c)
             \/ NotApproved(c) \/ IssueRefused(c) \/ ConcludeUnfilled(c) \/ ConcludeReleased(c)
    BY <2>6, <2>9 DEF GatesRefused, LocateRefused, ChooseRefused, RaiseRefused, NotApproved,
         IssueRefused, ConcludeUnfilled, ConcludeReleased, Refuse, End
  <2>10. CASE \/ Gates(c) \/ Locate(c) \/ (\E r \in flow.reports : Choose(c, r)) \/ StepGone(c)
              \/ Pass(c) \/ Raise(c) \/ Approved(c) \/ Issue(c) \/ GiveUp(c)
    BY <2>5, <2>10 DEF Gates, Locate, Choose, StepGone, Pass, Raise, Approved, Issue, GiveUp
  <2> QED BY <2>2, <2>3, <2>7, <2>8, <2>9, <2>10 DEF Work
<1>4. \A s \in Sessions, d \in Calls : OnItsWay(s, d) => OnItsWay(s, d)'
  BY <1>1, <1>2 DEF OnItsWay, Entered
<1>5. \A d : \A s \in Sessions : OnItsWay(s, d) => d \in Calls
  BY DEF OnItsWay
<1> QED BY <1>1, <1>3, <1>4, <1>5 DEF ValuesGo, Entered

\* A step of the extension that leaves the value where it is.
LEMMA ValuesKept ==
  ASSUME ValuesGo, UNCHANGED <<phase, born, target, answer, entered, wire>>,
         \A s \in Sessions :
           \/ ~thread'[s].released /\ thread'[s].at # "reply"
           \/ /\ thread'[s].released = thread[s].released /\ thread'[s].call = thread[s].call
              /\ thread'[s].at \in {thread[s].at, "reply"}
              /\ thread[s].released => sess'[s] = "on" /\ listener'[s] = listener[s]
              /\ thread'[s].at = "reply" => thread'[s].released
  PROVE  ValuesGo'
<1>1. ASSUME NEW s \in Sessions
      PROVE  /\ thread'[s].at = "reply" => thread'[s].released
             /\ thread'[s].released => thread'[s].at \in {"settle", "reply"}
             /\ thread'[s].released => OnItsWay(s, thread[s].call)'
  <2>1. CASE ~thread'[s].released /\ thread'[s].at # "reply"
    BY <2>1
  <2>2. CASE ~(~thread'[s].released /\ thread'[s].at # "reply")
    <3>1. /\ thread'[s].released /\ thread[s].released /\ thread'[s].call = thread[s].call
          /\ thread'[s].at \in {thread[s].at, "reply"}
          /\ sess'[s] = "on" /\ listener'[s] = listener[s]
      BY <2>2
    <3>2. OnItsWay(s, thread[s].call) /\ thread[s].at \in {"settle", "reply"}
      BY <3>1 DEF ValuesGo
    <3>3. OnItsWay(s, thread[s].call)'
      <4> DEFINE c == thread[s].call
      <4>1. OnItsWay(s, c) /\ c' = c /\ c \in Calls /\ phase[c] \in Granted
        BY <3>1, <3>2 DEF OnItsWay
      <4> HIDE DEF c
      <4>2. OnItsWay(s, c)'
        BY <3>1, <4>1 DEF OnItsWay, Entered
      <4> QED BY <4>2 DEF c
    <3> QED BY <3>1, <3>2, <3>3
  <2> QED BY <2>1, <2>2
<1>2. \A c \in Calls :
        /\ wire'[c] # "none" => Entered(c)'
        /\ answer'[c] = "filled" => wire'[c] = "sent" /\ phase'[c] \in {"keep", "end", "done"}
  BY DEF ValuesGo, Entered
<1> QED BY <1>1, <1>2 DEF ValuesGo

LEMMA ValuesRelease ==
  ASSUME TypeOK, RedeemedInv, ValuesGo, NEW s \in Sessions, Release(s)
  PROVE  ValuesGo'
<1> USE DEF vaultVars, brokerVars, callVars, sessionVars, logVars
<1>1. PICK e : /\ entered' = entered \cup {e} /\ e.call = thread[s].call /\ e.call \in Calls
               /\ \A f \in entered : f.call # e.call
  BY ReleaseEnters
<1>2. /\ UNCHANGED <<phase, born, target, answer, wire, sess, listener>>
      /\ thread[s].at = "release"
      /\ thread'[s].at = "settle" /\ thread'[s].call = e.call /\ thread'[s].released
      /\ \A r \in Sessions \ {s} : thread'[r] = thread[r]
  BY <1>1 DEF Release, Serve, TypeOK
<1>3. \A c : Entered(c) => Entered(c)'
  BY <1>1 DEF Entered
<1>4. OnItsWay(s, e.call)'
  <2>1. /\ sess[s] = "on" /\ phase[e.call] \in Granted
        /\ target[e.call].session = s /\ born[e.call] = listener[s]
    BY <1>1, <1>2 DEF RedeemedInv, Taken, Releasing
  <2>2. ~Entered(e.call) /\ Entered(e.call)'
    BY <1>1 DEF Entered
  <2>3. wire[e.call] = "none"
    BY <1>1, <2>2 DEF ValuesGo
  <2> QED BY <1>1, <1>2, <2>1, <2>2, <2>3 DEF OnItsWay
<1>5. \A r \in Sessions : thread[r].released => OnItsWay(r, thread[r].call)'
  BY <1>2, <1>3 DEF ValuesGo, OnItsWay
<1> QED BY <1>2, <1>3, <1>4, <1>5 DEF ValuesGo

\* The value goes out once: its session is the only one that has it.
LEMMA ValuesReplied ==
  ASSUME TypeOK, ValuesGo, NEW s \in Sessions, Reply(s) \/ ReplyFails(s)
  PROVE  ValuesGo'
<1> USE DEF vaultVars, brokerVars, callVars, sessionVars, logVars
<1> DEFINE c == thread[s].call
<1>1. /\ UNCHANGED <<phase, born, target, answer, entered, sess, listener>>
      /\ thread[s].at = "reply"
      /\ ~thread'[s].released /\ thread'[s].at # "reply"
      /\ \A r \in Sessions \ {s} : thread'[r] = thread[r]
  BY DEF Reply, ReplyFails, Serve, Resting, TypeOK
<1>2. c \in Calls /\ Entered(c) /\ wire[c] = "none" /\ target[c].session = s
  BY <1>1 DEF ValuesGo, OnItsWay
<1>3. \A d \in Calls \ {c} : wire'[d] = wire[d]
  BY DEF Reply, ReplyFails, TypeOK
<1> HIDE DEF c
<1>4. ASSUME NEW r \in Sessions \ {s}, thread[r].released
      PROVE  OnItsWay(r, thread[r].call)'
  <2>1. OnItsWay(r, thread[r].call)
    BY <1>4 DEF ValuesGo
  <2>2. thread[r].call \in Calls \ {c}
    BY <1>2, <2>1 DEF OnItsWay
  <2> QED BY <1>1, <1>3, <2>1, <2>2, OnItsWayKept DEF OnItsWay
<1>5. \A d : Entered(d)' = Entered(d)
  BY <1>1 DEF Entered
<1>6. \A d \in Calls :
        /\ wire'[d] # "none" => Entered(d)'
        /\ answer'[d] = "filled" => wire'[d] = "sent" /\ phase'[d] \in {"keep", "end", "done"}
  BY <1>1, <1>2, <1>3, <1>5 DEF ValuesGo
<1>7. \A r \in Sessions \ {s} :
        /\ thread'[r].at = "reply" => thread'[r].released
        /\ thread'[r].released => thread'[r].at \in {"settle", "reply"}
        /\ thread'[r].released => OnItsWay(r, thread[r].call)'
  BY <1>1, <1>4 DEF ValuesGo
<1> QED BY <1>1, <1>6, <1>7 DEF ValuesGo

LEMMA ValuesExtension ==
  ASSUME TypeOK, RedeemedInv, ValuesGo, NEW s \in Sessions, ExtensionStep(s)
  PROVE  ValuesGo'
<1> USE DEF vaultVars, brokerVars, callVars, sessionVars, logVars
<1>1. UNCHANGED <<phase, born, target>>
  BY SessionFrame
<1>2. CASE Connect(s)
  <2>1. /\ UNCHANGED <<answer, entered, wire, thread>> /\ sess[s] = "new"
        /\ \A r \in Sessions \ {s} : sess'[r] = sess[r] /\ listener'[r] = listener[r]
    BY <1>2 DEF Connect, TypeOK
  <2>2. \A r \in Sessions : thread[r].released => r # s /\ sess[r] = "on"
    BY <2>1 DEF ValuesGo, OnItsWay
  <2>3. \A r \in Sessions : thread[r].at = "reply" => thread[r].released
    BY DEF ValuesGo
  <2> QED BY <1>1, <2>1, <2>2, <2>3, ValuesKept
<1>3. CASE Close(s)
  <2>1. /\ UNCHANGED <<answer, entered, wire, listener>> /\ thread'[s] = Resting
        /\ \A r \in Sessions \ {s} : sess'[r] = sess[r] /\ thread'[r] = thread[r]
    BY <1>3 DEF Close, TypeOK
  <2>2. \A r \in Sessions : thread[r].released => sess[r] = "on"
    BY DEF ValuesGo, OnItsWay
  <2>3. \A r \in Sessions : thread[r].at = "reply" => thread[r].released
    BY DEF ValuesGo
  <2> QED BY <1>1, <2>1, <2>2, <2>3, ValuesKept DEF Resting
<1>4. CASE RedeemRefused(s) \/ \E c \in Calls :
             Abandon(s, c) \/ \E tab \in Tabs, page \in Shown : Redeem(s, c, tab, page)
  <2>1. /\ UNCHANGED <<answer, entered, wire, listener, sess>>
        /\ ~thread'[s].released /\ thread'[s].at # "reply"
        /\ \A r \in Sessions \ {s} : thread'[r] = thread[r]
    BY <1>4 DEF RedeemRefused, Abandon, Redeem, Serve, TypeOK
  <2>2. \A r \in Sessions : thread[r].released => sess[r] = "on"
    BY DEF ValuesGo, OnItsWay
  <2>3. \A r \in Sessions : thread[r].at = "reply" => thread[r].released
    BY DEF ValuesGo
  <2> QED BY <1>1, <2>1, <2>2, <2>3, ValuesKept
<1>5. CASE Settle(s)
  <2>1. /\ UNCHANGED <<answer, entered, wire, listener, sess>>
        /\ \A r \in Sessions \ {s} : thread'[r] = thread[r]
        /\ thread[s] \in Redeeming
    BY <1>5 DEF Settle, TypeOK
  <2>2. \/ thread'[s] = Resting
        \/ thread[s].released /\ thread'[s] = [thread[s] EXCEPT !.at = "reply"]
    BY <1>5 DEF Settle, TypeOK
  <2>3. \/ ~thread'[s].released /\ thread'[s].at # "reply"
        \/ /\ thread'[s].released = thread[s].released /\ thread'[s].call = thread[s].call
           /\ thread'[s].at = "reply" /\ thread'[s].released
    BY <2>1, <2>2 DEF Resting, Redeeming
  <2>4. \A r \in Sessions : thread[r].released => sess[r] = "on"
    BY DEF ValuesGo, OnItsWay
  <2>5. \A r \in Sessions : thread[r].at = "reply" => thread[r].released
    BY DEF ValuesGo
  <2> QED BY <1>1, <2>1, <2>3, <2>4, <2>5, ValuesKept
<1>6. CASE \/ \E tab \in Tabs, page \in Shown : Report(s, tab, page)
           \/ \E c \in Calls, told \in {"written", "failed"} : Outcome(s, c, told)
  <2>1. UNCHANGED <<answer, entered, wire, listener, sess, thread>>
    BY <1>6 DEF Report, Outcome
  <2>2. \A r \in Sessions : thread[r].released => sess[r] = "on"
    BY DEF ValuesGo, OnItsWay
  <2>3. \A r \in Sessions : thread[r].at = "reply" => thread[r].released
    BY DEF ValuesGo
  <2> QED BY <1>1, <2>1, <2>2, <2>3, ValuesKept
<1> QED
  BY <1>2, <1>3, <1>4, <1>5, <1>6, ValuesRelease, ValuesReplied DEF ExtensionStep

LEMMA ValuesStep ==
  ASSUME FillInv, TellingInv, Next
  PROVE  ValuesGo'
<1>0. TypeOK /\ FlowInv /\ StepsInv /\ RedeemedInv /\ ValuesGo
  BY DEF FillInv, TellingInv
<1>1. CASE LockTool \/ TakeVault \/ RevokeAll \/ Unlock \/ \E w \in Cleaners : Cleaning(w)
  <2>1. UNCHANGED <<phase, born, target, sess, listener, thread, entered, wire>>
    BY <1>0, <1>1, CleaningFrame DEF sessionVars, logVars
  <2>2. UNCHANGED answer
    BY <1>1 DEF LockTool, TakeVault, RevokeAll, Unlock, CleanupBegins, Cleaning, DenyAll,
         RevokeGrants, Reopen
  <2>3. \A r \in Sessions : thread[r].released => sess[r] = "on"
    BY <1>0 DEF ValuesGo, OnItsWay
  <2>4. \A r \in Sessions : thread[r].at = "reply" => thread[r].released
    BY <1>0 DEF ValuesGo
  <2> QED BY <1>0, <2>1, <2>2, <2>3, <2>4, ValuesKept
<1> QED BY <1>0, <1>1, ValuesWork, ValuesExtension DEF Next

(* Follow-ups.                                                             *)

\* A pending_refused is the last word of a continuation.
LEMMA RefuseAdds ==
  ASSUME TypeOK, NEW c \in Calls, NEW told, Refuse(c, told), NEW x \in Calls,
         NEW code, code \in notes'[x], code \notin notes[x]
  PROVE  code = "pending_refused" /\ cont[c] = x
BY DEF Refuse, Noted, TypeOK, NoCall

LEMMA FollowUpsAdded ==
  ASSUME TypeOK, RedeemedInv, ValuesGo, Next, NEW x \in Calls,
         NEW code \in {"pending_refused", "pending_expired"},
         code \in notes'[x], code \notin notes[x]
  PROVE  IF code = "pending_refused" THEN \E b \in Calls : cont[b] = x ELSE EndPending(x)
<1> USE DEF vaultVars, brokerVars, callVars, sessionVars, logVars
<1>1. ASSUME NEW c \in Calls, Request(c)
      PROVE  FALSE
  BY <1>1 DEF Request, AdmitRefused, Admit
<1>2. ASSUME NEW c \in Calls,
             \/ Gates(c) \/ GatesRefused(c) \/ Locate(c) \/ (\E r \in flow.reports : Choose(c, r))
             \/ Pass(c) \/ Raise(c) \/ Approved(c) \/ Issue(c) \/ GiveUp(c) \/ ConcludeFilled(c)
             \/ Keep(c) \/ \E decision \in {"allow", "deny"} : Decide(c, decision)
      PROVE  FALSE
  BY <1>2 DEF Gates, GatesRefused, Locate, Choose, Pass, Raise, Approved, Issue, GiveUp,
       ConcludeFilled, Keep, Decide
<1>3. ASSUME NEW c \in Calls,
             \/ LocateRefused(c) \/ ChooseRefused(c) \/ RaiseRefused(c) \/ NotApproved(c)
             \/ IssueRefused(c) \/ ConcludeUnfilled(c) \/ Finish(c)
      PROVE  code = "pending_refused" /\ cont[c] = x
  <2>1. (\E told : Refuse(c, told)) \/ notes' = notes
    BY <1>3 DEF LocateRefused, ChooseRefused, RaiseRefused, NotApproved, IssueRefused,
         ConcludeUnfilled, Finish
  <2> QED BY <2>1, RefuseAdds
<1>4. ASSUME NEW c \in Calls, StepGone(c)
      PROVE  code = "pending_refused" /\ cont[c] = x
  BY <1>4 DEF StepGone, Noted, TypeOK
<1>5. ASSUME NEW c \in Calls, ConcludeReleased(c)
      PROVE  FALSE
  BY <1>5 DEF ConcludeReleased, Noted, TypeOK
<1>6. ASSUME NEW c \in Calls, EndPending(c)
      PROVE  code = "pending_expired" /\ c = x
  BY <1>6 DEF EndPending, Noted, TypeOK
<1>7. ASSUME NEW s \in Sessions, Settle(s) \/ ReplyFails(s)
      PROVE  FALSE
  <2>1. thread[s].at \in {"settle", "reply"}
    BY <1>7 DEF Settle, ReplyFails
  <2>2. thread[s].call \in Calls
    BY <2>1 DEF RedeemedInv, Taken, ValuesGo, OnItsWay
  <2>3. \/ notes' = notes
        \/ notes' = Noted(thread[s].call, "not_delivered", listener[s])
        \/ notes' = Noted(thread[s].call, "reply_failed", listener[s])
    BY <1>7 DEF Settle, ReplyFails
  <2> QED BY <2>2, <2>3 DEF Noted, TypeOK
<1>8. ASSUME NEW s \in Sessions, ExtensionStep(s), ~Settle(s), ~ReplyFails(s)
      PROVE  FALSE
  BY <1>8 DEF ExtensionStep, Connect, Close, Release, RedeemRefused, Reply, Report, Abandon,
       Redeem, Outcome
<1>9. CASE LockTool \/ TakeVault \/ RevokeAll \/ Unlock \/ \E w \in Cleaners : Cleaning(w)
  BY <1>9, CleaningFrame
<1> QED BY <1>1, <1>2, <1>3, <1>4, <1>5, <1>6, <1>7, <1>8, <1>9 DEF Next, Work

\* A first step is taken up while it is pending only.
LEMMA ContinuesPending ==
  ASSUME TypeOK, Next, NEW b \in Calls, NEW x \in Calls, cont'[b] = x, cont[b] # x
  PROVE  \E p \in pending : p.call = x
<1> USE DEF vaultVars, brokerVars, callVars, sessionVars, logVars
<1>1. ASSUME NEW c \in Calls, NEW a \in Agents, NEW fields \in Asks, Admit(c, a, fields)
      PROVE  \E p \in pending : p.call = x
  BY <1>1 DEF Admit, TypeOK
<1>2. ASSUME NEW c \in Calls, StepGone(c)
      PROVE  FALSE
  BY <1>2, FillAssumption DEF StepGone, TypeOK, Calls, NoCall
<1>3. ASSUME NEW c \in Calls,
             \/ AdmitRefused(c) \/ Gates(c) \/ GatesRefused(c) \/ Locate(c) \/ LocateRefused(c)
             \/ (\E r \in flow.reports : Choose(c, r)) \/ ChooseRefused(c)
             \/ Pass(c) \/ Raise(c) \/ RaiseRefused(c) \/ Approved(c) \/ NotApproved(c)
      PROVE  FALSE
  BY <1>3 DEF AdmitRefused, Gates, GatesRefused, Locate, LocateRefused, Choose, ChooseRefused,
       Pass, Raise, RaiseRefused, Approved, NotApproved
<1>4. ASSUME NEW c \in Calls,
             \/ Issue(c) \/ IssueRefused(c) \/ GiveUp(c) \/ ConcludeUnfilled(c)
             \/ ConcludeFilled(c) \/ ConcludeReleased(c) \/ Keep(c) \/ Finish(c) \/ EndPending(c)
             \/ \E decision \in {"allow", "deny"} : Decide(c, decision)
      PROVE  FALSE
  BY <1>4 DEF Issue, IssueRefused, GiveUp, ConcludeUnfilled, ConcludeFilled, ConcludeReleased,
       Keep, Finish, EndPending, Decide
<1>5. ASSUME NEW s \in Sessions, ExtensionStep(s)
      PROVE  FALSE
  BY <1>5, SessionFrame
<1>6. CASE LockTool \/ TakeVault \/ RevokeAll \/ Unlock \/ \E w \in Cleaners : Cleaning(w)
  BY <1>6, CleaningFrame
<1> QED BY <1>1, <1>2, <1>3, <1>4, <1>5, <1>6 DEF Next, Request, Work

\* Only a call that keeps its approval becomes pending.
LEMMA PendingAdded ==
  ASSUME TypeOK, Next, NEW q \in pending'
  PROVE  (\E p \in pending : p.call = q.call) \/ phase[q.call] = "keep"
<1> USE DEF vaultVars, brokerVars, callVars, sessionVars, logVars
<1>1. ASSUME NEW c \in Calls, NEW a \in Agents, NEW fields \in Asks, Admit(c, a, fields)
      PROVE  pending' \subseteq pending
  BY <1>1 DEF Admit
<1>2. ASSUME NEW c \in Calls, Keep(c)
      PROVE  \A r \in pending' : r \in pending \/ (r.call = c /\ phase[c] = "keep")
  BY <1>2 DEF Keep
<1>3. ASSUME NEW c \in Calls,
             \/ AdmitRefused(c) \/ Gates(c) \/ GatesRefused(c) \/ Locate(c) \/ LocateRefused(c)
             \/ (\E r \in flow.reports : Choose(c, r)) \/ StepGone(c) \/ ChooseRefused(c)
             \/ Pass(c) \/ Raise(c) \/ RaiseRefused(c) \/ Approved(c) \/ NotApproved(c)
      PROVE  pending' = pending
  BY <1>3 DEF AdmitRefused, Gates, GatesRefused, Locate, LocateRefused, Choose, StepGone,
       ChooseRefused, Pass, Raise, RaiseRefused, Approved, NotApproved
<1>4. ASSUME NEW c \in Calls,
             \/ Issue(c) \/ IssueRefused(c) \/ GiveUp(c) \/ ConcludeUnfilled(c)
             \/ ConcludeFilled(c) \/ ConcludeReleased(c) \/ Finish(c) \/ EndPending(c)
             \/ \E decision \in {"allow", "deny"} : Decide(c, decision)
      PROVE  pending' \subseteq pending
  BY <1>4 DEF Issue, IssueRefused, GiveUp, ConcludeUnfilled, ConcludeFilled, ConcludeReleased,
       Finish, EndPending, Decide
<1>5. ASSUME NEW s \in Sessions, Close(s)
      PROVE  \E p \in pending : p.call = q.call
  <2>1. PICK p \in pending :
          q = IF target[p.call].session = s THEN [p EXCEPT !.gone = TRUE] ELSE p
    BY <1>5 DEF Close
  <2> QED BY <2>1 DEF TypeOK
<1>6. ASSUME NEW s \in Sessions, ExtensionStep(s), ~Close(s)
      PROVE  pending' = pending
  BY <1>6 DEF ExtensionStep, Connect, Release, RedeemRefused, Settle, Reply, ReplyFails, Report,
       Abandon, Redeem, Outcome
<1>7. CASE LockTool \/ TakeVault \/ RevokeAll \/ Unlock \/ \E w \in Cleaners : Cleaning(w)
  BY <1>7, CleaningFrame
<1> QED BY <1>1, <1>2, <1>3, <1>4, <1>5, <1>6, <1>7 DEF Next, Request, Work

\* A call that has ended stays so, and says what it said.
LEMMA EndedStays ==
  ASSUME TypeOK, Next, NEW x \in Calls, phase[x] \in {"keep", "end", "done"}
  PROVE  /\ phase'[x] \in {"keep", "end", "done"}
         /\ phase[x] # "keep" => phase'[x] # "keep"
         /\ answer[x] = "filled" => answer'[x] = "filled"
<1> USE DEF vaultVars, brokerVars, callVars, sessionVars, logVars, Goto
<1>1. ASSUME NEW c \in Calls,
             \/ Request(c) \/ Work(c) \/ EndPending(c)
             \/ \E decision \in {"allow", "deny"} : Decide(c, decision)
      PROVE  /\ phase'[x] \in {"keep", "end", "done"}
             /\ phase[x] # "keep" => phase'[x] # "keep"
             /\ answer[x] = "filled" => answer'[x] = "filled"
  <2>1. CASE c # x
    BY <1>1, <2>1, RequestFrame
  <2>2. CASE c = x /\ (Keep(c) \/ Finish(c))
    BY <2>2 DEF Keep, Finish, Refuse, End, TypeOK
  <2>3. CASE EndPending(c) \/ \E decision \in {"allow", "deny"} : Decide(c, decision)
    BY <2>3 DEF EndPending, Decide
  <2> QED BY <1>1, <2>1, <2>2, <2>3 DEF Request, AdmitRefused, Admit, Work, Gates, GatesRefused,
       Locate, LocateRefused, Choose, StepGone, ChooseRefused, Pass, Raise, RaiseRefused, Approved,
       NotApproved, Issue, IssueRefused, GiveUp, ConcludeUnfilled, ConcludeFilled,
       ConcludeReleased
<1>2. ASSUME NEW s \in Sessions, ExtensionStep(s)
      PROVE  UNCHANGED <<phase, answer>>
  BY <1>2 DEF ExtensionStep, Connect, Close, Release, RedeemRefused, Settle, Reply, ReplyFails,
       Report, Abandon, Redeem, Outcome
<1>3. CASE LockTool \/ TakeVault \/ RevokeAll \/ Unlock \/ \E w \in Cleaners : Cleaning(w)
  BY <1>3 DEF LockTool, TakeVault, RevokeAll, Unlock, CleanupBegins, Cleaning, DenyAll,
       RevokeGrants, Reopen
<1> QED BY <1>1, <1>2, <1>3 DEF Next

LEMMA OverStays ==
  ASSUME TypeOK, Next, NEW x \in Calls, Over(x)
  PROVE  Over(x)'
BY EndedStays, PendingAdded DEF Over

\* An entry is told of: by its settlement, by its conclusion, or already.
LEMMA ToldWork ==
  ASSUME TypeOK, FlowInv, RedeemedInv, TellingInv, Next, NEW x \in Calls, ToldOf(x),
         Unlocked(born[x]), NEW c \in Calls,
         \/ Request(c) \/ Work(c) \/ EndPending(c)
         \/ \E decision \in {"allow", "deny"} : Decide(c, decision)
  PROVE  ToldOf(x)'
<1> USE DEF vaultVars, brokerVars, callVars, sessionVars, logVars, Goto
<1>1. /\ thread' = thread /\ notes[x] \subseteq notes'[x] /\ FlowHears /\ ValuesGo
      /\ flow \in Flow
      /\ \A d \in Calls \ {c} : phase'[d] = phase[d] /\ answer'[d] = answer[d]
  BY RequestFrame, NotesGrow DEF TellingInv, TypeOK
<1>2. CASE \E s \in Sessions : /\ thread[s].at = "settle" /\ thread[s].released
                              /\ thread[s].call = x
  BY <1>1, <1>2 DEF ToldOf
<1>3. CASE answer[x] = "filled"
  BY <1>1, <1>3, EndedStays DEF ToldOf, ValuesGo
<1>4. CASE notes[x] \cap FollowUps # {}
  BY <1>1, <1>4 DEF ToldOf
<1>5. CASE flow.call = x /\ flow.delivery = "released" /\ phase[x] = "wait"
  <2>1. CASE c # x
    <3>1. phase[c] \in {"idle", "done"} /\ phase'[x] = "wait"
      BY <1>1, <1>5, <2>1 DEF FlowInv
    <3>2. CASE Request(c)
      <4>1. flow.call # NoCall
        BY <1>5, FillAssumption DEF Calls, NoCall
      <4>2. flow' = flow
        BY <3>2, <4>1 DEF Request, AdmitRefused, Admit
      <4> QED BY <1>5, <3>1, <4>2 DEF ToldOf
    <3>3. CASE EndPending(c) \/ \E decision \in {"allow", "deny"} : Decide(c, decision)
      BY <1>5, <3>1, <3>3 DEF EndPending, Decide, ToldOf
    <3>4. ~Work(c)
      BY <3>1 DEF Work, Gates, GatesRefused, Locate, LocateRefused, Choose, StepGone,
         ChooseRefused, Pass, Raise, RaiseRefused, Approved, NotApproved, Issue, IssueRefused,
         GiveUp, ConcludeUnfilled, ConcludeFilled, ConcludeReleased, Keep, Finish
    <3> QED BY <3>2, <3>3, <3>4
  <2>2. CASE ConcludeFilled(x)
    BY <2>2 DEF ConcludeFilled, ToldOf, TypeOK
  <2>3. CASE ConcludeReleased(x) /\ flow.heard = "replyFailed"
    <3>1. "reply_failed" \in notes[x]
      BY <1>1, <1>5, <2>3 DEF FlowHears
    <3> QED BY <1>4, <3>1 DEF FollowUps
  <2>4. CASE ConcludeReleased(x) /\ flow.heard # "replyFailed"
    <3>1. \E code \in FollowUps : notes' = Noted(x, code, born[x])
      BY <2>4 DEF ConcludeReleased, FollowUps
    <3>2. notes'[x] \cap FollowUps # {}
      BY <3>1 DEF Noted, TypeOK
    <3> QED BY <3>2 DEF ToldOf
  <2>5. CASE EndPending(c) \/ \E decision \in {"allow", "deny"} : Decide(c, decision)
    BY <1>5, <2>5 DEF EndPending, Decide, ToldOf
  <2> QED BY <1>5, <2>1, <2>2, <2>3, <2>4, <2>5
      DEF Request, AdmitRefused, Admit, Work, Gates, GatesRefused,
       Locate, LocateRefused, Choose, StepGone, ChooseRefused, Pass, Raise, RaiseRefused, Approved,
       NotApproved, Issue, IssueRefused, GiveUp, ConcludeUnfilled, Keep, Finish
<1> QED BY <1>2, <1>3, <1>4, <1>5 DEF ToldOf

LEMMA ToldExtension ==
  ASSUME TypeOK, RedeemedInv, TellingInv, Next, NEW x \in Calls, ToldOf(x),
         Unlocked(born[x]), NEW s \in Sessions, ExtensionStep(s)
  PROVE  ToldOf(x)'
<1> USE DEF vaultVars, brokerVars, callVars, sessionVars, logVars
<1>1. /\ phase' = phase /\ answer' = answer /\ notes[x] \subseteq notes'[x]
      /\ FlowHears /\ ValuesGo /\ flow \in Flow
  <2>1. answer' = answer
    BY DEF ExtensionStep, Connect, Close, Release, RedeemRefused, Settle, Reply, ReplyFails,
       Report, Abandon, Redeem, Outcome
  <2> QED BY <2>1, SessionFrame, NotesGrow DEF TellingInv, TypeOK
<1>2. CASE answer[x] = "filled" \/ notes[x] \cap FollowUps # {}
  BY <1>1, <1>2 DEF ToldOf
<1>3. CASE flow.call = x /\ flow.delivery = "released" /\ phase[x] = "wait"
  <2>1. flow'.call = x /\ flow'.delivery = "released"
    <3>1. CASE Connect(s) \/ Release(s) \/ RedeemRefused(s) \/ Reply(s)
      BY <1>3, <3>1 DEF Connect, Release, RedeemRefused, Reply
    <3>2. CASE Close(s)
      BY <1>1, <1>3, <3>2 DEF Close, Flow, TypeOK
    <3>3. CASE Settle(s) \/ ReplyFails(s)
      BY <1>1, <1>3, <3>3 DEF Settle, ReplyFails, Flow
    <3>4. CASE \E c \in Calls : \/ Abandon(s, c)
                               \/ \E tab \in Tabs, page \in Shown : Redeem(s, c, tab, page)
      BY <1>3, <3>4 DEF Abandon, Redeem, TypeOK
    <3>5. CASE \/ \E tab \in Tabs, page \in Shown : Report(s, tab, page)
               \/ \E c \in Calls, told \in {"written", "failed"} : Outcome(s, c, told)
      BY <1>1, <1>3, <3>5 DEF Report, Outcome, Flow
    <3> QED BY <3>1, <3>2, <3>3, <3>4, <3>5 DEF ExtensionStep
  <2> QED BY <1>1, <1>3, <2>1 DEF ToldOf
<1>4. ASSUME NEW r \in Sessions, thread[r].at = "settle", thread[r].released, thread[r].call = x
      PROVE  ToldOf(x)'
  <2>1. CASE thread'[r] = thread[r]
    BY <1>4, <2>1 DEF ToldOf
  <2>2. CASE thread'[r] # thread[r]
    <3>1. r = s /\ Settle(s)
      <4>1. CASE Release(s) \/ RedeemRefused(s) \/ Reply(s) \/ ReplyFails(s) \/ Close(s)
        BY <1>4, <2>2, <4>1 DEF Release, RedeemRefused, Reply, ReplyFails, Close, Serve, TypeOK
      <4>2. CASE \E c \in Calls : \/ Abandon(s, c)
                                 \/ \E tab \in Tabs, page \in Shown : Redeem(s, c, tab, page)
        BY <1>4, <2>2, <4>2 DEF Abandon, Redeem, Served, Serve, TypeOK
      <4>3. CASE Settle(s)
        BY <2>2, <4>3 DEF Settle, TypeOK
      <4>4. CASE \/ Connect(s) \/ \E tab \in Tabs, page \in Shown : Report(s, tab, page)
                 \/ \E c \in Calls, told \in {"written", "failed"} : Outcome(s, c, told)
        BY <2>2, <4>4 DEF Connect, Report, Outcome
      <4> QED BY <4>1, <4>2, <4>3, <4>4 DEF ExtensionStep
    <3>2. listener[s] = born[x]
      BY <1>1, <1>4, <3>1 DEF ValuesGo, OnItsWay
    <3>3. CASE /\ flow.call = x /\ flow.to # NoSession
               /\ flow.delivery \in {"waiting", "redeeming"}
      <4>1. flow'.call = x /\ flow'.delivery = "released"
        BY <1>1, <1>4, <3>1, <3>3 DEF Settle, Flow
      <4>2. phase[x] = "wait"
        BY <1>1, <3>3 DEF FlowHears
      <4> QED BY <1>1, <4>1, <4>2 DEF ToldOf
    <3>4. CASE ~(/\ flow.call = x /\ flow.to # NoSession
                 /\ flow.delivery \in {"waiting", "redeeming"})
      <4>1. notes' = Noted(x, "not_delivered", listener[s])
        BY <1>4, <3>1, <3>4 DEF Settle
      <4>2. "not_delivered" \in notes'[x]
        BY <3>2, <4>1 DEF Noted, TypeOK
      <4> QED BY <4>2 DEF ToldOf, FollowUps
    <3> QED BY <3>3, <3>4
  <2> QED BY <2>1, <2>2
<1> QED BY <1>2, <1>3, <1>4 DEF ToldOf

LEMMA ToldStep ==
  ASSUME FillInv, TellingInv, Next, NEW x \in Calls, ToldOf(x), Unlocked(born[x])
  PROVE  ToldOf(x)'
<1>0. TypeOK /\ FlowInv /\ RedeemedInv
  BY DEF FillInv
<1>1. CASE LockTool \/ TakeVault \/ RevokeAll \/ Unlock \/ \E w \in Cleaners : Cleaning(w)
  <2>1. UNCHANGED <<phase, thread, notes>>
    BY <1>0, <1>1, CleaningFrame DEF sessionVars, logVars
  <2>2. UNCHANGED answer
    BY <1>1 DEF LockTool, TakeVault, RevokeAll, Unlock, CleanupBegins, Cleaning, DenyAll,
         RevokeGrants, Reopen
  <2>3. flow.delivery = "released" => flow' = flow
    BY <1>0, <1>1 DEF LockTool, TakeVault, RevokeAll, Unlock, CleanupBegins, Cleaning, DenyAll,
         RevokeGrants, Reopen, brokerVars, TypeOK
  <2> QED BY <2>1, <2>2, <2>3 DEF ToldOf
<1> QED BY <1>0, <1>1, ToldWork, ToldExtension DEF Next

\* What was entered is of a call whose unlock is settled.
LEMMA EnteredBefore ==
  ASSUME FillInv, TellingInv, Next, NEW x \in Calls, Entered(x)'
  PROVE  /\ born'[x] = born[x]
         /\ Entered(x) \/ ToldOf(x)'
<1> USE DEF vaultVars, brokerVars, callVars, sessionVars, logVars
<1>0. TypeOK /\ FlowInv /\ RedeemedInv
  BY DEF FillInv
<1>1. ASSUME NEW c \in Calls,
             \/ Request(c) \/ Work(c) \/ EndPending(c)
             \/ \E decision \in {"allow", "deny"} : Decide(c, decision)
      PROVE  born'[x] = born[x] /\ Entered(x)
  <2>1. Entered(x) /\ phase[x] # "idle"
    BY <1>0, <1>1, RequestFrame DEF Entered, RedeemedInv, Taken, Granted
  <2>2. ASSUME phase[c] # "idle" PROVE born' = born
    BY <1>1, <2>2 DEF Request, AdmitRefused, Admit, Work, Gates, GatesRefused, Locate,
       LocateRefused, Choose, StepGone, ChooseRefused, Pass, Raise, RaiseRefused, Approved,
       NotApproved, Issue, IssueRefused, GiveUp, ConcludeUnfilled, ConcludeFilled,
       ConcludeReleased, Keep, Finish, EndPending, Decide
  <2> QED BY <1>0, <1>1, <2>1, <2>2, RequestFrame
<1>2. ASSUME NEW s \in Sessions, ExtensionStep(s)
      PROVE  born'[x] = born[x] /\ (Entered(x) \/ ToldOf(x)')
  <2>1. born' = born
    BY <1>0, <1>2, SessionFrame
  <2>2. CASE Release(s)
    <3>1. PICK e : entered' = entered \cup {e} /\ e.call = thread[s].call
      BY <1>0, <2>2, ReleaseEnters
    <3>2. Entered(x) \/ thread[s].call = x
      BY <3>1 DEF Entered
    <3>3. thread'[s].at = "settle" /\ thread'[s].released /\ thread'[s].call = thread[s].call
      BY <1>0, <2>2 DEF Release, Serve, TypeOK
    <3> QED BY <2>1, <3>2, <3>3 DEF ToldOf
  <2>3. CASE entered' = entered
    BY <2>1, <2>3 DEF Entered
  <2> QED BY <1>2, <2>2, <2>3 DEF ExtensionStep, Connect, Close, RedeemRefused, Settle, Reply,
       ReplyFails, Report, Abandon, Redeem, Outcome
<1>3. CASE LockTool \/ TakeVault \/ RevokeAll \/ Unlock \/ \E w \in Cleaners : Cleaning(w)
  BY <1>0, <1>3, CleaningFrame DEF Entered
<1> QED BY <1>1, <1>2, <1>3 DEF Next

\* A call is of an unlock that has come.
LEMMA BornSoon ==
  ASSUME TypeOK, NotesInv, Next, NEW x \in Calls
  PROVE  born'[x] <= unlock'
<1> USE DEF vaultVars, brokerVars, callVars, sessionVars, logVars
<1>1. born[x] <= unlock /\ unlock \in Nat /\ born[x] \in Nat
  BY DEF NotesInv, TypeOK
<1>2. ASSUME NEW c \in Calls,
             \/ Request(c) \/ Work(c) \/ EndPending(c)
             \/ \E decision \in {"allow", "deny"} : Decide(c, decision)
      PROVE  unlock' = unlock /\ (born'[x] = born[x] \/ born'[x] = unlock)
  <2>1. CASE x # c
    BY <1>2, <2>1, RequestFrame
  <2>2. born' = born \/ born' = [born EXCEPT ![c] = unlock]
    BY <1>2 DEF Request, AdmitRefused, Admit, Work, Gates, GatesRefused, Locate,
       LocateRefused, Choose, StepGone, ChooseRefused, Pass, Raise, RaiseRefused, Approved,
       NotApproved, Issue, IssueRefused, GiveUp, ConcludeUnfilled, ConcludeFilled,
       ConcludeReleased, Keep, Finish, EndPending, Decide
  <2> QED BY <1>2, <2>1, <2>2, RequestFrame DEF TypeOK
<1>3. ASSUME NEW s \in Sessions, ExtensionStep(s)
      PROVE  UNCHANGED <<unlock, born>>
  BY <1>3, SessionFrame
<1>4. CASE LockTool \/ TakeVault \/ RevokeAll \/ Unlock \/ \E w \in Cleaners : Cleaning(w)
  <2>1. born' = born
    BY <1>4, CleaningFrame
  <2>2. unlock' = unlock \/ unlock' = unlock + 1
    BY <1>4 DEF LockTool, TakeVault, RevokeAll, Unlock, CleanupBegins, Cleaning, DenyAll,
         RevokeGrants, Reopen
  <2> QED BY <1>1, <2>1, <2>2
<1> QED BY <1>1, <1>2, <1>3, <1>4 DEF Next

LEMMA NotesStep ==
  ASSUME FillInv, TellingInv, Next
  PROVE  NotesInv'
<1>0. TypeOK /\ FlowInv /\ StepsInv /\ RedeemedInv /\ ValuesGo /\ NotesInv /\ TypeOK'
  BY FillTypes DEF FillInv, TellingInv
<1> SUFFICES ASSUME NEW x \in Calls
             PROVE  /\ born'[x] <= unlock'
                    /\ Entered(x)' /\ Unlocked(born[x])' => ToldOf(x)'
                    /\ "pending_refused" \in notes'[x] => Over(x)'
                    /\ "pending_expired" \in notes'[x] =>
                         /\ Over(x)' /\ "pending_refused" \notin notes'[x]
                         /\ \A b \in Calls : cont'[b] # x
  BY DEF NotesInv
<1>1. born'[x] <= unlock'
  BY <1>0, BornSoon
<1>2. ASSUME Entered(x)', Unlocked(born[x])'
      PROVE  ToldOf(x)'
  <2>1. born'[x] = born[x] /\ (Entered(x) \/ ToldOf(x)')
    BY <1>2, EnteredBefore
  <2>2. born[x] \in 0..unlock
    BY <1>0 DEF NotesInv, TypeOK
  <2>3. Unlocked(born[x])
    <3> DEFINE u == born[x]
    <3>1. u' = u /\ Unlocked(u)'
      BY <1>2, <2>1
    <3> HIDE DEF u
    <3>2. Unlocked(u)
      BY <1>0, <2>2, <3>1, UnlockedBefore DEF u, Unlocked
    <3> QED BY <3>2 DEF u
  <2> QED BY <1>0, <2>1, <2>3, ToldStep DEF NotesInv
<1>3. ASSUME "pending_refused" \in notes'[x]
      PROVE  Over(x)'
  <2>1. CASE "pending_refused" \in notes[x]
    BY <1>0, <2>1, OverStays DEF NotesInv
  <2>2. CASE "pending_refused" \notin notes[x]
    <3>1. PICK b \in Calls : cont[b] = x
      BY <1>0, <1>3, <2>2, FollowUpsAdded
    <3>2. Continuation(b, x)
      BY <1>0, <3>1, FillAssumption DEF StepsInv, Calls, NoCall
    <3> QED BY <1>0, <3>2, OverStays DEF Continuation, Over
  <2> QED BY <2>1, <2>2
<1>4. ASSUME "pending_expired" \in notes'[x]
      PROVE  /\ Over(x)' /\ "pending_refused" \notin notes'[x]
             /\ \A b \in Calls : cont'[b] # x
  <2>1. CASE "pending_expired" \in notes[x]
    <3>1. Over(x) /\ "pending_refused" \notin notes[x] /\ \A b \in Calls : cont[b] # x
      BY <1>0, <2>1 DEF NotesInv
    <3>2. "pending_refused" \notin notes'[x]
      BY <1>0, <3>1, FollowUpsAdded
    <3>3. \A b \in Calls : cont'[b] # x
      BY <1>0, <3>1, ContinuesPending DEF Over
    <3> QED BY <1>0, <3>1, <3>2, <3>3, OverStays
  <2>2. CASE "pending_expired" \notin notes[x]
    <3>1. EndPending(x)
      BY <1>0, <1>4, <2>2, FollowUpsAdded
    <3>2. PICK p \in pending :
            /\ p.call = x /\ pending' = pending \ {p} /\ phase' = phase /\ cont' = cont
            /\ notes' = Noted(x, "pending_expired", born[x])
      BY <3>1 DEF EndPending, callVars
    <3>3. phase[x] \in {"end", "done"} /\ \A q \in pending : q.call = x => q = p
      BY <1>0, <3>2 DEF StepsInv
    <3>4. "pending_refused" \notin notes[x]
      BY <1>0, <3>2 DEF NotesInv, Over
    <3>5. "pending_refused" \notin notes'[x]
      BY <1>0, <3>2, <3>4 DEF Noted, TypeOK
    <3>6. \A b \in Calls : cont[b] # x
      BY <1>0, <3>2, FillAssumption DEF StepsInv, Continuation, Calls, NoCall
    <3> QED BY <3>2, <3>3, <3>5, <3>6 DEF Over
  <2> QED BY <2>1, <2>2
<1> QED BY <1>1, <1>2, <1>3, <1>4

LEMMA TellingInvInit == Init => TellingInv
<1> SUFFICES ASSUME Init PROVE TellingInv
  OBVIOUS
<1>1. FlowHears
  BY DEF Init, FlowHears, NoFlow
<1>2. ValuesGo
  BY DEF Init, ValuesGo, Resting
<1>3. NotesInv
  BY DEF Init, NotesInv, Entered
<1> QED BY <1>1, <1>2, <1>3 DEF TellingInv

LEMMA TellingInvStep == FillInv /\ TellingInv /\ [Next]_vars => TellingInv'
<1> SUFFICES ASSUME FillInv, TellingInv, [Next]_vars PROVE TellingInv'
  OBVIOUS
<1>1. CASE Next
  BY <1>1, HearsStep, ValuesStep, NotesStep DEF TellingInv
<1>2. CASE UNCHANGED vars
  <2> USE <1>2 DEF vars, vaultVars, brokerVars, callVars, sessionVars, logVars
  <2>1. FlowHears'
    BY DEF TellingInv, FlowHears, Unlocked
  <2>2. ValuesGo'
    BY DEF TellingInv, ValuesGo, OnItsWay, Entered
  <2>3. NotesInv'
    BY DEF TellingInv, NotesInv, Entered, Unlocked, ToldOf, Over
  <2> QED BY <2>1, <2>2, <2>3 DEF TellingInv
<1> QED BY <1>1, <1>2

\* A value that was released is with its session, went out, or left its note, in every
\* interleaving of the request's wait, the redemption's settlement and its reply.
\* (wait_for_delivery, settle, reply_failed.)
THEOREM FillTells == Spec => []TellingInv
<1> QED BY TellingInvInit, TellingInvStep, FillInvariant, PTL DEF Spec

LEMMA TellingIsTrue ==
  ASSUME FillInv, TellingInv
  PROVE  AnswersTrue
<1> SUFFICES ASSUME NEW c \in Calls
             PROVE  /\ answer[c] = "filled" => wire[c] = "sent"
                    /\ wire[c] = "sent" => Entered(c)
                    /\ Settled(c) /\ Entered(c) /\ answer[c] # "filled" =>
                         notes[c] \cap FollowUps # {}
                    /\ "pending_expired" \in notes[c] =>
                         /\ "pending_refused" \notin notes[c]
                         /\ \A e \in entered : e.lease = c => e.use = 1
  BY DEF AnswersTrue, Entered, FollowUps
<1>1. /\ answer[c] = "filled" => wire[c] = "sent"
      /\ wire[c] = "sent" => Entered(c)
  BY DEF TellingInv, ValuesGo
<1>2. ASSUME Settled(c), Entered(c), answer[c] # "filled"
      PROVE  notes[c] \cap FollowUps # {}
  <2>1. ToldOf(c)
    BY <1>2 DEF TellingInv, NotesInv, Settled
  <2> QED BY <1>2, <2>1 DEF ToldOf, Settled
<1>3. ASSUME "pending_expired" \in notes[c]
      PROVE  /\ "pending_refused" \notin notes[c]
             /\ \A e \in entered : e.lease = c => e.use = 1
  <2>1. "pending_refused" \notin notes[c] /\ \A b \in Calls : cont[b] # c
    BY <1>3 DEF TellingInv, NotesInv
  <2>2. ASSUME NEW e \in entered, e.lease = c
        PROVE  e.use = 1
    <3>1. e.call \in Calls /\ ApprovalOf(e.call) = c /\ e.use = UseOf(e.call)
      BY <2>2 DEF FillInv, RedeemedInv, Taken, EnteredFor
    <3>2. cont[e.call] = NoCall
      BY <2>1, <3>1 DEF ApprovalOf
    <3> QED BY <3>1, <3>2 DEF UseOf, StepOf
  <2> QED BY <2>1, <2>2
<1> QED BY <1>1, <1>2, <1>3

\* The agent is told of a fill only if the value went out; an entry it was not told of has
\* its follow-up; no value goes out unentered; and a first step is closed once, as expired
\* only if no second step was released. (wait_for_delivery against settle.)
THEOREM FillAnswersTrue == Spec => []AnswersTrue
<1> QED BY FillInvariant, FillTells, TellingIsTrue, PTL
=============================================================================
