------------------------------ MODULE AgentFill ------------------------------
(***************************************************************************)
(* Agent fills: an agent asks for a login to be written into a browser     *)
(* page (kagisecure-agent/src/extension/agent_fill.rs). Its request runs   *)
(* on a thread of the agent service; the page is behind a browser          *)
(* extension, served by a thread of the extension listener. The broker     *)
(* between the two holds one flow at a time, the grant an approval led to, *)
(* and the steps of two-page sign-ins that wait for their second page.     *)
(*                                                                         *)
(* Whatever the code does under the broker's mutex, the approval queue's   *)
(* or the vault handle's is one step; two of them with nothing but local   *)
(* work between are joined where the first only reads. There is one item;  *)
(* whether it can still be filled is asked each time and may be refused.   *)
(* Time limits are steps that may come at any time. The tripwire, notices, *)
(* the wording of entries, and the limits on an agent are left out: a      *)
(* request may be refused whenever a limit could refuse it. A sheet that is *)
(* answered without a person (a standing grant, a test login) is Pass.     *)
(***************************************************************************)
EXTENDS Integers, FiniteSets

CONSTANTS
  Agents,       \* sidecar processes that make them
  Asks,         \* the sets of fields they ask for
  Tabs,         \* tabs of a browser
  Shown,        \* the pages those tabs show
  MaxCalls,     \* bound: request_fill calls
  MaxSessions,  \* bound: connections of a browser extension
  MaxUnlocks,   \* bound: unlocks of the vault, the first one included
  MaxCleanups   \* bound: locks asked for, locks and revocations

Calls    == 1..MaxCalls      \* in the order they arrive
Sessions == 1..MaxSessions   \* in the order they register

Login == {"username", "password"}

\* A page by the boxes it has; the last one is on a site the item is not for.
Pages == {"whole", "first", "second", "elsewhere"}
Boxes(page) ==
  CASE page = "first"  -> {"username"}
    [] page = "second" -> {"password"}
    [] OTHER           -> Login
OnSite(page) == page # "elsewhere"

NoCall    == 0
NoSession == 0
NoTab     == "no tab"

ASSUME FillAssumption ==
  /\ Agents # {} /\ NoTab \notin Tabs /\ Shown \subseteq Pages
  /\ Asks \subseteq (SUBSET Login) \ {{}}
  /\ MaxCalls \in Nat /\ MaxSessions \in Nat
  /\ MaxUnlocks \in Nat \ {0} /\ MaxCleanups \in Nat

Cleaners == {"tool", "host", "app"}   \* the lock tool, the host, Revoke all

Place   == [session : Sessions, tab : Tabs, page : Pages]
NoPlace == [session |-> NoSession, tab |-> NoTab, page |-> "elsewhere"]

Flow == [call : Calls \cup {NoCall}, probe : BOOLEAN, waiting : SUBSET Sessions,
         reports : SUBSET Place, stored : BOOLEAN,
         to : Sessions \cup {NoSession},
         delivery : {"notYet", "waiting", "redeeming", "refused", "undelivered",
                     "locked", "released"},
         heard : {"nothing", "written", "failed", "gone", "replyFailed"}]
NoFlow == [call |-> NoCall, probe |-> FALSE, waiting |-> {}, reports |-> {},
           stored |-> FALSE, to |-> NoSession,
           delivery |-> "notYet", heard |-> "nothing"]

Phases  == {"idle", "gates", "locate", "probe", "sheet", "asking", "issue", "wait",
            "keep", "end", "done"}
Answers == {"none", "filled", "refused", "nothing"}
Notes   == {"not_delivered", "not_confirmed", "not_written", "reply_failed",
            "pending_expired", "pending_refused"}
Redeeming == [at : {"idle", "release", "settle", "reply", "closing"},
              call : Calls \cup {NoCall}, released : BOOLEAN]
Resting   == [at |-> "idle", call |-> NoCall, released |-> FALSE]

VARIABLES
  vault,        \* "here" in the handle of this unlock, or "gone" from it
  unlock,       \* which unlock this is; each has a handle and listeners of its own
  lockFlag,     \* lock_requested of this unlock's agent
  closed,       \* the approval queue refuses questions
  cleaning      \* cleaning[w]: the next thing cleaner w has to do

VARIABLES       \* the broker
  epoch,        \* lock_epoch
  sess,         \* sess[s]: "new", "on" (registered) or "off"
  flow,         \* the one flow in progress
  pending       \* first steps that wait for their second: the call, session_gone

VARIABLES       \* request threads
  phase,        \* phase[c]: where call c is
  ask,          \* ask[c]: the sidecar and the fields it asked for
  born,         \* born[c]: the unlock whose service took it
  began,        \* began[c]: lock_epoch when its flow began
  cont,         \* cont[c]: the first step it continues
  target,       \* target[c]: the place chosen for it
  sheet,        \* sheet[c]: the state of its approval sheet
  answer        \* answer[c]: what the agent was told

VARIABLES       \* extension threads
  listener,     \* listener[s]: the unlock whose listener took the connection
  thread,       \* thread[s]: the redemption session s is being served
  cleanups      \* counter, for the bound

VARIABLES       \* the audit log, and what the properties remember
  entered,      \* Allowed entries
  notes,        \* notes[c]: follow-ups of call c's entry
  wire,         \* wire[c]: the reply that carries the value: "none", "sent", "lost"
  consents      \* approvals, with what was approved

vaultVars   == <<vault, unlock, lockFlag, closed, cleaning, cleanups>>
brokerVars  == <<epoch, sess, flow, pending>>
callVars    == <<ask, born, began, cont, target, sheet>>
sessionVars == <<listener, thread>>
logVars     == <<entered, notes, wire, consents>>
vars == <<vaultVars, brokerVars, phase, callVars, answer, sessionVars, logVars>>

NoAsk == [agent |-> CHOOSE a \in Agents : TRUE, fields |-> Login]

TypeOK ==
  /\ vault \in {"here", "gone"} /\ unlock \in 1..MaxUnlocks
  /\ lockFlag \in BOOLEAN /\ closed \in BOOLEAN
  /\ cleaning \in [Cleaners -> {"idle", "deny", "revoke", "reopen"}]
  /\ epoch \in Nat /\ sess \in [Sessions -> {"new", "on", "off"}]
  /\ flow \in Flow
  /\ flow.stored => flow.delivery = "waiting" /\ flow.to # NoSession
  /\ pending \subseteq [call : Calls, gone : BOOLEAN]
  /\ phase \in [Calls -> Phases]
  /\ ask \in [Calls -> [agent : Agents, fields : SUBSET Login]]
  /\ born \in [Calls -> 0..MaxUnlocks] /\ began \in [Calls -> Nat]
  /\ cont \in [Calls -> Calls \cup {NoCall}] /\ target \in [Calls -> Place \cup {NoPlace}]
  /\ sheet \in [Calls -> {"none", "up", "allow", "deny", "locked"}]
  /\ answer \in [Calls -> Answers]
  /\ listener \in [Sessions -> 0..MaxUnlocks] /\ thread \in [Sessions -> Redeeming]
  /\ cleanups \in 0..MaxCleanups
  /\ notes \in [Calls -> SUBSET Notes]
  /\ wire \in [Calls -> {"none", "sent", "lost"}]
  /\ \A e \in entered :
       /\ e.call \in Calls /\ e.lease \in Calls /\ e.use \in {1, 2}
       /\ e.session \in Sessions /\ e.tab \in Tabs /\ e.fields \subseteq Login
  /\ \A a \in consents : a.call \in Calls /\ a.uses \in {1, 2}

Init ==
  /\ vault = "here" /\ unlock = 1 /\ lockFlag = FALSE /\ closed = FALSE
  /\ cleaning = [w \in Cleaners |-> "idle"] /\ cleanups = 0
  /\ epoch = 0 /\ sess = [s \in Sessions |-> "new"] /\ flow = NoFlow
  /\ pending = {}
  /\ phase = [c \in Calls |-> "idle"] /\ ask = [c \in Calls |-> NoAsk]
  /\ born = [c \in Calls |-> 0] /\ began = [c \in Calls |-> 0]
  /\ cont = [c \in Calls |-> NoCall] /\ target = [c \in Calls |-> NoPlace]
  /\ sheet = [c \in Calls |-> "none"]
  /\ answer = [c \in Calls |-> "none"]
  /\ listener = [s \in Sessions |-> 0] /\ thread = [s \in Sessions |-> Resting]
  /\ entered = {} /\ notes = [c \in Calls |-> {}]
  /\ wire = [c \in Calls |-> "none"] /\ consents = {}
-----------------------------------------------------------------------------
(* What a flow is about.                                                   *)

\* VaultHandle::is_unlocked, for the handle of unlock u.
Unlocked(u) == u = unlock /\ vault = "here"

Covers(page, fields) == fields \subseteq Boxes(page)

\* Page one of an identifier-first sign-in, for a request that names both fields.
TwoStep(c, page) == ask[c].fields = Login /\ page = "first"

StepOf(c) ==
  IF cont[c] # NoCall THEN "two"
  ELSE IF TwoStep(c, target[c].page) THEN "one" ELSE "whole"

\* What the redemption of c's grant writes, and the approval it spends.
Writes(c) ==
  CASE StepOf(c) = "one" -> {"username"}
    [] StepOf(c) = "two" -> {"password"}
    [] OTHER             -> ask[c].fields
ApprovalOf(c) == IF cont[c] # NoCall THEN cont[c] ELSE c
UseOf(c) == IF StepOf(c) = "two" THEN 2 ELSE 1

\* PendingStep::continued_by.
Continues(p, a, fields) ==
  /\ fields = {"password"} /\ ask[p.call].agent = a
  /\ began[p.call] = epoch /\ ~p.gone

Goto(c, next) == phase' = [phase EXCEPT ![c] = next]

\* record_best_effort of a follow-up of c's entry, on the handle of unlock u.
Noted(c, code, u) ==
  IF Unlocked(u) THEN [notes EXCEPT ![c] = @ \cup {code}] ELSE notes

\* FlowSlot::drop, with the answer.
End(c, told) ==
  /\ Goto(c, "done")
  /\ answer' = [answer EXCEPT ![c] = told]
  /\ flow' = NoFlow

\* A way out of serve: a continuation that wrote nothing leaves its follow-up.
Refuse(c, told) ==
  /\ End(c, told)
  /\ notes' = IF cont[c] # NoCall
                THEN Noted(cont[c], "pending_refused", born[c]) ELSE notes
-----------------------------------------------------------------------------
(* A request: gates 1 to 4.                                                *)

\* admit: the one flow slot, and the pending step the request continues.
Admit(c, a, fields) ==
  /\ phase[c] = "idle" /\ flow.call = NoCall
  /\ ask' = [ask EXCEPT ![c] = [agent |-> a, fields |-> fields]]
  /\ born' = [born EXCEPT ![c] = unlock]
  /\ began' = [began EXCEPT ![c] = epoch]
  /\ flow' = [NoFlow EXCEPT !.call = c]
  /\ LET steps == {p \in pending : Continues(p, a, fields)} IN
       IF steps = {} THEN UNCHANGED <<cont, pending>>
       ELSE \E p \in steps : /\ cont' = [cont EXCEPT ![c] = p.call]
                             /\ pending' = pending \ {p}
  /\ Goto(c, "gates")
  /\ UNCHANGED <<vaultVars, epoch, sess, target, sheet, answer,
                 sessionVars, logVars>>

\* Another fill is in progress, or a limit: a block, an earlier denial, the budget.
AdmitRefused(c) ==
  /\ phase[c] = "idle"
  /\ Goto(c, "done")
  /\ answer' = [answer EXCEPT ![c] = "refused"]
  /\ UNCHANGED <<vaultVars, brokerVars, callVars, sessionVars, logVars>>

\* Gates 2 to 4: the agent serves, and the item has what is asked for.
Gates(c) ==
  /\ phase[c] = "gates"
  /\ Unlocked(born[c]) /\ ~lockFlag
  /\ Goto(c, "locate")
  /\ UNCHANGED <<vaultVars, brokerVars, callVars, answer, sessionVars, logVars>>

\* Bad arguments, a lock, a vault file in dispute, or an item that is hidden,
\* gone, archived or without the field: the slot is dropped with what it holds.
GatesRefused(c) ==
  /\ phase[c] = "gates"
  /\ End(c, "refused")
  /\ UNCHANGED <<vaultVars, epoch, sess, pending, callVars, sessionVars,
                 logVars>>
-----------------------------------------------------------------------------
(* Gates 5 to 8: the browsers, the place, the sheet.                       *)

\* Whom to ask where the page is: every browser, or the one that had step one.
Browsers(c) ==
  {s \in Sessions : /\ sess[s] = "on"
                    /\ cont[c] # NoCall => s = target[cont[c]].session}

\* The audit pre-flight, and a Locate to every browser.
Locate(c) ==
  /\ phase[c] = "locate"
  /\ Unlocked(born[c]) /\ Browsers(c) # {}
  /\ flow' = [flow EXCEPT !.probe = TRUE, !.waiting = Browsers(c), !.reports = {}]
  /\ Goto(c, "probe")
  /\ UNCHANGED <<vaultVars, epoch, sess, pending, callVars, answer,
                 sessionVars, logVars>>

\* Entries that cannot be written, a lock, or no browser.
LocateRefused(c) ==
  /\ phase[c] = "locate"
  /\ Refuse(c, "refused")
  /\ UNCHANGED <<vaultVars, epoch, sess, pending, callVars, sessionVars,
                 entered, wire, consents>>

\* choose and choose_step_two. Among several eligible reports the one in front.
Eligible(c) ==
  {r \in flow.reports :
     /\ OnSite(r.page)
     /\ IF cont[c] = NoCall
          THEN Covers(r.page, ask[c].fields) \/ TwoStep(c, r.page)
          ELSE /\ r.session = target[cont[c]].session
               /\ r.tab = target[cont[c]].tab
               /\ Covers(r.page, {"password"})}

NotLockedSince(c) == began[c] = epoch /\ Unlocked(born[c])

\* Every browser has answered, or the window for it is over; the item is asked
\* again, and a lock meanwhile is found before the reports are read.
Choose(c, r) ==
  /\ phase[c] = "probe"
  /\ NotLockedSince(c)
  /\ r \in Eligible(c)
  /\ cont[c] = NoCall => sess[r.session] = "on"
  /\ target' = [target EXCEPT ![c] = r]
  /\ flow' = [flow EXCEPT !.probe = FALSE, !.waiting = {}, !.reports = {}]
  /\ Goto(c, IF cont[c] = NoCall THEN "sheet" ELSE "issue")
  /\ UNCHANGED <<vaultVars, epoch, sess, pending, ask, born, began, cont,
                 sheet, answer, sessionVars, logVars>>

\* The tab of step one did not report: this is a request of its own after all.
StepGone(c) ==
  /\ phase[c] = "probe" /\ cont[c] # NoCall
  /\ NotLockedSince(c)
  /\ \A r \in flow.reports : r.tab # target[cont[c]].tab
  /\ notes' = Noted(cont[c], "pending_refused", born[c])
  /\ cont' = [cont EXCEPT ![c] = NoCall]
  /\ flow' = [flow EXCEPT !.probe = FALSE, !.waiting = {}, !.reports = {}]
  /\ Goto(c, "locate")
  /\ UNCHANGED <<vaultVars, epoch, sess, pending, ask, born, began,
                 target, sheet, answer, sessionVars, entered, wire,
                 consents>>

\* A lock, an item that no longer fits, or no place to fill.
ChooseRefused(c) ==
  /\ phase[c] = "probe"
  /\ Refuse(c, "refused")
  /\ UNCHANGED <<vaultVars, epoch, sess, pending, callVars, sessionVars,
                 entered, wire, consents>>

\* What an approval of c covers: two redemptions when the sign-in has two pages.
Consent(c) ==
  [call |-> c, agent |-> ask[c].agent, fields |-> ask[c].fields,
   session |-> target[c].session, tab |-> target[c].tab, unlock |-> born[c],
   uses |-> IF StepOf(c) = "one" THEN 2 ELSE 1]

\* A standing grant's pass or a sealed test login stands for the sheet.
Pass(c) ==
  /\ phase[c] = "sheet"
  /\ consents' = consents \cup {Consent(c)}
  /\ Goto(c, "issue")
  /\ UNCHANGED <<vaultVars, brokerVars, callVars, answer, sessionVars, entered,
                 notes, wire>>

\* ApprovalQueue::ask.
Raise(c) ==
  /\ phase[c] = "sheet"
  /\ ~closed
  /\ sheet' = [sheet EXCEPT ![c] = "up"]
  /\ Goto(c, "asking")
  /\ UNCHANGED <<vaultVars, brokerVars, ask, born, began, cont, target,
                 answer, sessionVars, logVars>>

RaiseRefused(c) ==
  /\ phase[c] = "sheet"
  /\ closed
  /\ Refuse(c, "refused")
  /\ UNCHANGED <<vaultVars, epoch, sess, pending, callVars, sessionVars,
                 entered, wire, consents>>

\* The person; a sheet nobody answers in time is denied.
Decide(c, decision) ==
  /\ sheet[c] = "up"
  /\ sheet' = [sheet EXCEPT ![c] = decision]
  /\ consents' = IF decision = "allow" THEN consents \cup {Consent(c)} ELSE consents
  /\ UNCHANGED <<vaultVars, brokerVars, phase, ask, born, began, cont, target,
                 answer, sessionVars, entered, notes, wire>>

Approved(c) ==
  /\ phase[c] = "asking" /\ sheet[c] = "allow"
  /\ sheet' = [sheet EXCEPT ![c] = "none"]
  /\ Goto(c, "issue")
  /\ UNCHANGED <<vaultVars, brokerVars, ask, born, began, cont, target, answer,
                 sessionVars, logVars>>

NotApproved(c) ==
  /\ phase[c] = "asking" /\ sheet[c] \in {"deny", "locked"}
  /\ sheet' = [sheet EXCEPT ![c] = "none"]
  /\ Refuse(c, "refused")
  /\ UNCHANGED <<vaultVars, epoch, sess, pending, ask, born, began, cont, target,
                 sessionVars, entered, wire, consents>>
-----------------------------------------------------------------------------
(* Gate 9: the grant, and what becomes of it.                              *)

\* deliver: the grant, unless a lock came first, and a Deliver to the session.
Issue(c) ==
  /\ phase[c] = "issue"
  /\ NotLockedSince(c) /\ sess[target[c].session] = "on"
  /\ \E rung \in BOOLEAN :
       /\ flow' = [flow EXCEPT !.to = target[c].session, !.stored = rung,
                              !.delivery = IF rung THEN "waiting" ELSE "undelivered"]
  /\ Goto(c, "wait")
  /\ UNCHANGED <<vaultVars, epoch, sess, pending, callVars, answer,
                 sessionVars, logVars>>

IssueRefused(c) ==
  /\ phase[c] = "issue"
  /\ ~NotLockedSince(c) \/ sess[target[c].session] # "on"
  /\ Refuse(c, "nothing")
  /\ UNCHANGED <<vaultVars, epoch, sess, pending, callVars, sessionVars,
                 entered, wire, consents>>

\* A wait with no deadline for a redemption.
GiveUpUnredeemed(c) ==
  /\ phase[c] = "wait"
  /\ flow.delivery = "waiting"
  /\ flow' = [flow EXCEPT !.stored = FALSE, !.delivery = "undelivered"]
  /\ UNCHANGED <<vaultVars, epoch, sess, pending, phase, callVars, answer, sessionVars,
                 logVars>>

\* wait_for_delivery: the grant has expired, or the redemption's deadline is over.
GiveUp(c) ==
  /\ phase[c] = "wait"
  /\ flow.delivery \in {"waiting", "redeeming"}
  /\ flow' = [flow EXCEPT !.stored = FALSE, !.delivery = "undelivered"]
  /\ UNCHANGED <<vaultVars, epoch, sess, pending, phase, callVars, answer,
                 sessionVars, logVars>>

\* wait_for_delivery's answer, when nothing was released.
ConcludeUnfilled(c) ==
  /\ phase[c] = "wait"
  /\ flow.delivery \in {"refused", "undelivered", "locked"}
  /\ Refuse(c, "nothing")
  /\ UNCHANGED <<vaultVars, epoch, sess, pending, callVars, sessionVars,
                 entered, wire, consents>>

\* The page wrote the fields. The approval of a first step is kept for the second.
ConcludeFilled(c) ==
  /\ phase[c] = "wait"
  /\ flow.delivery = "released" /\ flow.heard = "written"
  /\ answer' = [answer EXCEPT ![c] = "filled"]
  /\ Goto(c, IF StepOf(c) = "one" /\ began[c] = epoch THEN "keep" ELSE "end")
  /\ UNCHANGED <<vaultVars, brokerVars, callVars, sessionVars, logVars>>

\* It did not, its session went, its reply was lost, or it says nothing in time.
ConcludeReleased(c) ==
  /\ phase[c] = "wait"
  /\ flow.delivery = "released" /\ flow.heard # "written"
  /\ answer' = [answer EXCEPT ![c] = "nothing"]
  /\ notes' = CASE flow.heard = "replyFailed" -> notes
               [] flow.heard = "failed" -> Noted(c, "not_written", born[c])
               [] OTHER -> Noted(c, "not_confirmed", born[c])
  /\ Goto(c, "end")
  /\ UNCHANGED <<vaultVars, brokerVars, callVars, sessionVars, entered, wire,
                 consents>>

\* keep_pending, which compares the epochs again.
Keep(c) ==
  /\ phase[c] = "keep"
  /\ pending' = IF began[c] = epoch
                  THEN pending \cup {[call |-> c, gone |-> FALSE]} ELSE pending
  /\ Goto(c, "end")
  /\ UNCHANGED <<vaultVars, epoch, sess, flow, callVars, answer,
                 sessionVars, logVars>>

\* serve_step_two's last word, and the drop of the slot.
Finish(c) ==
  /\ phase[c] = "end"
  /\ IF answer[c] = "filled" THEN End(c, "filled") /\ UNCHANGED notes
                              ELSE Refuse(c, "nothing")
  /\ UNCHANGED <<vaultVars, epoch, sess, pending, callVars, sessionVars,
                 entered, wire, consents>>
-----------------------------------------------------------------------------
(* The extension. A request passed the check that the vault of its listener *)
(* is unlocked at some time before the step it is served by.               *)

\* Hello, register.
Connect(s) ==
  /\ sess[s] = "new" /\ \A r \in 1..(s - 1) : sess[r] # "new"
  /\ sess' = [sess EXCEPT ![s] = "on"]
  /\ listener' = [listener EXCEPT ![s] = unlock]
  /\ UNCHANGED <<vaultVars, epoch, flow, pending, phase, callVars, answer,
                 thread, logVars>>

Served(s) == sess[s] = "on" /\ thread[s].at = "idle" /\ listener[s] = unlock

\* TargetReport.
Report(s, tab, page) ==
  /\ Served(s)
  /\ flow.probe /\ s \in flow.waiting
  /\ flow' = [flow EXCEPT !.waiting = @ \ {s},
                         !.reports = @ \cup {[session |-> s, tab |-> tab,
                                             page |-> page]}]
  /\ UNCHANGED <<vaultVars, epoch, sess, pending, phase, callVars, answer,
                 sessionVars, logVars>>

Serve(s, next, c, released) ==
  thread' = [thread EXCEPT ![s] = [at |-> next, call |-> c, released |-> released]]

\* The grant's page and tab, whichever session asks.
MatchesInAnySession(c, s, tab, page) ==
  <<tab, page>> = <<target[c].tab, target[c].page>> /\ Covers(page, Writes(c))

\* still_matches.
Matches(c, s, tab, page) ==
  /\ [session |-> s, tab |-> tab, page |-> page] = target[c]
  /\ Covers(page, Writes(c))

\* AgentFill: the grant is taken out, once, and the redemption compared with it.
Redeem(s, c, tab, page) ==
  /\ Served(s)
  /\ flow.call = c /\ flow.stored
  /\ flow' = [flow EXCEPT !.stored = FALSE, !.delivery = "redeeming"]
  /\ Serve(s, IF Matches(c, s, tab, page) THEN "release" ELSE "settle", c, FALSE)
  /\ UNCHANGED <<vaultVars, epoch, sess, pending, phase, callVars, answer,
                 listener, logVars>>

\* The vault file is in dispute: the grant is spent, and the redemption refused.
Abandon(s, c) ==
  /\ Served(s)
  /\ flow.call = c /\ flow.stored
  /\ flow' = [flow EXCEPT !.stored = FALSE]
  /\ Serve(s, "settle", c, FALSE)
  /\ UNCHANGED <<vaultVars, epoch, sess, pending, phase, callVars, answer,
                 listener, logVars>>

\* The transaction, on a copy of the vault that a lock does not reach.
ReleaseFromCopy(s) ==
  LET c == thread[s].call IN
  /\ thread[s].at = "release"
  /\ entered' = entered \cup
       {[call |-> c, lease |-> ApprovalOf(c), use |-> UseOf(c),
         fields |-> Writes(c), agent |-> ask[c].agent, session |-> s,
         tab |-> target[c].tab, unlock |-> listener[s],
         seq |-> Cardinality(entered) + 1]}
  /\ Serve(s, "settle", c, TRUE)
  /\ UNCHANGED <<vaultVars, brokerVars, phase, callVars, answer, listener, notes, wire,
                 consents>>

\* The transaction of audited_release: the item as it is now, and the entry.
Release(s) ==
  LET c == thread[s].call IN
  /\ thread[s].at = "release"
  /\ Unlocked(listener[s])
  /\ entered' = entered \cup
       {[call |-> c, lease |-> ApprovalOf(c), use |-> UseOf(c),
         fields |-> Writes(c), agent |-> ask[c].agent, session |-> s,
         tab |-> target[c].tab, unlock |-> listener[s],
         seq |-> Cardinality(entered) + 1]}
  /\ Serve(s, "settle", c, TRUE)
  /\ UNCHANGED <<vaultVars, brokerVars, phase, callVars, answer, listener, notes, wire,
                 consents>>

\* The grant has expired, the sidecar has ended, a lock, an entry that cannot be
\* written, or an item that no longer passes.
RedeemRefused(s) ==
  /\ thread[s].at = "release"
  /\ Serve(s, "settle", thread[s].call, FALSE)
  /\ UNCHANGED <<vaultVars, brokerVars, phase, callVars, answer, listener, logVars>>

\* The value goes whether or not the flow still waits.
SettleUnasked(s) ==
  LET c == thread[s].call IN
  /\ thread[s].at = "settle"
  /\ flow' = IF flow.call # c \/ flow.delivery # "redeeming" THEN flow
             ELSE [flow EXCEPT !.delivery =
                     IF thread[s].released THEN "released" ELSE "refused"]
  /\ thread' = [thread EXCEPT ![s] =
       IF thread[s].released THEN [@ EXCEPT !.at = "reply"] ELSE Resting]
  /\ UNCHANGED <<vaultVars, epoch, sess, pending, phase, callVars, answer, listener,
                 logVars>>

\* settle: whether the flow still waits for this grant decides if the value goes.
Settle(s) ==
  LET c     == thread[s].call
      taken == /\ flow.call = c /\ flow.to # NoSession
               /\ flow.delivery \in {"waiting", "redeeming"} IN
  /\ thread[s].at = "settle"
  /\ flow' = IF ~taken THEN flow
             ELSE [flow EXCEPT !.delivery =
                     IF thread[s].released THEN "released" ELSE "refused"]
  /\ thread' = [thread EXCEPT ![s] =
       IF thread[s].released /\ taken THEN [@ EXCEPT !.at = "reply"] ELSE Resting]
  /\ notes' = IF thread[s].released /\ ~taken
                THEN Noted(c, "not_delivered", listener[s]) ELSE notes
  /\ UNCHANGED <<vaultVars, epoch, sess, pending, phase, callVars, answer,
                 listener, entered, wire, consents>>

\* write_response, of the value.
Reply(s) ==
  /\ thread[s].at = "reply"
  /\ wire' = [wire EXCEPT ![thread[s].call] = "sent"]
  /\ thread' = [thread EXCEPT ![s] = Resting]
  /\ UNCHANGED <<vaultVars, brokerVars, phase, callVars, answer, listener, entered, notes,
                 consents>>

\* reply_failed: the frame did not go out, and the connection ends.
ReplyFails(s) ==
  LET c == thread[s].call IN
  /\ thread[s].at = "reply"
  /\ wire' = [wire EXCEPT ![c] = "lost"]
  /\ notes' = Noted(c, "reply_failed", listener[s])
  /\ flow' = IF flow.call = c /\ flow.delivery = "released"
               THEN [flow EXCEPT !.heard = "replyFailed"] ELSE flow
  /\ Serve(s, "closing", NoCall, FALSE)
  /\ UNCHANGED <<vaultVars, epoch, sess, pending, phase, callVars, answer,
                 listener, entered, consents>>

\* AgentFillOutcome, for the grant this session was given.
Outcome(s, c, told) ==
  /\ Served(s)
  /\ flow.call = c /\ flow.to = s
  /\ \/ /\ flow.delivery = "waiting"
        /\ flow' = [flow EXCEPT !.stored = FALSE, !.delivery = "undelivered"]
     \/ /\ flow.delivery = "released" /\ flow.heard = "nothing"
        /\ flow' = [flow EXCEPT !.heard = told]
  /\ UNCHANGED <<vaultVars, epoch, sess, pending, phase, callVars, answer,
                 sessionVars, logVars>>

\* The connection ends, or its thread panics in a redemption: deregister.
Close(s) ==
  /\ sess[s] = "on" /\ thread[s].at \in {"idle", "release", "closing"}
  /\ sess' = [sess EXCEPT ![s] = "off"]
  /\ thread' = [thread EXCEPT ![s] = Resting]
  /\ pending' = {IF target[p.call].session = s THEN [p EXCEPT !.gone = TRUE] ELSE p
                  : p \in pending}
  /\ flow' =
       LET mine == flow.to = s
           lost == mine /\ (flow.stored \/ flow.delivery = "redeeming")
       IN [flow EXCEPT !.waiting = @ \ {s},
                       !.stored = @ /\ ~mine,
                       !.delivery = IF lost THEN "undelivered" ELSE @,
                       !.heard = IF mine /\ flow.delivery = "released" /\ @ = "nothing"
                                   THEN "gone" ELSE @]
  /\ UNCHANGED <<vaultVars, epoch, phase, callVars, answer, listener, logVars>>
\* watch_pending: the session is gone, or the flow window has closed.
EndPending(c) ==
  \E p \in pending :
    /\ p.call = c
    /\ pending' = pending \ {p}
    /\ notes' = Noted(c, "pending_expired", born[c])
    /\ UNCHANGED <<vaultVars, epoch, sess, flow, phase, callVars, answer,
                   sessionVars, entered, wire, consents>>
-----------------------------------------------------------------------------
(* Locks and revocations. Each first denies the questions, then revokes.   *)

CleanupBegins(w) ==
  /\ cleaning[w] = "idle" /\ cleanups < MaxCleanups
  /\ cleaning' = [cleaning EXCEPT ![w] = "deny"]
  /\ cleanups' = cleanups + 1
  /\ UNCHANGED <<unlock, closed, brokerVars, phase, callVars, answer, sessionVars,
                 logVars>>

\* Service::lock, the lock tool.
LockTool ==
  /\ CleanupBegins("tool")
  /\ vault = "here" /\ ~lockFlag
  /\ lockFlag' = TRUE
  /\ UNCHANGED vault

\* VaultHandle::take, and the hook it runs.
TakeVault ==
  /\ CleanupBegins("host")
  /\ vault = "here"
  /\ vault' = "gone"
  /\ UNCHANGED lockFlag

\* Agent::revoke_all_leases.
RevokeAll ==
  /\ CleanupBegins("app")
  /\ UNCHANGED <<vault, lockFlag>>

\* ApprovalQueue::deny_all, which sweeps answers not yet picked up as well.
DenyAll(w) ==
  /\ cleaning[w] = "deny"
  /\ closed' = TRUE
  /\ sheet' = [c \in Calls |-> IF sheet[c] = "none" THEN "none" ELSE "locked"]
  /\ cleaning' = [cleaning EXCEPT ![w] = "revoke"]
  /\ UNCHANGED <<vault, unlock, lockFlag, cleanups, brokerVars, phase, ask, born,
                 began, cont, target, answer, sessionVars, logVars>>

\* revoke_all, with the grant left in its flow.
RevokeUntaken(w) ==
  /\ cleaning[w] = "revoke"
  /\ epoch' = epoch + 1
  /\ flow' = IF flow.stored THEN [flow EXCEPT !.delivery = "locked"] ELSE flow
  /\ pending' = {}
  /\ cleaning' = [cleaning EXCEPT ![w] = IF w = "app" THEN "reopen" ELSE "idle"]
  /\ UNCHANGED <<vault, unlock, lockFlag, closed, cleanups, sess, phase, callVars,
                 answer, sessionVars, logVars>>

\* revoke_all of the broker.
RevokeGrants(w) ==
  /\ cleaning[w] = "revoke"
  /\ epoch' = epoch + 1
  /\ flow' = IF flow.stored THEN [flow EXCEPT !.stored = FALSE, !.delivery = "locked"]
                            ELSE flow
  /\ pending' = {}
  /\ cleaning' = [cleaning EXCEPT ![w] = IF w = "app" THEN "reopen" ELSE "idle"]
  /\ UNCHANGED <<vault, unlock, lockFlag, closed, cleanups, sess, phase,
                 callVars, answer, sessionVars, logVars>>

Reopen(w) ==
  /\ cleaning[w] = "reopen"
  /\ closed' = FALSE
  /\ cleaning' = [cleaning EXCEPT ![w] = "idle"]
  /\ UNCHANGED <<vault, unlock, lockFlag, cleanups, brokerVars, phase, callVars,
                 answer, sessionVars, logVars>>

\* An unlock: a new handle, and a new agent, which opens the queue.
Unlock ==
  /\ vault = "gone" /\ cleaning["host"] = "idle" /\ unlock < MaxUnlocks
  /\ unlock' = unlock + 1 /\ vault' = "here" /\ lockFlag' = FALSE /\ closed' = FALSE
  /\ UNCHANGED <<cleaning, cleanups, brokerVars, phase, callVars, answer, sessionVars,
                 logVars>>
-----------------------------------------------------------------------------
Request(c) ==
  /\ \A d \in 1..(c - 1) : phase[d] # "idle"
  /\ AdmitRefused(c) \/ \E a \in Agents, fields \in Asks : Admit(c, a, fields)

Work(c) ==
  \/ Gates(c) \/ GatesRefused(c) \/ Locate(c) \/ LocateRefused(c)
  \/ (\E r \in flow.reports : Choose(c, r)) \/ StepGone(c) \/ ChooseRefused(c)
  \/ Pass(c) \/ Raise(c) \/ RaiseRefused(c) \/ Approved(c) \/ NotApproved(c)
  \/ Issue(c) \/ IssueRefused(c) \/ GiveUp(c)
  \/ ConcludeUnfilled(c) \/ ConcludeFilled(c) \/ ConcludeReleased(c)
  \/ Keep(c) \/ Finish(c)

ExtensionStep(s) ==
  \/ Connect(s) \/ Close(s)
  \/ Release(s) \/ RedeemRefused(s) \/ Settle(s) \/ Reply(s) \/ ReplyFails(s)
  \/ \E tab \in Tabs, page \in Shown : Report(s, tab, page)
  \/ \E c \in Calls :
       \/ Abandon(s, c)
       \/ \E tab \in Tabs, page \in Shown : Redeem(s, c, tab, page)
       \/ \E told \in {"written", "failed"} : Outcome(s, c, told)

Cleaning(w) == DenyAll(w) \/ RevokeGrants(w) \/ Reopen(w)

Next ==
  \/ \E c \in Calls :
       \/ Request(c) \/ Work(c) \/ EndPending(c)
       \/ \E decision \in {"allow", "deny"} : Decide(c, decision)
  \/ \E s \in Sessions : ExtensionStep(s)
  \/ LockTool \/ TakeVault \/ RevokeAll \/ Unlock
  \/ \E w \in Cleaners : Cleaning(w)

Spec == Init /\ [][Next]_vars

\* A request thread that can go on does: its probe, its grant and its waits are
\* bounded in time, and a sheet nobody answers is denied. Nothing is expected of the
\* person, the extension, its threads or the agent.
Fairness == \A c \in Calls : WF_vars(Work(c)) /\ WF_vars(Decide(c, "deny"))

FairSpec == Spec /\ Fairness
-----------------------------------------------------------------------------
(* Properties.                                                             *)

\* What an extension gets was approved: for the agent, the tab and the session the
\* person saw, in the same unlock, no more than the fields asked for, and no field
\* twice. (still_matches, the flow window, and what keep_pending hands on.)
ReleasedToApproved ==
  \A e \in entered : \E a \in consents :
    /\ a.call = e.lease
    /\ a.agent = e.agent /\ a.session = e.session /\ a.tab = e.tab
    /\ a.unlock = e.unlock
    /\ e.fields \subseteq a.fields
    /\ \A f \in entered : f.lease = e.lease /\ f # e => f.fields \cap e.fields = {}

\* The promise of ReleaseGate, for the first unlock: its approvals grant one use, or
\* two to a sign-in in two pages; a release spends one use of one approval, and none
\* follows once the vault has left that unlock's handle, in a later unlock either.
InFirst(set) == {x \in set : x.unlock = 1}
Gate == INSTANCE ReleaseGate WITH
  gate     <- IF Unlocked(1) THEN "open" ELSE "shut",
  granted  <- [c \in Calls |-> IF \E a \in InFirst(consents) : a.call = c
                 THEN (CHOOSE a \in InFirst(consents) : a.call = c).uses
                 ELSE 0],
  released <- {[call |-> e.call, lease |-> e.lease, use |-> e.use] :
                 e \in InFirst(entered)}
ImplementsGate == Gate!GateSpec

\* An ended call whose vault never left, with no redemption of it left running.
Settled(c) ==
  /\ phase[c] = "done" /\ Unlocked(born[c])
  /\ \A s \in Sessions : thread[s].call # c

\* The agent is told of a fill only if the value went out; an entry of a fill the
\* agent was not told of has a follow-up that says so; no value goes out without an
\* entry; and the first step of a sign-in is closed once, as expired only if no
\* second step was released. (wait_for_delivery against settle, REDEEM_DEADLINE.)
AnswersTrue ==
  \A c \in Calls :
    /\ answer[c] = "filled" => wire[c] = "sent"
    /\ wire[c] = "sent" => \E e \in entered : e.call = c
    /\ Settled(c) /\ (\E e \in entered : e.call = c) /\ answer[c] # "filled" =>
         notes[c] \cap {"not_delivered", "not_confirmed", "not_written",
                       "reply_failed"} # {}
    /\ "pending_expired" \in notes[c] =>
         /\ "pending_refused" \notin notes[c]
         /\ \A e \in entered : e.lease = c => e.use = 1

\* A request is answered, whatever the browser, the person and the agent do, and also
\* when the thread of its redemption never comes back. (wait_for_delivery.)
FlowsEnd == \A c \in Calls : phase[c] # "idle" ~> phase[c] = "done"

\* The documented follow-up of a first step whose second was refused: "the pending
\* step is spent", and its entry says so. (AGENT_FILL_PENDING_REFUSED.)
RefusedStepsRecorded ==
  \A c \in Calls :
    Settled(c) /\ began[c] = epoch /\ StepOf(c) = "one" /\ answer[c] = "filled" =>
      \/ \E p \in pending : p.call = c
      \/ \E d \in Calls : cont[d] = c /\ phase[d] # "done"
      \/ \E e \in entered : e.lease = c /\ e.use = 2
      \/ notes[c] \cap {"pending_expired", "pending_refused"} # {}
-----------------------------------------------------------------------------
(* Why ReleasedToApproved and ImplementsGate hold: an inductive invariant.  *)

\* Past the grant; asked, with nothing about the call changing any more.
Granted == {"wait", "keep", "end", "done"}
Decided == {"asking", "issue"} \cup Granted

\* One flow at a time, and its grant is of the call that waits for it.
FlowInv ==
  /\ \A c \in Calls : phase[c] \notin {"idle", "done"} => flow.call = c
  /\ flow.stored => /\ flow.call \in Calls /\ phase[flow.call] = "wait"
                    /\ flow.to = target[flow.call].session
  /\ \A c \in Calls : phase[c] \in {"sheet", "asking", "issue"} => target[c] \in Place

\* An approval says what its call is about, and is given once.
ConsentsInv ==
  /\ \A c \in Calls : sheet[c] # "none" => phase[c] = "asking"
  /\ \A c \in Calls : sheet[c] = "allow" => Consent(c) \in consents
  /\ \A c \in Calls : phase[c] \in {"sheet", "asking"} => cont[c] = NoCall
  /\ \A a \in consents :
       /\ phase[a.call] \in Decided /\ sheet[a.call] # "up"
       /\ a = Consent(a.call) /\ cont[a.call] = NoCall

\* What a call may be given stands on an approval for the same tab and session.
Backed(c) ==
  /\ Consent(ApprovalOf(c)) \in consents
  /\ target[c].session = target[ApprovalOf(c)].session
  /\ target[c].tab = target[ApprovalOf(c)].tab

\* A first step is kept once and continued once, by its agent in its unlock.
Continuation(c, d) ==
  /\ phase[d] \in {"end", "done"} /\ StepOf(d) = "one" /\ Backed(d)
  /\ \A p \in pending : p.call # d
  /\ \A b \in Calls : cont[b] = d => b = c
  /\ ask[c].fields = {"password"}
  /\ ask[c].agent = ask[d].agent /\ born[c] = born[d]

StepsInv ==
  /\ \A p \in pending :
       /\ phase[p.call] \in {"end", "done"} /\ StepOf(p.call) = "one" /\ Backed(p.call)
       /\ \A q \in pending : q.call = p.call => q = p
  /\ \A c \in Calls : phase[c] = "idle" => cont[c] = NoCall
  /\ \A c \in Calls : phase[c] = "keep" => StepOf(c) = "one"
  /\ \A c \in Calls : cont[c] # NoCall => Continuation(c, cont[c])

\* Nothing granted in an unlock outlives it: its handle's hook takes it away.
Lives(u) == unlock = u /\ (vault = "gone" => cleaning["host"] # "idle")
UnlockInv ==
  /\ cleaning["host"] # "reopen"
  /\ flow.stored => Lives(born[flow.call])
  /\ \A p \in pending : Lives(born[p.call])
  /\ \A c \in Calls :
       /\ began[c] <= epoch
       /\ phase[c] \in {"wait", "keep"} /\ began[c] = epoch => Lives(born[c])

\* A grant is stored, being redeemed, or entered: one of them, and once.
Taken(c) == c \in Calls /\ phase[c] \in Granted /\ ~(flow.stored /\ flow.call = c)
Releasing(s, c) ==
  /\ Backed(c) /\ target[c] \in Place
  /\ target[c].session = s /\ born[c] = listener[s]
  /\ \A e \in entered : e.call # c
EnteredFor(e, c) ==
  /\ Backed(c)
  /\ e.lease = ApprovalOf(c) /\ e.use = UseOf(c) /\ e.fields = Writes(c)
  /\ e.agent = ask[c].agent /\ e.unlock = born[c]
  /\ e.session = target[c].session /\ e.tab = target[c].tab

RedeemedInv ==
  /\ \A c \in Calls : phase[c] \in {"issue", "wait", "keep"} => Backed(c)
  /\ \A s \in Sessions :
       /\ thread[s].at \in {"release", "settle"} => sess[s] = "on" /\ Taken(thread[s].call)
       /\ thread[s].at = "release" => Releasing(s, thread[s].call)
  /\ \A e \in entered :
       /\ Taken(e.call) /\ EnteredFor(e, e.call)
       /\ \A f \in entered : f.call = e.call => f = e

FillInv ==
  /\ TypeOK /\ FlowInv /\ ConsentsInv /\ StepsInv /\ UnlockInv /\ RedeemedInv

\* What the flow has heard of its call: the deliverer's answer, the value's way out,
\* and a reply that failed, which left its note.
FlowHears ==
  LET c == flow.call IN
  /\ flow.delivery # "notYet" =>
       c \in Calls /\ flow.to = target[c].session /\ phase[c] \in {"wait", "keep", "end"}
  /\ flow.delivery \in {"waiting", "redeeming"} => phase[c] = "wait"
  /\ flow.heard # "nothing" => flow.delivery = "released"
  /\ flow.heard \in {"written", "failed"} => wire[c] = "sent"
  /\ flow.heard = "replyFailed" /\ Unlocked(born[c]) => "reply_failed" \in notes[c]
  /\ flow.delivery = "released" =>
       \/ wire[c] = "sent" \/ flow.heard = "replyFailed"
       \/ \E s \in Sessions : s = flow.to /\ thread[s].at = "reply" /\ thread[s].call = c

\* A value that was released and has not gone out is with the session approved for it.
Entered(c) == \E e \in entered : e.call = c
OnItsWay(s, c) ==
  /\ c \in Calls /\ phase[c] \in Granted
  /\ Entered(c) /\ wire[c] = "none"
  /\ sess[s] = "on" /\ target[c].session = s /\ listener[s] = born[c]

ValuesGo ==
  /\ \A s \in Sessions :
       /\ thread[s].at = "reply" => thread[s].released
       /\ thread[s].released => thread[s].at \in {"settle", "reply"}
       /\ thread[s].released => OnItsWay(s, thread[s].call)
  /\ \A c \in Calls :
       /\ wire[c] # "none" => Entered(c)
       /\ answer[c] = "filled" => wire[c] = "sent" /\ phase[c] \in {"keep", "end", "done"}

\* An entry has its settlement or its conclusion to come, or was told of.
FollowUps == {"not_delivered", "not_confirmed", "not_written", "reply_failed"}
ToldOf(c) ==
  \/ \E s \in Sessions :
       thread[s].at = "settle" /\ thread[s].released /\ thread[s].call = c
  \/ flow.call = c /\ flow.delivery = "released" /\ phase[c] = "wait"
  \/ answer[c] = "filled"
  \/ notes[c] \cap FollowUps # {}

\* A first step that was closed is over, and is not closed again.
Over(c) == phase[c] \in {"end", "done"} /\ \A p \in pending : p.call # c

NotesInv ==
  \A c \in Calls :
    /\ born[c] <= unlock
    /\ Entered(c) /\ Unlocked(born[c]) => ToldOf(c)
    /\ "pending_refused" \in notes[c] => Over(c)
    /\ "pending_expired" \in notes[c] =>
         Over(c) /\ "pending_refused" \notin notes[c] /\ \A b \in Calls : cont[b] # c

TellingInv == FlowHears /\ ValuesGo /\ NotesInv
=============================================================================
