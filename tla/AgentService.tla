---------------------------- MODULE AgentService ----------------------------
(***************************************************************************)
(* The agent: one thread per connection serves requests that release       *)
(* values (kagisecure-agent/src/service.rs) against leases                 *)
(* (kagisecure-core/src/lease.rs), an approval queue (approval.rs), a      *)
(* vault that may be taken away (vault.rs), the audit entry that comes     *)
(* before each release (release.rs) and the children it started            *)
(* (children.rs). Locking, stopping and revoking (agent.rs) run on other   *)
(* threads at any time.                                                    *)
(*                                                                         *)
(* Whatever the code does inside one critical section (the lease store,    *)
(* the queue, the registry of children) is one step. The vault handle's    *)
(* mutex is a variable, because a transaction holds it from its check of   *)
(* the lock flag to the audit entry on disk. Names, directories, variables *)
(* and commands are one "place"; best-effort audit entries, which change   *)
(* no reply, are left to VaultFile's queue of drafts; brokers and machine  *)
(* vaults are emptied together with what is modelled here.                 *)
(***************************************************************************)
EXTENDS Integers, Sequences, FiniteSets

CONSTANTS
  Threads,       \* connection threads
  Places,        \* target files (for a command: its directory and argv)
  Kinds,         \* the tools called: "write", "run" (environment), "stdin"
  SessionUses,   \* uses of a lease granted for the session
  MaxCalls,      \* bound: releases asked for
  MaxFaults,     \* bound: writes of the vault or of a file that fail
  MaxCleanups,   \* bound: locks, revocations and stops begun
  MaxUserFiles   \* bound: files the user puts at a place

AllKinds == {"write", "run", "stdin"}

NoThread == "nobody"
App      == "app"     \* calls revoke_lease, revoke_all_leases and stop
Host     == "host"    \* takes the vault out of the handle
Workers  == Threads \cup {App, Host}

ASSUME AgentAssumption ==
  /\ Kinds \subseteq AllKinds /\ Places # {}
  /\ SessionUses \in Nat \ {0}
  /\ {MaxCalls, MaxFaults, MaxCleanups, MaxUserFiles} \subseteq Nat
  /\ Threads \cap {NoThread, App, Host} = {}

\* A call is numbered. The lease it mints and the file it writes have its number.
Ids    == 1..MaxCalls
NoFile == 0
Theirs == -1          \* a file kagisecure did not write
Files  == Ids \cup {NoFile, Theirs}
Entry  == [place : Places, file : Files]
Scope  == [kind : {"write", "run"}, place : Places]
Ask    == [kind : AllKinds, place : Places, overwrite : BOOLEAN]

Phases == {"idle", "look", "reserve", "preflight", "ask", "waiting", "grant",
           "prepare", "commit", "undo", "write", "rename", "record", "gate", "spawn",
           "register", "wait", "after", "locking", "revoking", "clean"}
Answers  == {"none", "waiting", "deny", "once", "session"}
Cleaning == {"deny", "revoke", "kill", "reopen", "audit", "unhook", "unlatch"}

VARIABLES
  vault,         \* "here", or "taken" out of the handle
  holder,        \* the thread whose transaction holds the handle's mutex
  lockFlag,      \* lock_requested
  stopFlag,      \* stopping
  hook,          \* the agent's lock hook: "set", "running" or "gone"
  closed,        \* the approval queue refuses new questions
  pending,       \* pending[t]: the answer to t's question, "none" if not queued
  store,         \* the leases in the lease store
  uses,          \* uses[l]: uses_remaining of lease l (0 once it expired)
  scope,         \* scope[l]: what lease l covers
  wrote,         \* wrote[l]: places written under lease l
  ledger,        \* ledger[p]: the file recorded as written at p
  disk,          \* disk[p]: the file that is there
  registry,      \* threads whose child is registered
  drained,       \* the registry was drained and refuses children
  child,         \* child[t]: "none", "running" or "dying"
  phase,         \* phase[t]: where thread t is in its request
  call,          \* call[t]: the number of its call
  ask,           \* ask[t]: what is asked for
  unowned,       \* unowned[t]: it would replace a file kagisecure did not write
  agreed,        \* agreed[t]: the uses the person agreed to
  lease,         \* lease[t]: the lease its reservation is of, 0 for none
  use,           \* use[t]: which use of that lease was set aside
  todo,          \* todo[w]: what w's cleanup has left to do
  doomed         \* doomed[w]: ledger entries w is shredding

VARIABLES calls, faults, cleanups, userFiles   \* counters, for the bounds

\* History, read by the properties only.
VARIABLES
  granted,       \* granted[l]: uses lease l was granted with, 0 if never granted
  released,      \* the Allowed entries: call, lease and use
  allows,        \* calls a person answered with an allow
  overtaken      \* files whose ledger entry a slower writer replaced

vaultVars  == <<vault, holder, lockFlag, stopFlag, hook>>
leaseVars  == <<store, uses, scope, wrote>>
fileVars   == <<ledger, disk>>
childVars  == <<registry, drained, child>>
callVars   == <<call, ask, unowned>>
grantVars  == <<agreed, lease, use>>
cleanVars  == <<todo, doomed>>
countVars  == <<calls, faults, cleanups, userFiles>>
histVars   == <<granted, released, allows, overtaken>>
vars == <<vaultVars, closed, pending, leaseVars, fileVars, childVars, phase,
          callVars, grantVars, cleanVars, countVars, histVars>>

NoAsk == [kind |-> "run", place |-> CHOOSE p \in Places : TRUE, overwrite |-> FALSE]

TypeOK ==
  /\ vault \in {"here", "taken"} /\ holder \in Threads \cup {NoThread}
  /\ lockFlag \in BOOLEAN /\ stopFlag \in BOOLEAN
  /\ hook \in {"set", "running", "gone"}
  /\ closed \in BOOLEAN /\ pending \in [Threads -> Answers]
  /\ store \subseteq Ids /\ uses \in [Ids -> Nat]
  /\ scope \in [Ids -> Scope] /\ wrote \in [Ids -> SUBSET Places]
  /\ ledger \in [Places -> Files] /\ disk \in [Places -> Files]
  /\ registry \subseteq Threads /\ drained \in BOOLEAN
  /\ child \in [Threads -> {"none", "running", "dying"}]
  /\ phase \in [Threads -> Phases]
  /\ call \in [Threads -> Ids \cup {0}] /\ ask \in [Threads -> Ask]
  /\ unowned \in [Threads -> BOOLEAN]
  /\ agreed \in [Threads -> Nat] /\ lease \in [Threads -> Ids \cup {0}]
  /\ use \in [Threads -> Nat]
  /\ todo \in [Workers -> Seq(Cleaning)] /\ doomed \in [Workers -> SUBSET Entry]
  /\ calls \in 0..MaxCalls /\ faults \in Nat /\ cleanups \in Nat
  /\ userFiles \in Nat
  /\ granted \in [Ids -> Nat] /\ allows \subseteq Ids
  /\ released \subseteq [call : Ids, lease : Ids, use : Nat]
  /\ overtaken \subseteq Ids

Init ==
  /\ vault = "here" /\ holder = NoThread /\ hook = "set"
  /\ lockFlag = FALSE /\ stopFlag = FALSE
  /\ closed = FALSE /\ pending = [t \in Threads |-> "none"]
  /\ store = {} /\ uses = [l \in Ids |-> 0]
  /\ scope = [l \in Ids |-> [kind |-> "run", place |-> NoAsk.place]]
  /\ wrote = [l \in Ids |-> {}]
  /\ ledger = [p \in Places |-> NoFile] /\ disk = [p \in Places |-> NoFile]
  /\ registry = {} /\ drained = FALSE /\ child = [t \in Threads |-> "none"]
  /\ phase = [t \in Threads |-> "idle"] /\ call = [t \in Threads |-> 0]
  /\ ask = [t \in Threads |-> NoAsk] /\ unowned = [t \in Threads |-> FALSE]
  /\ agreed = [t \in Threads |-> 0] /\ lease = [t \in Threads |-> 0]
  /\ use = [t \in Threads |-> 0]
  /\ todo = [w \in Workers |-> <<>>] /\ doomed = [w \in Workers |-> {}]
  /\ calls = 0 /\ faults = 0 /\ cleanups = 0 /\ userFiles = 0
  /\ granted = [l \in Ids |-> 0] /\ released = {} /\ allows = {}
  /\ overtaken = {}
-----------------------------------------------------------------------------
(* The gate, the leases, the ledger.                                       *)

\* Gate::flags_allow, and Gate::is_serving, which locks the handle's mutex.
FlagsAllow == ~lockFlag /\ ~stopFlag
HandleFree == holder = NoThread
Serving    == vault = "here" /\ FlagsAllow

Goto(t, next) == phase' = [phase EXCEPT ![t] = next]

\* A lease that expired or ran out is dropped at the next look at the store.
Live == {l \in store : uses[l] > 0}

ScopeOf(t) == [kind  |-> IF ask[t].kind = "write" THEN "write" ELSE "run",
               place |-> ask[t].place]

\* What a lease that is used up would cover if nobody counted to zero.
CoveringExhausted(t) ==
  {l \in store : ~unowned[t] /\ scope[l] = ScopeOf(t)}

\* Lease::covers: never for a file kagisecure did not write.
Covering(t) == {l \in Live : ~unowned[t] /\ scope[l] = ScopeOf(t)}

\* A delivery on standard input never reuses a lease.
MayReuse(t) == ask[t].kind # "stdin"

EntriesFor(places) ==
  {[place |-> p, file |-> ledger[p]] : p \in {q \in places : ledger[q] # NoFile}}

\* What a shred by path alone would do.
ShreddedByPath(e) == [disk EXCEPT ![e.place] = NoFile]

\* envfile::shred: only the very file that was written is removed. The instant
\* between its last look at the path and the unlink is left out, as documented.
Shredded(e) ==
  IF disk[e.place] = e.file THEN [disk EXCEPT ![e.place] = NoFile] ELSE disk

\* Within a request its local variables live; with the reply they are gone.
Proceed(t, next) == Goto(t, next) /\ UNCHANGED <<callVars, grantVars>>

Reply(t) ==
  /\ Goto(t, "idle")
  /\ call' = [call EXCEPT ![t] = 0]
  /\ ask' = [ask EXCEPT ![t] = NoAsk]
  /\ unowned' = [unowned EXCEPT ![t] = FALSE]
  /\ agreed' = [agreed EXCEPT ![t] = 0]
  /\ lease' = [lease EXCEPT ![t] = 0]
  /\ use' = [use EXCEPT ![t] = 0]

Fault == faults < MaxFaults /\ faults' = faults + 1
NoFault == UNCHANGED faults
-----------------------------------------------------------------------------
(* A request that releases values, up to its reservation.                  *)

\* serve_connection reads a request; handle finds the agent serving.
Begin(t) ==
  /\ phase[t] = "idle"
  /\ HandleFree /\ Serving
  /\ calls < MaxCalls
  /\ calls' = calls + 1
  /\ call' = [call EXCEPT ![t] = calls + 1]
  /\ \E k \in Kinds, p \in Places, o \in BOOLEAN :
       /\ k # "write" => ~o
       /\ ask' = [ask EXCEPT ![t] = [kind |-> k, place |-> p, overwrite |-> o]]
  /\ Goto(t, "look")
  /\ UNCHANGED <<vaultVars, closed, pending, leaseVars, fileVars, childVars,
                 unowned, grantVars, cleanVars, faults, cleanups, userFiles,
                 histVars>>

\* The request finds the agent not serving: it empties what should be empty.
BeginLocked(t) ==
  /\ phase[t] = "idle"
  /\ HandleFree /\ ~Serving
  /\ calls < MaxCalls
  /\ calls' = calls + 1
  /\ todo' = [todo EXCEPT ![t] = <<"revoke", "kill">>]
  /\ Goto(t, "clean")
  /\ UNCHANGED <<vaultVars, closed, pending, leaseVars, fileVars, childVars,
                 callVars, grantVars, doomed, faults, cleanups, userFiles,
                 histVars>>

\* What is at the target is read before the sheet. A file is replaced only on
\* request; one that kagisecure did not write is for the person to decide.
FileThere(t) == ask[t].kind = "write" /\ disk[ask[t].place] # NoFile

Look(t) ==
  /\ phase[t] = "look"
  /\ FileThere(t) => ask[t].overwrite
  /\ unowned' = [unowned EXCEPT ![t] =
                   FileThere(t) /\ ledger[ask[t].place] # disk[ask[t].place]]
  /\ Goto(t, "reserve")
  /\ UNCHANGED <<vaultVars, closed, pending, leaseVars, fileVars, childVars,
                 call, ask, grantVars, cleanVars, countVars, histVars>>

LookRefused(t) ==
  /\ phase[t] = "look"
  /\ FileThere(t) /\ ~ask[t].overwrite
  /\ Reply(t)
  /\ UNCHANGED <<vaultVars, closed, pending, leaseVars, fileVars, childVars,
                 cleanVars, countVars, histVars>>

\* A reservation that does not count down what it found.
ReserveUncounted(t) ==
  /\ phase[t] = "reserve"
  /\ MayReuse(t) /\ FlagsAllow
  /\ \E l \in Covering(t) :
       /\ lease' = [lease EXCEPT ![t] = l]
       /\ use' = [use EXCEPT ![t] = uses[l]]
  /\ store' = Live
  /\ Goto(t, "prepare")
  /\ UNCHANGED <<vaultVars, closed, pending, uses, scope, wrote, fileVars,
                 childVars, callVars, agreed, cleanVars, countVars, histVars>>

\* reserve, under the lease store's lock: one use of a lease that covers it.
ReserveLeased(t) ==
  /\ phase[t] = "reserve"
  /\ MayReuse(t) /\ FlagsAllow
  /\ \E l \in Covering(t) :
       /\ lease' = [lease EXCEPT ![t] = l]
       /\ use' = [use EXCEPT ![t] = uses[l]]
       /\ uses' = [uses EXCEPT ![l] = @ - 1]
  /\ store' = Live
  /\ Goto(t, "prepare")
  /\ UNCHANGED <<vaultVars, closed, pending, scope, wrote, fileVars, childVars,
                 callVars, agreed, cleanVars, countVars, histVars>>

\* No lease covers it, or none may: the person is to be asked.
ReserveUnleased(t) ==
  /\ phase[t] = "reserve"
  /\ MayReuse(t) => FlagsAllow /\ Covering(t) = {}
  /\ store' = IF MayReuse(t) THEN Live ELSE store
  /\ Goto(t, "preflight")
  /\ UNCHANGED <<vaultVars, closed, pending, uses, scope, wrote, fileVars,
                 childVars, callVars, grantVars, cleanVars, countVars, histVars>>

\* A lock was acknowledged or the agent stopped meanwhile.
ReserveRefused(t) ==
  /\ phase[t] = "reserve"
  /\ MayReuse(t) /\ ~FlagsAllow
  /\ Reply(t)
  /\ UNCHANGED <<vaultVars, closed, pending, leaseVars, fileVars, childVars,
                 cleanVars, countVars, histVars>>
\* audit_preflight: earlier entries that cannot be written refuse the request.
Preflight(t) ==
  /\ phase[t] = "preflight"
  /\ HandleFree
  /\ \/ vault = "here" /\ Proceed(t, "ask") /\ NoFault
     \/ vault = "here" /\ Reply(t) /\ Fault
     \/ vault = "taken" /\ Reply(t) /\ NoFault
  /\ UNCHANGED <<vaultVars, closed, pending, leaseVars, fileVars, childVars,
                 cleanVars, calls, cleanups, userFiles, histVars>>
-----------------------------------------------------------------------------
(* The approval queue.                                                     *)

\* ApprovalQueue::ask queues the question, unless the queue is closed.
Enqueue(t) ==
  /\ phase[t] = "ask"
  /\ IF closed
     THEN Reply(t) /\ UNCHANGED pending
     ELSE Proceed(t, "waiting") /\ pending' = [pending EXCEPT ![t] = "waiting"]
  /\ UNCHANGED <<vaultVars, closed, leaseVars, fileVars, childVars, cleanVars,
                 countVars, histVars>>
\* The question of call c, if it is still queued and nobody answered it.
Question(c) == {t \in Threads : call[t] = c /\ pending[t] = "waiting"}

\* An answer that goes to the question on screen rather than to its own.
ResolveOnScreen(c, answer) ==
  /\ \E t \in Threads : /\ pending[t] = "waiting"
                        /\ pending' = [pending EXCEPT ![t] = answer]
  /\ allows' = IF answer = "deny" THEN allows ELSE allows \cup {c}
  /\ UNCHANGED <<vaultVars, closed, leaseVars, fileVars, childVars, phase,
                 callVars, grantVars, cleanVars, countVars, granted, released,
                 overtaken>>

\* ApprovalQueue::resolve: the person answers the sheet of call c, which the app
\* may have shown some time ago. Unknown and answered ids change nothing.
Resolve(c, answer) ==
  /\ \E t \in Question(c) : pending' = [pending EXCEPT ![t] = answer]
  /\ allows' = IF answer = "deny" THEN allows ELSE allows \cup {c}
  /\ UNCHANGED <<vaultVars, closed, leaseVars, fileVars, childVars, phase,
                 callVars, grantVars, cleanVars, countVars, granted, released,
                 overtaken>>

\* outcome_for: an allow for the session is one use where one run is one answer.
UsesAgreed(t) ==
  IF pending[t] = "session" /\ ask[t].kind # "stdin" THEN SessionUses ELSE 1

\* ask returns with an answer. It looks for one before it looks at the clock.
Answered(t) ==
  /\ phase[t] = "waiting"
  /\ pending[t] \in {"deny", "once", "session"}
  /\ pending' = [pending EXCEPT ![t] = "none"]
  /\ IF pending[t] = "deny"
     THEN Reply(t)
     ELSE /\ Goto(t, "grant") /\ agreed' = [agreed EXCEPT ![t] = UsesAgreed(t)]
          /\ UNCHANGED <<callVars, lease, use>>
  /\ UNCHANGED <<vaultVars, closed, leaseVars, fileVars, childVars, cleanVars,
                 countVars, histVars>>
\* ask returns without one: swept by deny_all, or past its deadline.
NotAnswered(t) ==
  /\ phase[t] = "waiting"
  /\ pending[t] \in {"none", "waiting"}
  /\ pending' = [pending EXCEPT ![t] = "none"]
  /\ Reply(t)
  /\ UNCHANGED <<vaultVars, closed, leaseVars, fileVars, childVars, cleanVars,
                 countVars, histVars>>
\* The rest of reserve: the lease is granted and its first use is set aside.
Grant(t) ==
  /\ phase[t] = "grant"
  /\ FlagsAllow
  /\ LET l == call[t] IN
       /\ store' = Live \cup {l}
       /\ uses' = [uses EXCEPT ![l] = agreed[t] - 1]
       /\ scope' = [scope EXCEPT ![l] = ScopeOf(t)]
       /\ granted' = [granted EXCEPT ![l] = agreed[t]]
       /\ lease' = [lease EXCEPT ![t] = l]
       /\ use' = [use EXCEPT ![t] = agreed[t]]
  /\ Goto(t, "prepare")
  /\ UNCHANGED <<vaultVars, closed, pending, wrote, fileVars, childVars,
                 callVars, agreed, cleanVars, countVars, released, allows,
                 overtaken>>

GrantRefused(t) ==
  /\ phase[t] = "grant"
  /\ ~FlagsAllow
  /\ Reply(t)
  /\ UNCHANGED <<vaultVars, closed, pending, leaseVars, fileVars, childVars,
                 cleanVars, countVars, histVars>>
-----------------------------------------------------------------------------
(* The release: an audit entry on disk, then the act.                      *)

\* A transaction that does not read the lock flag.
PrepareWhileLocking(t) ==
  /\ phase[t] = "prepare"
  /\ HandleFree
  /\ vault = "here"
  /\ holder' = t
  /\ Goto(t, "commit")
  /\ UNCHANGED <<vault, lockFlag, stopFlag, hook, closed, pending, leaseVars,
                 fileVars, childVars, callVars, grantVars, cleanVars, countVars,
                 histVars>>

\* audited_release begins its transaction, which holds the handle's mutex;
\* prepare_release reads the lock flag inside it.
Prepare(t) ==
  /\ phase[t] = "prepare"
  /\ HandleFree
  /\ vault = "here" /\ ~lockFlag
  /\ holder' = t
  /\ Goto(t, "commit")
  /\ UNCHANGED <<vault, lockFlag, stopFlag, hook, closed, pending, leaseVars,
                 fileVars, childVars, callVars, grantVars, cleanVars, countVars,
                 histVars>>

\* The vault is gone or about to be, or the environment, a binding or the
\* directory is no longer what it was.
PrepareRefused(t) ==
  /\ phase[t] = "prepare"
  /\ HandleFree
  /\ Goto(t, "undo")
  /\ UNCHANGED <<vaultVars, closed, pending, leaseVars, fileVars, childVars,
                 callVars, grantVars, cleanVars, countVars, histVars>>

\* The Allowed entry is written and the mutex released.
Commit(t) ==
  /\ phase[t] = "commit"
  /\ holder' = NoThread
  /\ released' = released \cup
       {[call |-> call[t], lease |-> lease[t], use |-> use[t]]}
  /\ Goto(t, IF ask[t].kind = "write" THEN "write" ELSE "gate")
  /\ UNCHANGED <<vault, lockFlag, stopFlag, hook, closed, pending, leaseVars,
                 fileVars, childVars, callVars, grantVars, cleanVars, countVars,
                 granted, allows, overtaken>>

\* A failed transaction that keeps the handle's mutex.
CommitFailsLocked(t) ==
  /\ phase[t] = "commit"
  /\ Fault
  /\ Goto(t, "undo")
  /\ UNCHANGED <<vaultVars, closed, pending, leaseVars, fileVars, childVars,
                 callVars, grantVars, cleanVars, calls, cleanups, userFiles,
                 histVars>>

\* The entry could not be written: nothing is released.
CommitFails(t) ==
  /\ phase[t] = "commit"
  /\ Fault
  /\ holder' = NoThread
  /\ Goto(t, "undo")
  /\ UNCHANGED <<vault, lockFlag, stopFlag, hook, closed, pending, leaseVars,
                 fileVars, childVars, callVars, grantVars, cleanVars, calls,
                 cleanups, userFiles, histVars>>

\* revoke_if_minted: a lease this call minted dies with its failure.
Undo(t) ==
  /\ phase[t] = "undo"
  /\ store' = IF lease[t] = call[t] THEN store \ {lease[t]} ELSE store
  /\ Reply(t)
  /\ UNCHANGED <<vaultVars, closed, pending, uses, scope, wrote, fileVars,
                 childVars, cleanVars, countVars, histVars>>
\* envfile::write looks at the target first, and only later renames onto it.
MayWrite(t) ==
  /\ phase[t] = "write"
  /\ disk[ask[t].place] # NoFile => ask[t].overwrite
  /\ Proceed(t, "rename")
  /\ UNCHANGED <<vaultVars, closed, pending, leaseVars, fileVars, childVars,
                 cleanVars, countVars, histVars>>

Rename(t) ==
  /\ phase[t] = "rename"
  /\ disk' = [disk EXCEPT ![ask[t].place] = call[t]]
  /\ Proceed(t, "record")
  /\ UNCHANGED <<vaultVars, closed, pending, leaseVars, ledger, childVars,
                 cleanVars, countVars, histVars>>

\* It will not replace a file, or cannot write one.
WriteFails(t) ==
  /\ \/ phase[t] = "write" /\ disk[ask[t].place] # NoFile /\ ~ask[t].overwrite
        /\ NoFault
     \/ phase[t] = "rename" /\ Fault
  /\ Proceed(t, "undo")
  /\ UNCHANGED <<vaultVars, closed, pending, leaseVars, fileVars, childVars,
                 cleanVars, calls, cleanups, userFiles, histVars>>

\* LeaseStore::record_written.
RecordWritten(t) ==
  /\ phase[t] = "record"
  /\ LET p == ask[t].place IN
       /\ ledger' = [ledger EXCEPT ![p] = call[t]]
       /\ wrote' = IF lease[t] \in store
                   THEN [wrote EXCEPT ![lease[t]] = @ \cup {p}]
                   ELSE wrote
       /\ overtaken' = IF ledger[p] = disk[p] /\ disk[p] \in Ids
                       THEN overtaken \cup {disk[p]}
                       ELSE overtaken
  /\ Goto(t, "after")
  /\ UNCHANGED <<vaultVars, closed, pending, store, uses, scope, disk, childVars,
                 callVars, grantVars, cleanVars, countVars, granted, released,
                 allows>>

\* The last check before a spawn.
CheckGate(t) ==
  /\ phase[t] = "gate"
  /\ HandleFree
  /\ IF Serving THEN Proceed(t, "spawn") ELSE Reply(t)
  /\ UNCHANGED <<vaultVars, closed, pending, leaseVars, fileVars, childVars,
                 cleanVars, countVars, histVars>>
Spawn(t) ==
  /\ phase[t] = "spawn"
  /\ \/ /\ child' = [child EXCEPT ![t] = "running"]
        /\ Goto(t, "register") /\ NoFault
     \/ UNCHANGED child /\ Goto(t, "undo") /\ Fault
  /\ UNCHANGED <<vaultVars, closed, pending, leaseVars, fileVars, registry,
                 drained, callVars, grantVars, cleanVars, calls, cleanups,
                 userFiles, histVars>>

\* A registry that takes children after it was drained.
RegisterAlways(t) ==
  /\ phase[t] = "register"
  /\ registry' = registry \cup {t}
  /\ Goto(t, "wait")
  /\ UNCHANGED <<vaultVars, closed, pending, leaseVars, fileVars, drained, child,
                 callVars, grantVars, cleanVars, countVars, histVars>>

\* ChildRegistry::register: a drained registry kills the child instead.
Register(t) ==
  /\ phase[t] = "register"
  /\ IF drained
     THEN UNCHANGED registry /\ child' = [child EXCEPT ![t] = "dying"]
     ELSE UNCHANGED child /\ registry' = registry \cup {t}
  /\ Goto(t, "wait")
  /\ UNCHANGED <<vaultVars, closed, pending, leaseVars, fileVars, drained,
                 callVars, grantVars, cleanVars, countVars, histVars>>

\* The child ended by itself, at its time limit, or killed: its wait returns
\* and it is deregistered.
ChildEnds(t) ==
  /\ phase[t] = "wait"
  /\ child' = [child EXCEPT ![t] = "none"]
  /\ registry' = registry \ {t}
  /\ Goto(t, "after")
  /\ UNCHANGED <<vaultVars, closed, pending, leaseVars, fileVars, drained,
                 callVars, grantVars, cleanVars, countVars, histVars>>

\* A writer that leaves its file to the lock it overlapped.
AfterForgets(t) ==
  /\ phase[t] = "after"
  /\ HandleFree
  /\ Reply(t)
  /\ UNCHANGED <<vaultVars, closed, pending, leaseVars, fileVars, childVars,
                 cleanVars, countVars, histVars>>

\* The check after the act: a file written meanwhile is shredded by its writer,
\* and what a command printed is not returned.
After(t) ==
  /\ phase[t] = "after"
  /\ HandleFree
  /\ disk' = IF ~Serving /\ ask[t].kind = "write"
             THEN Shredded([place |-> ask[t].place, file |-> call[t]])
             ELSE disk
  /\ Reply(t)
  /\ UNCHANGED <<vaultVars, closed, pending, leaseVars, ledger, childVars,
                 cleanVars, countVars, histVars>>
-----------------------------------------------------------------------------
(* Locking, stopping, revoking.                                            *)

Idle(w) == todo[w] = <<>> /\ doomed[w] = {}

CleanupBegins == cleanups < MaxCleanups /\ cleanups' = cleanups + 1

\* A `lock` or `revoke_env_file` finds the agent serving.
BeginTool(t) ==
  /\ phase[t] = "idle"
  /\ HandleFree /\ Serving
  /\ CleanupBegins
  /\ \E tool \in {"locking", "revoking"} : Goto(t, tool)
  /\ UNCHANGED <<vaultVars, closed, pending, leaseVars, fileVars, childVars,
                 callVars, grantVars, cleanVars, calls, faults, userFiles,
                 histVars>>

\* `lock`: the flag first, then the cleanup.
LockTool(t) ==
  /\ phase[t] = "locking"
  /\ lockFlag' = TRUE
  /\ todo' = [todo EXCEPT ![t] = <<"audit", "revoke", "kill", "deny", "audit">>]
  /\ Goto(t, "clean")
  /\ UNCHANGED <<vault, holder, stopFlag, hook, closed, pending, leaseVars,
                 fileVars, childVars, callVars, grantVars, doomed, countVars,
                 histVars>>

\* The host takes the vault and runs the hook, which holds the list of hooks.
TakeVault ==
  /\ vault = "here" /\ HandleFree
  /\ CleanupBegins
  /\ vault' = "taken"
  /\ hook' = IF hook = "set" THEN "running" ELSE hook
  /\ todo' = [todo EXCEPT ![Host] =
                IF hook = "set" THEN <<"deny", "revoke", "kill", "unlatch">>
                                ELSE <<>>]
  /\ UNCHANGED <<holder, lockFlag, stopFlag, closed, pending, leaseVars,
                 fileVars, childVars, phase, callVars, grantVars, doomed, calls,
                 faults, userFiles, histVars>>

\* Agent::stop, once; revoke_all_leases.
Stop ==
  /\ Idle(App) /\ ~stopFlag
  /\ CleanupBegins
  /\ stopFlag' = TRUE
  /\ todo' = [todo EXCEPT ![App] = <<"unhook", "deny", "revoke", "kill">>]
  /\ UNCHANGED <<vault, holder, lockFlag, hook, closed, pending, leaseVars,
                 fileVars, childVars, phase, callVars, grantVars, doomed, calls,
                 faults, userFiles, histVars>>

RevokeAll ==
  /\ Idle(App)
  /\ CleanupBegins
  /\ todo' = [todo EXCEPT ![App] = <<"deny", "revoke", "reopen">>]
  /\ UNCHANGED <<vaultVars, closed, pending, leaseVars, fileVars, childVars,
                 phase, callVars, grantVars, doomed, calls, faults, userFiles,
                 histVars>>

\* revoke_lease, from the app or through revoke_env_file with a lease id.
RevokeLease(w, l) ==
  /\ l \in store
  /\ store' = store \ {l}
  /\ doomed' = [doomed EXCEPT ![w] = EntriesFor(wrote[l])]

AppRevokesLease(l) ==
  /\ Idle(App)
  /\ CleanupBegins
  /\ RevokeLease(App, l)
  /\ UNCHANGED <<vaultVars, closed, pending, uses, scope, wrote, fileVars,
                 childVars, phase, callVars, grantVars, todo, calls, faults,
                 userFiles, histVars>>

\* revoke_env_file with a path: every lease that wrote it, and the file itself.
RevokePath(t, p) ==
  LET authors == {l \in store : p \in wrote[l]}
      places  == {p} \cup UNION {wrote[l] : l \in authors}
  IN  /\ store' = store \ authors
      /\ doomed' = [doomed EXCEPT ![t] = EntriesFor(places)]

RevokeEnvFile(t) ==
  /\ phase[t] = "revoking"
  /\ \/ \E l \in Ids : RevokeLease(t, l)
     \/ \E p \in Places : RevokePath(t, p)
  /\ Goto(t, "clean")
  /\ UNCHANGED <<vaultVars, closed, pending, uses, scope, wrote, fileVars,
                 childVars, callVars, grantVars, todo, countVars, histVars>>

\* One step of a cleanup. What a revocation dropped is shredded first.
NextIs(w, step) ==
  /\ doomed[w] = {}
  /\ todo[w] # <<>> /\ Head(todo[w]) = step
  /\ todo' = [todo EXCEPT ![w] = Tail(@)]

\* ApprovalQueue::deny_all and reopen.
DenyAll(w) ==
  /\ NextIs(w, "deny")
  /\ closed' = TRUE
  /\ pending' = [t \in Threads |-> "none"]
  /\ UNCHANGED <<vaultVars, leaseVars, fileVars, childVars, phase, callVars,
                 grantVars, doomed, countVars, histVars>>

Reopen(w) ==
  /\ NextIs(w, "reopen")
  /\ closed' = FALSE
  /\ UNCHANGED <<vaultVars, pending, leaseVars, fileVars, childVars, phase,
                 callVars, grantVars, doomed, countVars, histVars>>

\* LeaseStore::revoke_all: every lease, and the whole ledger.
RevokeEverything(w) ==
  /\ NextIs(w, "revoke")
  /\ store' = {}
  /\ doomed' = [doomed EXCEPT ![w] = EntriesFor(Places)]
  /\ ledger' = [p \in Places |-> NoFile]
  /\ UNCHANGED <<vaultVars, closed, pending, uses, scope, wrote, disk, childVars,
                 phase, callVars, grantVars, countVars, histVars>>

\* shred_written, one entry.
Shred(w) ==
  /\ \E e \in doomed[w] :
       /\ doomed' = [doomed EXCEPT ![w] = @ \ {e}]
       /\ disk' = Shredded(e)
  /\ UNCHANGED <<vaultVars, closed, pending, leaseVars, ledger, childVars, phase,
                 callVars, grantVars, todo, countVars, histVars>>

\* ChildRegistry::kill_all: drained for good, every child told to end.
KillAll(w) ==
  /\ NextIs(w, "kill")
  /\ drained' = TRUE
  /\ registry' = {}
  /\ child' = [t \in Threads |-> IF t \in registry THEN "dying" ELSE child[t]]
  /\ UNCHANGED <<vaultVars, closed, pending, leaseVars, fileVars, phase,
                 callVars, grantVars, doomed, countVars, histVars>>

\* Queueing or flushing an audit entry waits for the handle's mutex.
WaitForHandle(w) ==
  /\ NextIs(w, "audit")
  /\ HandleFree
  /\ UNCHANGED <<vaultVars, closed, pending, leaseVars, fileVars, childVars,
                 phase, callVars, grantVars, doomed, countVars, histVars>>

\* A take that does not let go of the list of hooks.
UnhookWaits(w) ==
  /\ \/ NextIs(w, "unhook") /\ hook # "running" /\ hook' = "gone"
     \/ NextIs(w, "unlatch") /\ UNCHANGED hook
  /\ UNCHANGED <<vault, holder, lockFlag, stopFlag, closed, pending, leaseVars,
                 fileVars, childVars, phase, callVars, grantVars, doomed,
                 countVars, histVars>>

\* Dropping the hook's guard waits for a take that is running the hooks.
Unhook(w) ==
  /\ \/ NextIs(w, "unhook") /\ hook # "running" /\ hook' = "gone"
     \/ NextIs(w, "unlatch") /\ hook' = "set"
  /\ UNCHANGED <<vault, holder, lockFlag, stopFlag, closed, pending, leaseVars,
                 fileVars, childVars, phase, callVars, grantVars, doomed,
                 countVars, histVars>>

CleanStep(w) ==
  \/ DenyAll(w) \/ Reopen(w) \/ RevokeEverything(w) \/ Shred(w)
  \/ KillAll(w) \/ WaitForHandle(w) \/ Unhook(w)

\* A connection thread has cleaned up and answers.
CleanedUp(t) ==
  /\ phase[t] = "clean"
  /\ Idle(t)
  /\ Goto(t, "idle")
  /\ UNCHANGED <<vaultVars, closed, pending, leaseVars, fileVars, childVars,
                 callVars, grantVars, cleanVars, countVars, histVars>>
-----------------------------------------------------------------------------
(* Time, and the user's own files.                                         *)

Expire(l) ==
  /\ l \in store /\ uses[l] > 0
  /\ uses' = [uses EXCEPT ![l] = 0]
  /\ UNCHANGED <<vaultVars, closed, pending, store, scope, wrote, fileVars,
                 childVars, phase, callVars, grantVars, cleanVars, countVars,
                 histVars>>

UserPutsFile(p) ==
  /\ userFiles < MaxUserFiles
  /\ userFiles' = userFiles + 1
  /\ disk' = [disk EXCEPT ![p] = Theirs]
  /\ UNCHANGED <<vaultVars, closed, pending, leaseVars, ledger, childVars, phase,
                 callVars, grantVars, cleanVars, calls, faults, cleanups,
                 histVars>>
-----------------------------------------------------------------------------
RequestStep(t) ==
  \/ Look(t) \/ LookRefused(t)
  \/ ReserveLeased(t) \/ ReserveUnleased(t) \/ ReserveRefused(t)
  \/ Preflight(t) \/ Enqueue(t) \/ Answered(t) \/ NotAnswered(t)
  \/ Grant(t) \/ GrantRefused(t)
  \/ Prepare(t) \/ PrepareRefused(t) \/ Commit(t) \/ CommitFails(t) \/ Undo(t)
  \/ MayWrite(t) \/ Rename(t) \/ WriteFails(t) \/ RecordWritten(t)
  \/ CheckGate(t) \/ Spawn(t) \/ Register(t) \/ ChildEnds(t)
  \/ After(t) \/ LockTool(t) \/ RevokeEnvFile(t) \/ CleanedUp(t)

RequestBegins(t) == Begin(t) \/ BeginLocked(t) \/ BeginTool(t)

HostStep == TakeVault \/ Stop \/ RevokeAll \/ \E l \in Ids : AppRevokesLease(l)

PersonStep ==
  \E c \in Ids, answer \in {"deny", "once", "session"} : Resolve(c, answer)

OutsideStep == (\E l \in Ids : Expire(l)) \/ (\E p \in Places : UserPutsFile(p))

Next ==
  \/ \E t \in Threads : RequestStep(t) \/ RequestBegins(t)
  \/ \E w \in Workers : CleanStep(w)
  \/ HostStep \/ PersonStep \/ OutsideStep

Spec == Init /\ [][Next]_vars

\* A thread inside a request or a cleanup is scheduled; deadlines, a child's
\* time limit and its kill do come. Nobody has to answer a sheet.
Fairness ==
  /\ \A t \in Threads : WF_vars(RequestStep(t))
  /\ \A w \in Workers : WF_vars(CleanStep(w))

FairSpec == Spec /\ Fairness
-----------------------------------------------------------------------------
(* Properties.                                                             *)

\* No use of a lease is spent twice, and none beyond those granted: reserve
\* takes the use in the critical section that found the lease, so two requests
\* never share the last one, and a reservation outlives its lease.
EachUseOnce ==
  \A r \in released :
    /\ r.use \in 1..granted[r.lease]
    /\ \A q \in released : q.lease = r.lease /\ q.use = r.use => q = r

\* A lease stands for the answer a person gave to that very call: an answer that
\* comes after the deadline, after deny_all or twice grants nothing, to nobody.
ApprovedByPerson == \A l \in Ids : granted[l] > 0 => l \in allows

\* A child never escapes kill_all: once the registry is drained, a child that
\* runs is one whose thread is about to register it, and will be told to end.
NoChildEscapes ==
  /\ \A t \in Threads : child[t] = "running" => t \in registry \/ phase[t] = "register"
  /\ drained => registry = {}

\* Every request and every cleanup has ended.
AtRest == /\ \A t \in Threads : phase[t] = "idle"
          /\ \A w \in Workers : Idle(w)

Over == vault = "taken" \/ lockFlag \/ stopFlag

\* Locking means locking (service.rs:2676): once the vault was locked or the
\* agent stopped and all is at rest, no lease is live, no child runs, and no file
\* kagisecure wrote is left, but one whose ledger entry a slower writer replaced.
LockedMeansLocked ==
  AtRest /\ Over =>
    /\ Live = {}
    /\ \A t \in Threads : child[t] = "none"
    /\ \A p \in Places : disk[p] \in Ids => disk[p] \in overtaken

\* Revoking everything and locking shred what the leases wrote: with no exception.
FilesDieWithTheLock ==
  AtRest /\ Over => \A p \in Places : disk[p] \notin Ids

\* A file kagisecure did not write is removed by no cleanup, whatever appeared at
\* the path between a write and its shred: only a write's own rename replaces it.
UserFilesSpared ==
  [][\A p \in Places : disk[p] = Theirs /\ disk'[p] # Theirs =>
       \E t \in Threads : phase[t] = "rename" /\ disk'[p] = call[t]]_disk

\* The agent keeps the promise of ReleaseGate. The gate is shut when the vault
\* is out of the handle, or a lock was acknowledged and the release that held the
\* handle's mutex is over.
Gate == INSTANCE ReleaseGate WITH
  Calls <- Ids,
  gate  <- IF vault = "taken" \/ (lockFlag /\ HandleFree) THEN "shut" ELSE "open"

ImplementsGate == Gate!GateSpec

\* Every request ends and every cleanup with it, whoever waits for the handle's
\* mutex, the hook or a person who never answers.
RequestsEnd == \A t \in Threads : phase[t] # "idle" ~> phase[t] = "idle"
CleanupsEnd == \A w \in Workers : ~Idle(w) ~> Idle(w)
-----------------------------------------------------------------------------
(* Why they hold: an inductive invariant.                                  *)

Undecided == {"look", "reserve", "preflight", "ask", "waiting", "grant"}
Holding   == {"prepare", "commit"}
Acting    == {"undo", "write", "rename", "record", "gate", "spawn", "register",
              "wait", "after"}
InCall    == Undecided \cup Holding \cup Acting

\* Calls have numbers of their own; the mutex is held by a transaction under way.
CallsInv ==
  /\ \A t \in Threads :
       /\ phase[t] \in InCall => call[t] \in 1..calls
       /\ phase[t] \notin InCall => call[t] = 0
       /\ \A u \in Threads \ {t} : call[u] = call[t] => call[t] = 0
       /\ pending[t] # "none" => phase[t] = "waiting"
       /\ phase[t] = "commit" => holder = t
       /\ holder = t => phase[t] = "commit"
  /\ holder # NoThread => vault = "here"

\* An allow belongs to the call it was given to, and grants at most once.
AnswersInv ==
  /\ \A t \in Threads :
       /\ pending[t] \in {"once", "session"} => call[t] \in allows
       /\ phase[t] = "grant" => call[t] \in allows /\ agreed[t] > 0
       /\ phase[t] \in Undecided => granted[call[t]] = 0
  /\ \A l \in Ids : granted[l] > 0 => l \in allows /\ l <= calls

\* The uses set aside and those spent are distinct, and above what is left.
UsesInv ==
  /\ \A l \in Ids : uses[l] <= granted[l]
  /\ \A t \in Threads :
       phase[t] \in Holding =>
         /\ lease[t] \in Ids
         /\ uses[lease[t]] < use[t] /\ use[t] <= granted[lease[t]]
         /\ \A u \in Threads \ {t} :
              phase[u] \in Holding /\ lease[u] = lease[t] => use[u] # use[t]
         /\ \A r \in released : r.lease = lease[t] => r.use # use[t]
  /\ \A r \in released : uses[r.lease] < r.use /\ r.use <= granted[r.lease]
  /\ \A r, q \in released : q.lease = r.lease /\ q.use = r.use => q = r

\* A call releases once.
ReleasesInv ==
  /\ \A r \in released : r.call <= calls
  /\ \A t \in Threads, r \in released :
       phase[t] \in Undecided \cup Holding => r.call # call[t]

\* Only what kagisecure wrote is recorded, or waits to be shredded.
LedgerInv ==
  /\ \A p \in Places : ledger[p] # Theirs
  /\ \A w \in Workers : \A e \in doomed[w] : e.file # Theirs

AgentInv == /\ TypeOK /\ CallsInv /\ AnswersInv /\ UsesInv /\ ReleasesInv
            /\ LedgerInv /\ NoChildEscapes

\* A revocation of every lease and of the ledger is still to come.
Revokes(w) == \E n \in DOMAIN todo[w] : todo[w][n] = "revoke"
RevokeComing == \E w \in Workers : Revokes(w)

\* A thread cleans up in its cleanup; the host cleans up once it took the vault,
\* unless the agent stopped before that.
CleanupInv ==
  /\ \A t \in Threads : phase[t] # "clean" => Idle(t)
  /\ vault = "here" => todo[Host] = <<>>
  /\ hook = "gone" => stopFlag
  /\ \A w \in Workers : \A n \in DOMAIN todo[w] : todo[w][n] = "unhook" => stopFlag
  /\ hook = "running" => vault = "taken"
  /\ \A t \in Threads :
       /\ child[t] # "none" \/ t \in registry => phase[t] \in {"register", "wait"}
       /\ phase[t] \in {"write", "rename", "record"} => ask[t].kind = "write"

\* A lease outlives the lock only on its way to be revoked: with the rest, or by
\* the call that was granted it between the vault's going and its own release.
LeasesGoing ==
  Over => \A l \in store :
    \/ RevokeComing
    \/ vault = "taken" /\ \E t \in Threads : /\ phase[t] \in {"prepare", "undo"}
                                              /\ call[t] = l /\ lease[t] = l

Wrote(t, p, f) == ask[t].place = p /\ call[t] = f

\* A file kagisecure wrote is overtaken, about to be shredded, about to be recorded,
\* or recorded, for a revocation or for its writer to shred.
FileGoes(p, f) ==
  \/ f \in overtaken
  \/ \E w \in Workers : [place |-> p, file |-> f] \in doomed[w]
  \/ \E t \in Threads : phase[t] = "record" /\ Wrote(t, p, f)
  \/ /\ ledger[p] = f
     /\ \/ ~Over \/ RevokeComing
        \/ \E t \in Threads : /\ phase[t] = "after" /\ ask[t].kind = "write"
                              /\ Wrote(t, p, f)

FilesGoing == \A p \in Places, f \in Ids : disk[p] = f => FileGoes(p, f)

ShutInv == CleanupInv /\ LeasesGoing /\ FilesGoing
=============================================================================
