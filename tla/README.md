# kagisecure in TLA+

kagisecure is a local secrets manager for people who let programs and AI agents
use their credentials. A Rust core keeps an encrypted vault in one file; a
desktop application (Swift, C#) holds it unlocked and answers agents over a
local socket; vaults can be shared between devices through a folder that a sync
tool carries around.

This directory is the formal model of that program: TLA+ modules translated
from the source, configurations that check them with TLC on small instances,
and theorems with proofs that TLAPS checks for every value of the constants.
`PROJECT.json` maps every definition that models code to the lines it models,
lists the runs, the mutants that show each property can fail, the hazards the
properties are for, the disagreements found and the theorems. Paths below are
relative to `crates/`.

## 1. Inventory

| Component | State it keeps | Operations | What makes it correct |
|---|---|---|---|
| Vault lock (`kagisecure-core/src/vault/lock.rs`) | a sibling lock file, an open handle with an flock | acquire (poll to a deadline), check the inode again, sweep temporaries, drop | one holder per inode; an orphaned lock is noticed before a write; a dead holder does not block |
| Vault file (`vault/mod.rs`, `vault/atomic.rs`) | the file; per session the decrypted body, what it knows of the file, queued audit drafts, an unconfirmed write | open, create, transact, refresh, queue_audit, examine and overwrite a conflict, password and device-key changes | no lost update, no lost or doubled audit draft, memory never shows what was not committed, an older or foreign file is never taken up |
| Audit log (`audit.rs`) | a hash chain inside the body | append, verify | append-only, one chain |
| Format, cryptography (`vault/header.rs`, `device.rs`, `crypto/`, `recovery.rs`) | none | seal, open, wrap, derive | not a question of states |
| Approval queue (`kagisecure-agent/src/approval.rs`) | pending asks, open or closed | ask and wait, answer, deny_all, close, reopen | each ask is decided once; no approval after its deadline or after a lock |
| Leases (`kagisecure-core/src/lease.rs`, `agent/src/service.rs`) | leases with uses, expiry and written files | issue, find, consume, record a file, revoke, expire | never more uses than granted; every file written is shredded with its lease |
| Agent service (`agent/src/service.rs`, `release.rs`, `children.rs`, `vault.rs`, `agent.rs`) | lock flag, vault handle, children, audit queue, serving gate | handle a request, release, spawn, lock, stop, revoke all | audit before release; nothing released, no child left after a lock |
| Agent fills (`agent/src/extension/agent_fill.rs`, `extension.rs`, `service.rs`) | the one flow in progress, its grant, browser sessions, steps that wait for a second page | admit, locate and report, ask, issue, redeem, settle, keep pending, deregister, revoke | a grant is redeemed once, by the session, tab and fields a person approved, before a lock; the agent's answer and the log agree |
| Browser fills (`agent/src/fill_lease.rs`, `extension/crossing.rs`) | fill leases of requests a browser makes itself | issue, redeem, revoke | a lease fills one site, before its expiry (not modelled) |
| Unattended runs (`agent/src/unattended/`) | armed handle, runs, reservations, strikes, schedule | arm, launch, reserve, strike, disarm, stop | one run per job; no run after disarm; limits hold |
| Shared-vault replica (`kagisecure-shared/src/replica.rs`, `merge.rs`, `record.rs`, `write.rs`, `exchange.rs`) | records of every device, sequence numbers | write, merge, export, import | replicas with the same records show the same items; no position is used twice |
| Shared-vault roster (`roster.rs`, `epoch.rs`, `rotation.rs`, `admin/`) | members, epochs, epoch keys | create, enrol, remove, rotate | a removed device gets no later key; members agree |
| Transport (`kagisecure-ipc`, `kagisecure-extension-ipc`, `kagisecure-nmhost`) | open connections | accept, serve, sever | a stop leaves no connection served (not modelled: `sever_all` runs after the accept thread is joined) |
| Application bridge (`kagisecure-ffi`) | session, presence prompts | unlock, lock, release with presence | one prompt in flight; no grant survives a lock |
| MCP server, command line, import | none between requests | one request or transaction each | they use the interfaces above as intended |
| Headless host (`kagisecure-host`) | a signed bundle, a store | decide, serve | releases only what the bundle grants |
| Applications, extensions, packaging, e2e, fuzz, xtask | user interface and tooling | | not modelled |

### How they interact

* The **vault file** is shared state between processes: the application, every
  command-line invocation and the machine-vault handle of unattended runs each
  hold a `Vault` (a session) on the same path. They meet only in the file
  system: the lock file, the vault file, temporaries and backups. A sync tool,
  a restore or the user may replace any of these behind their backs.
* An **agent request** arrives on a connection (`ipc/server.rs`), is checked
  against leases, may wait in the approval queue for a human, writes its audit
  entry through a vault transaction, and only then acts: it injects into a
  child, writes an env file, fills a form. Locking, stopping and revoking come
  from other threads at any time and go through callbacks on the vault handle.
* **Shared vaults** exchange signed envelopes through a folder; a device learns
  of another's records late, twice or in any order. Device keys are in the
  personal vault's body, which is why an overwrite of the vault must not drop
  them.

### Behaviours that are hard

Interleavings of processes over the file system; a lock file replaced under its
holder; a rename whose reply is lost; crashes with a temporary on disk; a file
that goes backwards; a user's answer that is stale when it is used; human
answers racing deadlines and locks; acts between an audit entry and a
revocation; convergence of replicas. `PROJECT.json` lists them as hazards at
the lines where they bite, with the properties that would catch each one, or a
note saying why no property does.

## 2. What is modelled

| Module | Models |
|---|---|
| `FileLock` | `vault/lock.rs`: `FileLock::acquire` step by step, the inode checks, the drop, a lock file removed by somebody else |
| `SharedJournal` | abstract: what a vault file promises its sessions |
| `VaultFile` | `vault/mod.rs` and `vault/atomic.rs` over `FileLock` |
| `ReleaseGate` | abstract: what the agent promises about releasing values |
| `AgentService` | the agent's connection threads, leases, approval queue, releases, children, locking, stopping, revoking |
| `AgentFill` | a login an agent asks to have written into a browser page: the request, the broker, the browser's sessions, sign-ins in two pages, locks and unlocks |
| `UnattendedRuns` | the unattended engine: arming and disarming, launches, requests, strikes, the registry of a run |
| `SharedView` | what a device computes from the records of a shared vault: roster, keys, accepted versions, the item shown |
| `SharedVault` | devices that write, change the roster and exchange records, over `SharedView` |
| `VaultFileProofs`, `VaultMemoryProofs`, `VaultJournalProofs`, `AgentServiceProofs`, `AgentFillProofs`, `UnattendedRunsProofs`, `SharedVaultProofs`, `SharedRosterProofs` | theorems and proofs |
| `MCVaultFile`, `MCAgentService`, `MCUnattendedRuns`, `MCSharedVault` | the symmetries for TLC; `AgentFill` needs none, its calls and sessions being numbered |

Some definitions stand beside the one the code has and are used by nothing (an
uncounted reservation, a registry that takes children after it was drained, a
merge by the clock): they are the slips that the properties are tried on, listed
under `mutants`.

### The vault file

`VaultFile` extends `FileLock`. A *session* is one `Vault` value.

| Variable | In the code |
|---|---|
| `file` | what the vault's path names: generation (SHA-256 of the sealed bytes), format version, vault id, password slot, audit log, device keys and removals |
| `backups`, `temps` | `<vault>.bak-<n>` copies, a session's temporary of `write_atomically` |
| `mem` | the header and body in memory |
| `known` | `DiskState`: the generation, version and audit head last seen on disk |
| `unconf` | `DiskState::unconfirmed`: a write whose outcome is unknown |
| `pending`, `carried` | `pending_audit`, and the drafts a running write took from it |
| `base`, `undo`, `sealed` | a transaction's snapshot, what a failing overwrite restores, the image being written |
| `confirmed`, `prep` | the conflict the user agreed to discard, a prepared password slot's basis |
| `phase`, `goal` | where the session is in a call, and in which call |
| `lockFile`, `inodes`, `handle`, `lk` | the lock's path, the inodes made there, the open handle, the place in `acquire` |
| `past`, `drafted`, `disturbed` | history for the properties: every image the path named, every draft queued, sessions whose lock or base another program took away |

A call is `acquire`, a step under the lock that reads the file (`CatchUp`,
`OverwriteExamine`, `CreateNewFile`), the closure (`Edit`, `AddDeviceKey`,
`RemoveDeviceKey`, `InstallPassword`, `Flush`, `QueueInside` or its failure),
`Commit` (chain, seal, back up, check the lock again), `WriteTemp`, `Rename`
and, when any of it fails, `ReadBackFinds` or `ReadBackFails`. Each system call
whose order other writers can see is a step; what happens in memory between two
of them is part of the step. Between calls a session opens, closes, refreshes
(without the lock), queues drafts, examines conflicts and prepares passwords.
`Crash` may strike anywhere in a call. `RestoreOlderCopy`, `ReplaceVault` and
`LockFileRemoved` are other programs.

The data is abstracted: an audit entry is a number given out once, a generation
is a number (a sealed file holds a fresh nonce), a hash head is the log it ends,
an edit of an item is the audit entry it chains.

`SharedJournal` has one journal, each session's view of it and what its user
agreed to discard. A transaction is one append whose author may or may not
learn that it happened; an override replaces exactly what was agreed to; a
session never moves its view to a journal that does not continue it; only an
intruding program, or a session such an intrusion left exposed, may do
anything else. `VaultFile!ImplementsJournal` instantiates it with the file, the
`known` records, the confirmed generations and the disturbed sessions.

### The agent

`AgentService` follows one request per connection thread from the line it reads
to its reply, for the three tools that release values: `write` is
`write_env_file`, `run` is `run_with_env`, `stdin` is a delivery on standard
input. A thread may also serve `lock` and `revoke_env_file`. Two more workers
call the cleanups: `App` is the application (`stop`, `revoke_all_leases`,
`revoke_lease`) and `Host` is whoever takes the vault out of the handle.

| Variable | In the code |
|---|---|
| `vault`, `holder` | the vault in `VaultHandle`, and the thread whose transaction holds the handle's mutex |
| `lockFlag`, `stopFlag`, `hook` | `lock_requested`, `stopping`, the agent's lock hook |
| `closed`, `pending` | `ApprovalQueue`: whether it takes questions, and each question's answer |
| `store`, `uses`, `scope`, `wrote` | `LeaseStore`: the leases, `uses_remaining`, what they cover, the places written |
| `ledger`, `disk` | the recorded identity of the file written at a place, and the file that is there |
| `registry`, `drained`, `child` | `ChildRegistry` and each thread's child |
| `phase`, `call`, `ask`, `unowned`, `agreed`, `lease`, `use` | the request's local variables and where it is |
| `todo`, `doomed` | what a cleanup has left to do, and the files it is shredding |
| `granted`, `released`, `allows`, `overtaken` | history for the properties |

What the code does inside one critical section is one step: a lookup and the
decrement of a lease (`ReserveLeased`), an answer, `deny_all`, `register`,
`kill_all`. What it does across several is several: `Look` at the target before
the sheet, `MayWrite` and `Rename` of `envfile::write`, `RecordWritten`, the
last `CheckGate` before `Spawn`, `Register`, the check `After` the act. The
handle's mutex is a variable because a transaction holds it from
`prepare_release`'s look at the lock flag to the audit entry on disk, while a
lock only raises the flag. The transaction itself is two steps, since its
atomicity is `VaultFile`'s business; it may fail.

`ReleaseGate` is the promise in three actions: a person grants uses to a call,
once; a release spends one granted use that nothing spent before, while the gate
is open; the gate is shut for good. `AgentService!ImplementsGate` instantiates it
with the grants, the `Allowed` entries, and a gate that is shut when the vault is
out of the handle or the lock flag is up and no transaction is under way.

### Agent fills

`AgentFill` follows an agent's `request_fill` from the line the agent service
reads to its answer. Three kinds of threads meet in the broker
(`extension/agent_fill.rs`): the request's, the thread of each connected browser
extension, and whoever locks or revokes.

| Variable | In the code |
|---|---|
| `vault`, `unlock`, `lockFlag`, `closed` | the vault in its handle, which unlock it is (each has a handle, an agent and listeners of its own), `lock_requested`, the approval queue |
| `cleaning` | what the lock tool, the host's lock or "revoke all" has left to do: deny the questions, revoke the grants, reopen the queue |
| `epoch`, `sess`, `flow`, `pending` | the broker's `State`: `lock_epoch`, `sessions`, the flow with its probe, its grant and its delivery, and the first steps that wait for their second |
| `phase`, `ask`, `born`, `began`, `cont`, `target`, `sheet`, `answer` | a request's local variables: what it asks for, the unlock and the epoch it began in, the step it continues, the place chosen, its sheet and its answer |
| `listener`, `thread` | the unlock whose listener took a connection, and the redemption that connection's thread is in |
| `entered`, `notes`, `wire`, `consents` | the `Allowed` entries and their follow-ups, the reply that carries a value, what was approved: history for the properties |

`Admit` takes the one flow slot and with it the pending step the request
continues. `Gates`, `Locate`, `Report`, `Choose`, `Raise` or `Pass`, and `Issue`
are gates 2 to 9; each has its refusal, which drops the slot. `Redeem` takes the
grant out and compares it; `Release` is the transaction of `audited_release`;
`Settle` decides under the broker's mutex whether the flow still waits, and only
then does the value go (`Reply`). Meanwhile `GiveUp` may run out of time, the
extension may report an outcome or disconnect (`Close`), and a lock may take the
grant. A grant the extension has used for the user name leaves a step (`Keep`)
that a second request continues without another sheet, until `EndPending`.

A time limit is a step that may come at any time. A standing grant or a test
login stands for the sheet (`Pass`). `ImplementsGate` instantiates
`ReleaseGate` with the first unlock: its approvals, its entries, and a gate that
shuts for good when the vault leaves that unlock's handle. A thread that was
served before it still runs after it, and after the next unlock.

### Unattended runs

`UnattendedRuns` has one job with one grant. A launch (`ReadArm` to `AddRun`)
is read from the armed handle, checked, decided, released to, spawned and only
then put into the registry of runs; the index is then the run's and its
monitor's (`TimeOut`, `Reap`, `CloseRun`). A request binds to a live run, then
asks for the granted command (reservation, release, spawn, registration) or
for something no grant covers (a strike: suspend, end the run). A pauser is a
thread in `Core::disarm`: it takes the handle, looks for the live runs, ends
them one by one and drops the key.

| Variable | In the code |
|---|---|
| `machine`, `arms`, `taken` | `Core::machine`, and the handles whose key was dropped |
| `suspended`, `uses` | the grant in the machine vault |
| `run` | the launch's local variables, then `Run`: `ended`, the root, the closed `ChildRegistry`, the reservations counted |
| `req` | a request thread: the handle it read, the run it is bound to, its command and whether it is tracked |
| `pause` | a disarming thread: the handle it took and the runs it has left to end |
| `releases`, `unwritten`, `late` | history for the properties |

Every transaction on the machine vault may fail, the executable may have been
replaced at any decision, and the uses counted may start at any value.

### Shared vaults

Nothing of a shared vault's state is stored but records. `SharedView` is the
pure part: `linearize`'s order of roster records, the role of each member after
each of them, the authority of a record at the heads it names, the key ring, the
versions accepted and the merged item. `SharedVault` is the part that moves: a
replica file and the handle a process has on it (they differ after a lost reply
or a restore), `copies` that a backup or a sync tool took of the file, an exchange directory that records reach one by one and are read
from one by one in any order, transactions that take in what the device itself
published before they number what they write, invitations, removals with their
rotation and role changes. `Backup` keeps the file as it is at any moment and
`Restore` puts back any copy, older or newer, also one with a record that was never
exported. `revived` is history for the properties: the records of a device that it
no longer had anywhere, neither in its replica nor in the directory, when a restore
brought them back. One process has a replica.

## 3. Runs

| Run | Instance | Checks | States |
|---|---|---|---|
| `vault_concurrent` | 2 sessions, edits and drafts queued before and during a closure, 2 failing system calls, 1 crash, 1 lock file removed, possibly no vault at first | `TypeOK`, `NoWriterBetween`, `OneWriter`, `SweepSparesWriters`, `NoDraftLost`, `DraftsWrittenOnce` | 0.9 million |
| `vault_conflict` | 2 sessions, 2 device keys, password changes, 1 replacement of the file by another program | `ImplementsJournal`, `NoLostUpdate`, `NothingIrreplaceableDropped`, `PasswordChangeSawSlot`, `KnowledgeNeverGoesBack` | 2.0 million |
| `vault_liveness` | 2 sessions queueing a draft, 1 failure, 1 crash, 1 lock file removed, 1 replacement of the file and what its user answers, fairness | `MemoryWasCommitted`, `NoDraftLost`, `CallsEnd` | 0.5 million |
| `vault_restored_twice` | 1 session, 2 failures, 2 replacements | refutes `DraftsWrittenOnce` (section 5) | |
| `agent_leases` | 2 threads, 3 commands of one scope, leases of 2 uses, 1 failing write, 1 cleanup | `TypeOK`, `EachUseOnce`, `ApprovedByPerson`, `ImplementsGate` | 1.7 million |
| `agent_shutdown` | 2 threads, 1 release of any kind, 2 cleanups, 1 failure, 1 file of the user's, fairness | `NoChildEscapes`, `LockedMeansLocked`, `UserFilesSpared`, `RequestsEnd`, `CleanupsEnd` | 0.2 million |
| `agent_two_writers` | 2 threads, 2 writes to one path, 1 cleanup | refutes `FilesDieWithTheLock` (section 5) | |
| `agent_fill` | 2 calls, 2 browser sessions, pages for one box, the other, or another site, 2 unlocks, 1 lock or revocation, fairness | `TypeOK`, `ReleasedToApproved`, `AnswersTrue`, `ImplementsGate`, `FlowsEnd` | 0.7 million |
| `agent_fill_refused_step` | 2 calls, 1 session, no lock | refutes `RefusedStepsRecorded` (section 5) | |
| `unattended_runs` | 2 launches, 2 requests, 1 disarming thread, 1 arm, 2 uses in all, 1 per run | `TypeOK`, `UsesCounted`, `PerRunLimit`, `NoCommandOutlivesRun`, `DisarmEndsRuns`, `StruckRunGetsNothing` | 2.8 million |
| `shared_vault` | an admin, a writer, a device that may join; 2 item versions, 1 change of the roster, 2 copies of the writer's replica, 2 restores or lost replies (less of it at once, see below) | `TypeOK`, `PositionsPublishedOnce`, `MembersAgree`, `RotationKeepsOut`, `AcceptedStays`, `OwnWriteShown` | 0.1 million |
| `shared_late_epoch` | an admin, a writer, a member to be removed; 1 item version | refutes `RemovedReadsNothingNew` (section 5) | |

`CHECK_DEADLOCK FALSE` everywhere: with every counter at its bound and nobody in
a call an instance stops; the program does not.

### Bounds

**Vault.** Two sessions are every pairwise race of writers; the theorems below
hold for any number. Entries 2 and images 3 or 4 (the first one included) let
both sessions write, one of them twice, with a draft in the queue and one
chained, so that an order can be wrong. Two failures are what an ambiguous
write needs (the reply and then the read-back); one crash and one removed lock
file each meet every other step. One interference lets the file go backwards,
vanish or be replaced, before or after the user's answer; two, in
`vault_restored_twice`, let it go back and forth. The theorems hold for any
number of each.

`disturbed` marks the sessions that another program left writing over something
they had not read: `ensure_current` and the write are two system calls, so a
lock file removed, or a file replaced by a program that takes no lock, between
them cannot be seen; `lock.rs` says so. The properties that exclude disturbed
sessions hold of everybody else, whatever the disturbed ones do, and a session
is disturbed only from the interference to the end of its call.

**Agent.** A lease of two uses and three calls on two connections: one use taken
at the grant, one by a second call, and a third call that finds none, with the
grant, an expiry or a cleanup between any two of their steps. Two cleanups let a
lock meet a stop, a revocation or another lock over one release; one user's file
can appear before the look, between the look and the write, or between the write
and the shred. The theorems lift every one of these bounds for safety.

**Agent fills.** Two calls are a sign-in in two pages, or two fills of which the
first leaves a thread in its redemption while the second runs. Two sessions let
one redeem, answer or disconnect while the other has the grant, or take the
place of one that disconnected. There is one agent and one tab, so the instance
does not tell the comparison of agents and tabs from none; that of sessions,
pages and fields it does. One lock or revocation meets every step, and one more
unlock every thread that the first one left behind.

**Unattended.** Two launches of one job are every race at the check for a running
job; two requests race for the last reservation of a run and for one registry.
One arm is enough for what holds between an arm and the next; the proofs hold
for any number of arms. That a disarm ends is not checked: under fairness the
instance with two runs and two requests is too large for a run.

**Shared vault.** With two item versions there is one conflict, sequential or
concurrent, with times in any order, and one deletion; with one change of the
roster every item may be written before, after or beside it. `AcceptedStays`,
`MembersAgree` and `RotationKeepsOut` are checked and proved with one admin on purpose
(section 5); the positions and what a writer is shown are proved for any number.
One lost reply is what it takes for a handle to be behind its file. Two copies, two
restores and two versions let a replica go back to the older copy, write again and go
forward to the newer one, which is what it takes to publish a position twice
(section 5). `BoundedSpec` of `MCSharedVault` is `Spec` without the steps that leave
`Bounded`, which keeps the instance small: where the roster changes there is one lost reply or restore, and either both item
versions or one version beside a copy. The theorems hold for any number of each.

### Fairness

`VaultFile!FairSpec`: weak fairness of every step of a call, since a thread
inside a call is scheduled until the call returns, and strong fairness of
`LockBusy`, since `acquire` compares a clock with its deadline on every round of
polling and the rounds do not stop the clock. Callers are not fair: nobody has
to call anything, crash or interfere.

`AgentService!FairSpec`: weak fairness of each thread's `RequestStep` and of each
worker's `CleanStep`. A thread in a request is scheduled, a mutex that is free is
got, the deadline of `ask` comes (`NotAnswered`), and a child ends by itself, at
its time limit, or killed (`ChildEnds`). `PersonStep`, `HostStep`, `RequestBegins`
and `OutsideStep` are not fair: nobody has to answer a sheet. `RequestsEnd` and
`CleanupsEnd` therefore also exclude a deadlock of request threads, the lock hook
and the unhooking of `stop` over the handle's mutex and the list of hooks.

`AgentFill!FairSpec`: weak fairness of each request's steps and of the time limit
of its sheet. The probe, the grant, the redemption and the report of the page
are waited for with deadlines (`wait_for_delivery`), so nothing is asked of the
person, the extension, the agent, or even of the thread that has the grant:
`FlowsEnd` holds when that thread never comes back.

### Mutants

Each property of a passing run has a mutant, a definition changed the way a
slip in the code would change it (an unchecked continuity, a rollback that
keeps memory, a sweep before the lock, a lock check left out, a shred by path, a
rotation that goes by the roster before the removal, a value sent although the
flow has given up), and the run finds the
property violated with it.

## 4. Theorems

TLAPS proves these for every value of the constants, with the assumptions
`LockAssumption`, `VaultAssumption`, `AgentAssumption`, `FillAssumption`,
`UnattendedAssumption` and `SharedAssumption`: types, that the names of the
application, the host and nobody are not threads, that there is a place and an
agent, that leases have uses, that the pages are pages, and that the launches, the
request threads (the process started finitely many of them by any moment) and the
founders of a shared vault are finitely many. `Calm` says that so far no other program
replaced the vault file or took its lock file away; whatever fails, crashes or loses
its reply is still allowed. The last four have one more hypothesis, `OneAdmin`: an invitation or a change of role makes nobody an admin, and
no copy of the admin's replica is put back. The run `shared_vault` has one
admin in that sense, and a writer whose replica is put back. Section 5 says what goes
wrong without each half of it.

| Module | Theorem | Statement |
|---|---|---|
| `VaultFileProofs` | `LockMutualExclusion` | `LockSpec => []LockExclusive` |
| | `VaultLockInv` | `Spec => []LockInv` |
| | `TypeCorrectness` | `Spec => []TypeOK` |
| | `WriterInvariant` | `Spec => []WriterInv` |
| | `NoWriterComesBetween` | `Spec => []NoWriterBetween` |
| | `WritersExclude` | `Spec => []OneWriter` |
| | `UpdateInvariant` | `Spec => []UpdateInv` |
| | `NoUpdateLost` | `Spec => NoLostUpdate` |
| `VaultMemoryProofs` | `MemoryInvariant` | `Spec => []MemoryInv` |
| | `MemoryCommitted` | `Spec => []MemoryWasCommitted` |
| | `KnowledgeGrows` | `Spec => KnowledgeNeverGoesBack` |
| | `IrreplaceableKept` | `Spec => NothingIrreplaceableDropped` |
| | `LiveTemporariesStay` | `Spec => []SweepSparesWriters` |
| | `PasswordChangeFits` | `Spec => PasswordChangeSawSlot` |
| `VaultJournalProofs` | `DraftsSurvive` | `Spec => []NoDraftLost` |
| | `VaultImplementsJournal` | `Spec => ImplementsJournal` |
| | `DraftsChainedOnce` | `Spec => [](Calm => DraftsWrittenOnce)` |
| `AgentServiceProofs` | `AgentInvariant` | `Spec => []AgentInv` |
| | `AgentTypeCorrect` | `Spec => []TypeOK` |
| | `UsesSpentOnce` | `Spec => []EachUseOnce` |
| | `LeasesApproved` | `Spec => []ApprovedByPerson` |
| | `ChildrenDoNotEscape` | `Spec => []NoChildEscapes` |
| | `UserFilesAreSpared` | `Spec => UserFilesSpared` |
| | `AgentImplementsGate` | `Spec => ImplementsGate` |
| | `AgentShuts` | `Spec => []ShutInv` |
| | `AgentLockedMeansLocked` | `Spec => []LockedMeansLocked` |
| `AgentFillProofs` | `FillInvariant` | `Spec => []FillInv` |
| | `FillTypeCorrect` | `Spec => []TypeOK` |
| | `FillsApproved` | `Spec => []ReleasedToApproved` |
| | `FillImplementsGate` | `Spec => ImplementsGate` |
| | `FillTells` | `Spec => []TellingInv` |
| | `FillAnswersTrue` | `Spec => []AnswersTrue` |
| `UnattendedRunsProofs` | `RunsInvariant` | `Spec => []RunsInv` |
| | `RunsTypeCorrect` | `Spec => []TypeOK` |
| | `RunsPerRunLimit` | `Spec => []PerRunLimit` |
| | `RunsNoCommandOutlives` | `Spec => []NoCommandOutlivesRun` |
| | `RunsDisarmEnds` | `Spec => []DisarmEndsRuns` |
| | `RunsStruckGetsNothing` | `Spec => StruckRunGetsNothing` |
| | `RunsUsesCounted` | `Spec => []UsesCounted` |
| `SharedVaultProofs` | `SharedTypeCorrect` | `Spec => []TypeOK` |
| | `SharedPositions` | `Spec => []PositionsInv` |
| | `SharedPublishedOnce` | `Spec => []PositionsPublishedOnce` |
| | `SharedFresh` | `Spec => []FreshInv` |
| | `SharedOwnWriteShown` | `Spec => []OwnWriteShown` |
| `SharedRosterProofs` | `SharedRoster` | `OneAdmin /\ Spec => []RosterInv` |
| | `SharedAcceptedStays` | `OneAdmin /\ Spec => []AcceptedStays` |
| | `SharedMembersAgree` | `OneAdmin /\ Spec => []MembersAgree` |
| | `SharedRotationKeepsOut` | `OneAdmin /\ Spec => []RotationKeepsOut` |

### The vault

`LockInv` is inductive for the lock alone: a flock is taken only
when nobody owns the inode's, and an inode created later is never one a session
has locked (`HandlesCreated`). Every step of the vault is a step of the lock or
leaves it unchanged (`StepIsLockStep`), so `LockInv` carries over.

`NoWriterBetween` is not inductive: from `file = base[s]` alone, nothing keeps
another session from renaming. `WriterInv` adds why it cannot. A session has
the lock from its read to its write (`WindowUnderLock`); an undisturbed writer
passed its last check, and only an interference makes the path name another
inode (`WriterStillCurrent`), so two undisturbed writers would own one inode's
flock, which `LockExclusive` excludes; and while the path names the locked inode
the file is the base (`BaseStillCurrent`): the step that writes either has the
same inode, hence is the same session, or is disturbed and then disturbs
everybody in the window (`Overrun`).

`NoLostUpdate` needs more about memory: `UpdateInv` adds that generations are
given out once and an image is known by its generation (`GenerationsInv`), that
what a session knows of the file is what its memory builds on (`KnownInv`), and
what `mem`, `base`, `sealed` and `goal` are in each phase of a call
(`CallInv`). With `WriterInv` the file a transaction replaces is its base, the
image extends the base, and an overwrite's base is what its user confirmed.

`MemoryInv` says what a session holds in each phase of a call. Between calls, and
until a call has read the file, memory is some image of `past`: that is
`MemoryWasCommitted`, but it is inductive only with `Restores`, because a rollback
takes memory back to what `base` or `undo` held all along. `Descends` relates the
body being built to what is known, so what a session knows only grows; `Keeps`
relates its device keys, removals and version to the base, which `NoWriterBetween`
makes the file that is replaced. For `SweepSparesWriters`, as long as nobody
removed the lock file every open handle is of the one inode (`Untampered`), so
two sessions are never under the lock at once (`OneHolder`) and a sweep finds
nobody else about to rename.

`DraftInv` follows the drafts: they are in `pending` between calls and in
`carried` during one; what a write carries is in the log it writes
(`CarriedInLog`), so a write that lands puts it on disk; and the drafts an
unconfirmed write attempted are still the first of the queue, and in the log it
attempted (`QueueAttempted`), so settling it drops only what some file holds.

`VaultImplementsJournal` puts these together. `Commit`, `WriteTemp`, a failing
write, the sweeps and the lock are stutters; `Rename` is where the journal grows.
With `NoWriterBetween` the file a session nobody disturbed replaces is its base:
a transaction's base is what it knows, an overwrite's what was agreed. A
disturbed session may overrun the journal, which the journal allows to the
`exposed`. A failing call must leave the view alone: a rollback restores the base,
which is what is known, and an overwrite the version it knew (`BasisKnown`). A
read-back that finds its own image is a refresh.

`DraftsChainedOnce` is about the whole history of the file and all sessions at once.
`OnceInv` has what makes it inductive while the vault is calm. The file continues every
image there was (`FileGrows`), so nobody ever meets a conflict and every catch-up
succeeds (`NothingToOverride`). No session holds an entry twice (`HeldOnce`), and no
two sessions have one that either may yet write (`Unwritten`). And of what is queued
between calls, the file has only what an unconfirmed write put there, and then it
continues what that write attempted (`OnlyLanded`), which is exactly what settling
looks at (`SettledOnce`). A failing write knows whether it landed: the file is its
base, or, when it reads back, its own image (`OnBase`), because one session at a time
holds the lock (`OneHolder`). A landing adds to the file only what its author alone
had unwritten, so what others have queued stays off it (`LandOnce`).

### The agent

`AgentInv` (end of `AgentService`) says why the four promises hold together.

* `EachUseOnce` speaks of uses already spent; nothing in it keeps a request
  that has set a use aside from spending the one another request spent.
  `UsesInv` adds that the uses set aside are pairwise different, different from
  those spent, and all above what the lease has left, so the next reservation
  takes a new one. A grant resets the count, which is safe only because the
  call that is granted never had a lease (`AnswersInv`) and calls have numbers
  of their own (`CallsInv`).
* `ApprovedByPerson`: an allow in the queue belongs to the call that waits for
  it, and only a thread that waits has a question.
* `UserFilesSpared` needs that no ledger entry and nothing about to be shredded
  names a file of the user's (`LedgerInv`).
* `ImplementsGate`: a commit is a release because its thread holds the handle's
  mutex (so the gate is open, and may shut with the mutex), its use was granted
  and not spent, and its call has released nothing (`ReleasesInv`); a grant is a
  grant because the call has none; everything else leaves the gate alone or
  shuts it. The step of a transaction that fails after a lock raised the flag is
  where the gate shuts.

`LockedMeansLocked` is about states at rest, and says nothing of the way there.
`ShutInv` follows what is left of a lock through the cleanups. Each of them is a
list of things to do (`CleanupInv`: a thread's is its own, the host has one only
once the vault was taken, and a hook is taken down only by a stop). A lease that
outlives the lock has a revocation to come, or is that of a call granted between
the vault's going and its own release, which gives it back (`LeasesGoing`). A
file is overtaken by a slower writer, about to be shredded, about to be recorded,
or recorded with a revocation to come or its writer still to look
(`FilesGoing`). At rest nothing is to come, and the overtaken files are left.

### Agent fills

`FillInv` (end of `AgentFill`) is the argument for `ReleasedToApproved` and
`ImplementsGate`, in five parts.

* `FlowInv`: a call past its admission holds the one flow, and a grant in the flow
  is of the call that waits for it.
* `ConsentsInv`: an approval is recorded once, and stays true of its call: the call
  is decided from then on, and its target and fields never change again.
* `StepsInv`: a step that waits for its second page is of an approved two-page
  sign-in, and waits once; a call that continues a step (`Continuation`) is the
  only one that does, asks for the password alone, and is of the same agent in the
  same unlock. That is why two calls on one approval write different fields and
  spend different uses (`OneApprovalTwoSteps`).
* `UnlockInv`: a grant, or a waiting step, is of this unlock unless the vault is
  gone and the host's hook, which `take` runs, has still to revoke; the next unlock
  comes only after that hook. A flow that is late is caught by `lock_epoch`. So the
  listener that redeems a grant serves the unlock the grant was made in.
* `RedeemedInv`: a grant is stored, being redeemed or entered, one of them and
  once; what is entered is what the approval said.

`ImplementsGate` follows: an approval grants what no call had before; a release
finds the vault in the handle of its unlock, and spends a use (one, or two for a
sign-in in two pages) that no other call on the approval has; a lock or an unlock
shuts the first unlock's gate; everything else leaves the gate alone.

`AnswersTrue` compares what the agent was told with what became of the value, and
the two meet in no single step: the browser's thread sends, the agent's waits.
`TellingInv` relates them. What the flow has heard, it heard of its own call, and
a value that was sent was sent by the thread the flow names (`FlowHears`); a value
that was released and has not gone out is with the session it was approved for
(`ValuesGo`); and an entry has its settlement or its conclusion to come, or the
agent was told, or a follow-up was written (`NotesInv`). Each of the three needs
`FillInv`: that a call is entered once, and that a step is continued once.

### Unattended runs

`RunsInv`: requests are of runs that were added (`RequestsBound`); what a run
counts is what it was released plus what its requests have reserved
(`CountsAddUp`, with the cardinality of a finite set of requests); an untended
command is in a registry that is still open (`CommandsTracked`); a strike's
suspension was written or failed before the run ends (`StrikesWritten`); and
once every disarm looked for the runs, a live run is one it is about to end or
could not find (`RunsFound`).

`UsesCounted` is about a sum over all runs, which a release changes in one place.
The sum is taken run by run in the order `CHOOSE` picks them, and where the run
that is released comes in that order is not known: that adding one to one of the
terms adds one to the sum (`OneMoreSummed`) is a statement about every set of
runs. The library's induction takes an operator; here it is done with sets: a set
of naturals has a least member (`LeastNatural`, from the well-foundedness of <), so
a set that holds 0 and all successors holds every natural (`InductiveSet`), and a
set of sets of runs that is closed under one run more holds them all
(`SubrunsInduction`). `SumsExist` shows in the same way that the recursive
function the sum is defined by exists.

### Shared vaults

Here the state is small and the operators are not. What a device computes from its
records are three recursive functions (the order of the roster, the roles after
each record of it, the ancestors of a version), and nothing can be said of any of
them before it exists: `GrownExists`, `HistoryExists` and `AncestryExists`, by
`InductiveSet` as above, each function extended by one value at a time. Then
`OrderLinear`: the order has each record at most once, and after those it builds
on; `RosterIs`: there is a role for everybody before the first record, nobody's,
and after each; `CurrentIsKey`: a device that holds a key has a newest one.

`PositionsPublishedOnce` is about the directory, which no transaction looks at for
the records of others. `PositionsInv` says that whatever left its author, into the
directory, another replica or a copy of another replica, is no further than
something the author published. A transaction starts after all that its device
published (`import_own`) and all that its replica holds, so what it numbers is new
among everything in use. A record that only a copy of its author's own replica has
is not in use, and its position may be given out again; when the copy is put back,
the record is in `revived`, and the invariant and the property except it. They hold
for any number of copies and restores, in any order.

`OwnWriteShown` compares a version with all that its author holds, and `FreshInv`
says what the version stands on: the heads of the roster, the newest key, and the
tips. That this is enough is three arguments about the operators.

* Its author accepts it (`OwnAccepted`). Today's role is not read anywhere: a
  version is judged after the latest head it names. The last record that changed
  anybody's role is a head, since what builds on a record comes after it, so the
  role after the latest head is today's (`HeadsCarry`). The version changes neither
  the roster nor the keys it is judged by (`ItemChangesNoView`).
* It descends from every other accepted version (`AllAncestors`): a greatest one
  that it does not descend from would be no tip, and so a parent of a later one
  that it does descend from.
* The merge then shows it (`NewestShown`): a deletion beats all it descends from,
  and of the versions that set the value it is the only one no other descends from.

A view depends on its records alone (`ViewSame`), so what the author held when it
wrote gives the same view in the next state, with one record more signed.

The other three properties compare views of different devices, or of one device at
different times, so they need to know what records there can be, and not only what
the operators do with them. `RosterInv` (end of `SharedVault`) says it for one admin,
in five parts, each about the records signed and none about the order they travel in.

* `ChainInv`: roster records have one author, which holds all it signed; each names
  the one before it. So a device has, of what it holds, the beginning of that chain
  that is without a gap (`Lead`), and that is what `linearize` returns (`OrderIsLead`);
  the roles after a record are the same for whoever has got that far (`SameRoles`). A
  version is judged at records it names, once they are here: `AcceptedStays`
  (`ChainAccepts`).
* `AppliesInv`: each of them made sense when it was signed, so `fold` skips none, and
  the roles are what the records say they are (`RolesAre`).
* `MembersInv`, `EpochsInv`: a device is added once and removed after that; an epoch
  directly follows its removal, is for the members that are left (`MembersAt`) and
  higher than all before it. So the newest key of whoever holds a removal and its
  epoch is that one or a later one, and the removed device is in the audience of
  none of these: `RotationKeepsOut` (`RotatedOut`). That a later grant does not give
  it one back is because grants are to a device just added, and nobody is added
  twice.
* `GrantsInv`: a device has a replica only by an invitation, and the replica came
  with a grant of every key there was then; of a later epoch it is in the audience
  as long as it is a member. So members have the same keys for the same records:
  `MembersAgree` (`KeysAgree`).

Each step is what `OpApplies` needs (the draft suits the roles its author saw, which
are today's because the admin holds everything) and then one lemma per part.

### Only model-checked

`DraftsWrittenOnce` once the lock file was removed: `vault_concurrent` checks it for one
removal and two sessions, and it fails after two removals with three sessions and when
a file goes backwards twice (section 5). What
remains of `MembersAgree`, `RotationKeepsOut` and `AcceptedStays` with several admins
is not stated: they fail as they are (section 5).
`CallsEnd`, `RequestsEnd`, `CleanupsEnd` and `FlowsEnd` are liveness, out of the
prover's reach.

## 5. Where the code and its comments disagree

1. `vault/mod.rs` lines 30 to 32 and 1583 to 1584 say that the drafts of a write
   with an unknown outcome are never chained a second time. Line 2078 (and 1373)
   concludes that the write did not land when it reads the generation the
   session already knew. If the write landed, an older copy was put back, read,
   and then replaced by the newer one, the drafts are chained twice
   (`vault_restored_twice`). As long as no other program touches the vault file or its
   lock file the promise holds (`DraftsChainedOnce`), and with one lock file removed it
   holds for the sessions of `vault_concurrent`.
2. `lease.rs` lines 242 to 244 and `docs/mcp-server.md` lines 583 to 590 say that
   the file recorded at a path is the last one kagisecure wrote there and that a
   lock shreds it. `service.rs` lines 2393 and 2394 write and record in two steps:
   of two requests for one path, the slower one records the file that the faster
   one replaced, and a lock then leaves the newer file (`agent_two_writers`).
   `LockedMeansLocked` excepts exactly those files.
3. `docs/threat-model.md` lines 623 to 625 and `admin/remove.rs` lines 6 and 7 say
   that nothing written by a device that has seen a removal can be read by the
   removed one. The removal and its epoch are two records and may arrive apart;
   `write.rs` line 213 writes under the newest key at hand
   (`shared_late_epoch`). Once both have arrived the promise holds
   (`RotationKeepsOut`).

4. `extension/agent_fill.rs` lines 217 to 220 and decision 0036 (line 662) say that
   when the second step of a sign-in is refused, the pending step is spent and the
   first step's entry gets a follow-up that says so. `admit` takes the pending step
   (line 1147); gates 2 to 4 of `request_fill` (`service.rs` 997 to 1044) may then
   refuse, and the slot is dropped with the step in it and no follow-up is written
   (`agent_fill_refused_step`). Later refusals do write it.

Also seen while modelling; no run is about these.

* The drafts of item 1 are also chained twice when no file is put back but the lock
  file is removed twice, which lets three writers in beside each other. The first
  one's write lands and its reply is lost. The third then reads that version, and the
  second replaces it by one built on the older base. The first refreshes from that, and
  settles its write as one that did not land; the third writes the continuation of the
  version that had; and the first chains its drafts again. TLC finds it with three
  sessions, two removals and one lost reply.
* `vault/mod.rs` lines 88 to 91 say that entries a closure chained are queued again
  when the write fails. The rollback drops them, as lines 1275 to 1277 and a test
  say.
* The lock tool has answered, and a redemption that took its grant before
  `revoke_all` still commits its entry and sends the value: it never reads
  `lock_requested`, as a release of the agent service does (`prepare_release`,
  `service.rs` 2996 to 3001). It ends when the vault leaves its handle, which is
  what `AgentFill!ImplementsGate` takes for the gate.
* A browser session that deregisters between its page's report and `keep_pending`
  leaves a pending step that counts as reachable until its window closes
  (`agent_fill.rs` 1033 to 1036 say such a step dies with its session); a request
  that continues it finds no browser to ask and is refused.
* The holder of an orphaned lock may sweep a live writer's temporary before its
  own check notices the orphan; the writer's rename then fails and it backs out.
  This is why `SweepSparesWriters` asks that no lock file was removed.
* A revocation between a write and its record (`service.rs` 2393, `agent.rs` 459)
  finds no entry to shred: the file lives to the next lock.
* A file that appears at a path between `Look` and the write is replaced, under a
  lease that allowed to overwrite. `envfile::write` looks and renames in two
  system calls.
* The reopening at the end of `revoke_all_leases` (`agent.rs` 486) can reopen a
  queue that a lock has just closed. The gate refuses what is then asked.
* An `Allowed` entry may be written after `stop` was called; the act is then
  refused or undone, and the entry stays.
* Two triggers of one job both pass the check for a running one
  (`unattended/mod.rs` 331) before either is in the registry (446).
* A run that is being launched while `disarm` looks for the live ones (269) is
  put into the registry afterwards and lives to its deadline, although the
  comment at 267 says that every run is ended. `DisarmEndsRuns` and its theorem
  say these are the only ones.
* `unattended/service.rs` lines 376 to 379: a request already bound goes on when
  the suspension of a strike cannot be written; `StruckRunGetsNothing` excepts it.
* A run's program may call before its run is in the registry, and is refused as
  a caller outside of any run; a run whose monitor thread cannot be started stays
  in the registry (`mod.rs` 446 to 462).
* A version whose value equals one of its two parents' "sets" nothing, so a
  person who resolves a conflict may be shown a third version (`merge.rs` 497 to
  512); `OwnWriteShown` excepts it.
* A position is published twice when a device's replica goes back and then forward:
  it writes a record and the export fails, a copy is taken, an older copy is put back
  and the application restarts, it writes another record under the same number
  (`write.rs` 51 to 75 goes by what it holds and what it published) and publishes it,
  the first copy is put back, and `export_dir` (`admin/exchange.rs` 154 to 164)
  publishes the first record too. `write.rs` 4 to 7 speaks only of numbers already
  published; `PositionsPublishedOnce` excepts a record that was lost and brought back.
* With two admins acting at once, a roster record that arrives late may be
  ordered before one already applied and so take back an acceptance; two admins
  who demote each other or themselves at once are settled by record ids, and may
  leave a roster nobody can change. Of two rotations at once the record ids pick
  the epoch to write under, and the one they pick may be wrapped to the device the
  other removed (`RotationKeepsOut`); an invitation beside a rotation grants the
  keys from before it (`MembersAgree`). The three are stated for one admin.
* One admin can do it alone, when a copy of its replica is put back. An export
  writes a replica's records in the order of their ids (`admin/exchange.rs` 154 to
  160, `exchange.rs`), so one that is cut short may publish a later removal and not
  the earlier one. With the copy put back and the published record taken in, the
  admin signs its next removal after one whose predecessor it does not hold; the heads
  that record names are older than they seem, and a version that names it is
  accepted until the predecessor arrives and orders the two otherwise. TLC finds it
  for `AcceptedStays` when the creator is among `Restorable`; the theorems exclude it
  (`OneAdmin`).

## 6. Not modelled

In the vault: the recovery and platform slots (the same compare-and-install as
the password slot) and the machine vault's key (a key in the body like a
device's); the fingerprint shortcut of a refresh (a refresh may settle an
unconfirmed write or not); a vault that is unreadable or of a newer schema (a
file that does not open); `save`, which only tests can call; the branch of the
rollback for a session that has no generation, which no call reaches;
`last_save_error`, which only reports; the names of backups; a lock file put
back after it was renamed away.

In the agent: brokers and the machine vault behind the same handle, the shared
environment branch of `reserve`, the tools that list and store, best-effort audit
entries, the durations a person may choose, the number of sheets on screen, pipes
and the construction of environments. The instant between `envfile::shred`'s last
look at a path and its unlink is left out of `Shredded`; `envfile.rs` documents it.

In agent fills: the limits on an agent (a request may be refused whenever a limit
could refuse it), one-time codes and sign-ups (other fields on the same path), the
tripwire that looks at a page after a fill, several items, and `stop`.

In unattended runs: the schedule and missed times, run browsers and login grants,
expiry, resuming an arm at a start, lifting a suspension, `Engine::stop` (which
ends the runs before it joins the scheduler).

In shared vaults: several devices of one member, environments, more than one
item and field, bundles beyond the invitation, damaged or misnamed files,
acknowledgements, `rebuild_from`, limits on sizes, and two processes on one replica: with
a second process whose handle still has the lost record, one restore is enough for
the position published twice of section 5.

Whole components, with the reason (the same list is in `PROJECT.json`):

* The fill leases of requests that a browser makes itself (`fill_lease.rs`) are a
  second, simpler path to the same release; the browser transport carries frames.
  Unattended and test logins drive external programs one command at a time, and
  stand for the sheet in `AgentFill` (`Pass`).
* The application bridge's presence prompt (one in flight, settled or refused at
  a lock) is small; the rest of it converts.
* The headless host decides each request by a signed bundle, one connection at a
  time, over the release modelled here.
* Formats, encodings and cryptography have no state; the MCP server, the command
  line and the importers turn one request into one transaction; the front ends,
  packaging, fuzzing and end-to-end tests are outside.

## 7. What could come next

1. The bridge's presence prompt beside `AgentFill`, with one prompt in flight.
2. How many lock files removed `DraftsWrittenOnce` withstands: TLC finds none that
   breaks it with two sessions and one removal; the proof allows none.
3. The schedule of unattended jobs, and that a disarm ends.
4. Two admins on two devices at once, and what then remains of `MembersAgree`.
5. What an admin whose replica was set back would have to check before it signs.
