--------------------------- MODULE UnattendedRuns ---------------------------
(***************************************************************************)
(* Unattended jobs (kagisecure-agent, unattended/): while the machine      *)
(* vault is armed, the engine starts runs of a job, and the processes of a *)
(* live run are given values under the job's standing grant with nobody    *)
(* present. This module has one job with one grant, over a command that is *)
(* also the job's own program.                                             *)
(*                                                                         *)
(* A launcher is a scheduler pass or Run now; once it has started a run    *)
(* the same index is the run's, and its monitor's. A request is a thread   *)
(* serving a call on the unattended socket. A pauser is a thread in        *)
(* Core::disarm: Pause, a lock request, or a vault that diverged.          *)
(*                                                                         *)
(* A transaction on the machine vault is one step, which may fail: what    *)
(* its lock and its atomic write are made of is in VaultFile. Left out:    *)
(* the schedule, run browsers and login grants, expiry, lifting a          *)
(* suspension, resuming an arm and Engine::stop.                           *)
(***************************************************************************)
EXTENDS Integers, FiniteSets, FiniteSetsExt

CONSTANTS
  Runs,        \* launches, and the runs they start
  Requests,    \* threads that serve the unattended socket
  Pausers,     \* threads that disarm
  TotalUses,   \* the grant's limits.total_uses
  PerRun,      \* the grant's limits.per_run
  NoRun,       \* the run of a request that is not bound to one
  MaxArms      \* bound: how often the vault is armed

ASSUME UnattendedAssumption ==
  /\ {MaxArms, TotalUses} \subseteq Nat /\ PerRun \in Nat \ {0}
  /\ IsFiniteSet(Runs) /\ IsFiniteSet(Requests) /\ NoRun \notin Runs

VARIABLES
  machine,     \* Core::machine: the arm in force, 0 for none
  arms,        \* how often the vault was armed
  taken,       \* the arms whose key was dropped
  suspended,   \* the grant is suspended
  uses,        \* the grant's uses
  run,         \* run[r]: the launch, the run and its monitor
  req,         \* req[q]: the request and the command it released
  pause,       \* pause[d]: the disarm
  releases,    \* history: how often values were released to each run
  unwritten,   \* history: runs whose strike could not suspend the grant
  late         \* history: launches a disarm did not find among the runs

vault == <<suspended, uses>>
arming == <<machine, arms, taken>>
history == <<releases, unwritten, late>>
vars == <<arming, vault, run, req, pause, history>>

Arms == 0..MaxArms
Launching == {"armed", "checked", "granting", "plain", "granted",
              "spawned"}
RunPhases == Launching \cup {"idle", "failed", "listed", "reaped", "gone"}
ReqPhases == {"idle", "armed", "bound", "striking", "ending", "reserved",
              "released", "spawned", "running"}

RunState == [phase : RunPhases, arm : Arms, granted : BOOLEAN,
             root : {"none", "alive", "killed", "dead"},
             ended : {"no", "DISARMED", "STRIKE", "TIMED_OUT"},
             closed : BOOLEAN, count : 0..PerRun]
ReqState == [phase : ReqPhases, arm : Arms, run : Runs \cup {NoRun},
             child : {"none", "alive", "killed"}, tracked : BOOLEAN]
PauseState == [phase : {"idle", "took", "ending"}, arm : Arms,
               targets : SUBSET Runs]

IdleRequest == [phase |-> "idle", arm |-> 0, run |-> NoRun, child |-> "none",
                tracked |-> FALSE]

TypeOK ==
  /\ machine \in Arms /\ arms \in Arms /\ taken \subseteq Arms
  /\ suspended \in BOOLEAN /\ uses \in 0..TotalUses
  /\ run \in [Runs -> RunState]
  /\ req \in [Requests -> ReqState]
  /\ pause \in [Pausers -> PauseState]
  /\ releases \in [Runs -> Nat]
  /\ unwritten \subseteq Runs /\ late \subseteq Runs

Init ==
  /\ machine = 0 /\ arms = 0 /\ taken = {}
  /\ suspended = FALSE /\ uses \in 0..TotalUses
  /\ run = [r \in Runs |->
              [phase |-> "idle", arm |-> 0, granted |-> FALSE, root |-> "none",
               ended |-> "no", closed |-> FALSE, count |-> 0]]
  /\ req = [q \in Requests |-> IdleRequest]
  /\ pause = [d \in Pausers |-> [phase |-> "idle", arm |-> 0, targets |-> {}]]
  /\ releases = [r \in Runs |-> 0] /\ unwritten = {} /\ late = {}
-----------------------------------------------------------------------------
(* What the actions share.                                                 *)

\* RunRegistry::live.
Live(r) == run[r].phase = "listed" /\ run[r].ended = "no"

\* The machine vault behind an arm's handle can be used.
Open(a) == a # 0 /\ a \notin taken

\* A check that forgets the limit on uses.
Unsuspended == ~suspended

\* The grant still answers: suspended and limits.total_uses.
Usable == ~suspended /\ uses < TotalUses

\* Run::end: the first reason stays, and the root's process group is killed.
End(state, reason) ==
  [state EXCEPT
     !.ended = IF state.ended = "no" THEN reason ELSE @,
     !.root  = IF @ = "alive" THEN "killed" ELSE @]

\* ChildRegistry::kill_all: run r's tracked commands are killed.
KilledIn(r) ==
  [q \in Requests |->
     IF req[q].run = r /\ req[q].tracked
     THEN [req[q] EXCEPT !.child = "killed", !.tracked = FALSE]
     ELSE req[q]]

RunGoes(r, phase) == run' = [run EXCEPT ![r].phase = phase]
ReqGoes(q, phase) == req' = [req EXCEPT ![q].phase = phase]
ReqEnds(q) == req' = [req EXCEPT ![q] = IdleRequest]
-----------------------------------------------------------------------------
(* Arming and disarming.                                                   *)

\* arm: a new handle is installed and an earlier one dropped.
Arm ==
  /\ arms < MaxArms
  /\ arms' = arms + 1
  /\ machine' = arms + 1
  /\ taken' = taken \cup ({machine} \ {0})
  /\ UNCHANGED <<vault, run, req, pause, history>>

\* disarm takes the handle out; a second disarm finds none.
TakeArm(d) ==
  /\ pause[d].phase = "idle" /\ machine # 0
  /\ machine' = 0
  /\ pause' = [pause EXCEPT ![d] = [@ EXCEPT !.phase = "took", !.arm = machine]]
  /\ UNCHANGED <<arms, taken, vault, run, req, history>>

\* The live runs, as disarm's loop is about to go through them.
FindRuns(d) ==
  /\ pause[d].phase = "took"
  /\ pause' = [pause EXCEPT ![d] = [@ EXCEPT !.phase = "ending",
                                           !.targets = {r \in Runs : Live(r)}]]
  /\ late' = late \cup {r \in Runs : run[r].phase \in Launching}
  /\ UNCHANGED <<arming, vault, run, req, releases, unwritten>>

\* Closes the registries and leaves the roots to their deadline.
EndCommandsOnly(d, r) ==
  /\ pause[d].phase = "ending" /\ r \in pause[d].targets
  /\ pause' = [pause EXCEPT ![d].targets = @ \ {r}]
  /\ run' = [run EXCEPT ![r].closed = TRUE]
  /\ req' = KilledIn(r)
  /\ UNCHANGED <<arming, vault, history>>

\* One pass of the loop: the run is ended and its registry drained.
EndRun(d, r) ==
  /\ pause[d].phase = "ending" /\ r \in pause[d].targets
  /\ pause' = [pause EXCEPT ![d].targets = @ \ {r}]
  /\ run' = [run EXCEPT ![r] = [End(@, "DISARMED") EXCEPT !.closed = TRUE]]
  /\ req' = KilledIn(r)
  /\ UNCHANGED <<arming, vault, history>>

\* The arm record is cleared, or is not; the key goes either way.
DropKey(d) ==
  /\ pause[d].phase = "ending" /\ pause[d].targets = {}
  /\ taken' = taken \cup {pause[d].arm}
  /\ pause' = [pause EXCEPT ![d].phase = "idle"]
  /\ UNCHANGED <<machine, arms, vault, run, req, history>>
-----------------------------------------------------------------------------
(* Launching a run.                                                        *)

ReadArm(r) ==
  /\ run[r].phase = "idle" /\ machine # 0
  /\ run' = [run EXCEPT ![r] = [@ EXCEPT !.phase = "armed", !.arm = machine]]
  /\ UNCHANGED <<arming, vault, req, pause, history>>

\* NoSuchJob once the key is gone, AlreadyRunning while the job has a live run,
\* and a root that is not the pinned one is not started either.
CheckJob(r) ==
  /\ run[r].phase = "armed"
  /\ \/ /\ Open(run[r].arm) /\ ~ \E other \in Runs : Live(other)
        /\ RunGoes(r, "checked")
     \/ run' = [run EXCEPT ![r] = [@ EXCEPT !.phase = "idle", !.arm = 0]]
  /\ UNCHANGED <<arming, vault, req, pause, history>>

\* start::decide. The executable may have been replaced since it was pinned:
\* start::suspend then writes the suspension, or fails to.
DecideStart(r) ==
  /\ run[r].phase = "checked"
  /\ LET usable == Open(run[r].arm) /\ Usable
     IN  \/ usable /\ RunGoes(r, "granting") /\ UNCHANGED suspended
         \/ usable /\ RunGoes(r, "plain") /\ suspended' \in {suspended, TRUE}
         \/ ~usable /\ RunGoes(r, "plain") /\ UNCHANGED suspended
  /\ UNCHANGED <<arming, uses, req, pause, history>>

\* start_with_grant up to the commit: Refused starts the program without the
\* values, Locked and AuditUnavailable do not start it.
ReleaseAtStart(r) ==
  /\ run[r].phase = "granting"
  /\ \/ /\ Open(run[r].arm) /\ Usable
        /\ uses' = uses + 1
        /\ releases' = [releases EXCEPT ![r] = @ + 1]
        /\ run' = [run EXCEPT ![r] = [@ EXCEPT !.phase = "granted",
                                               !.granted = TRUE]]
     \/ /\ Open(run[r].arm) /\ ~Usable
        /\ RunGoes(r, "plain") /\ UNCHANGED <<uses, releases>>
     \/ RunGoes(r, "failed") /\ UNCHANGED <<uses, releases>>
  /\ UNCHANGED <<arming, suspended, req, pause, unwritten, late>>

\* The root starts in a process group of its own, or cannot be started.
SpawnRoot(r) ==
  /\ run[r].phase \in {"plain", "granted"}
  /\ \/ run' = [run EXCEPT ![r] = [@ EXCEPT !.phase = "spawned", !.root = "alive"]]
     \/ RunGoes(r, "failed")
  /\ UNCHANGED <<arming, vault, req, pause, history>>

\* The release at the start counts as one of the run's; runs.add and the monitor.
AddRun(r) ==
  /\ run[r].phase = "spawned"
  /\ run' = [run EXCEPT ![r] =
                [@ EXCEPT !.phase = "listed",
                          !.count = IF run[r].granted THEN 1 ELSE 0]]
  /\ UNCHANGED <<arming, vault, req, pause, history>>
-----------------------------------------------------------------------------
(* The end of a run: its root and its monitor.                             *)

\* A root that was killed, or that is done.
RootExits(r) ==
  /\ run[r].root \in {"alive", "killed"}
  /\ run' = [run EXCEPT ![r].root = "dead"]
  /\ UNCHANGED <<arming, vault, req, pause, history>>

\* monitor, at the deadline of a root not yet killed.
TimeOut(r) ==
  /\ run[r].phase = "listed" /\ run[r].root = "alive"
  /\ run' = [run EXCEPT ![r] = End(@, "TIMED_OUT")]
  /\ UNCHANGED <<arming, vault, req, pause, history>>

\* mark_finished.
Reap(r) ==
  /\ run[r].phase = "listed" /\ run[r].root = "dead"
  /\ RunGoes(r, "reaped")
  /\ UNCHANGED <<arming, vault, req, pause, history>>

\* The run's commands are killed, and the run is removed.
CloseRun(r) ==
  /\ run[r].phase = "reaped"
  /\ run' = [run EXCEPT ![r] = [@ EXCEPT !.phase = "gone", !.closed = TRUE]]
  /\ req' = KilledIn(r)
  /\ UNCHANGED <<arming, vault, pause, history>>
-----------------------------------------------------------------------------
(* A request.                                                              *)

ReadArmFor(q) ==
  /\ req[q].phase = "idle" /\ machine # 0
  /\ req' = [req EXCEPT ![q] = [@ EXCEPT !.phase = "armed", !.arm = machine]]
  /\ UNCHANGED <<arming, vault, run, pause, history>>

\* bind: the caller is a process of run r; OUTSIDE_RUN is refused.
Bind(q, r) ==
  /\ req[q].phase = "armed"
  /\ \/ /\ Live(r) /\ run[r].root # "dead"
        /\ req' = [req EXCEPT ![q] = [@ EXCEPT !.phase = "bound", !.run = r]]
     \/ ReqEnds(q)
  /\ UNCHANGED <<arming, vault, run, pause, history>>

\* A request that no grant covers: decide, stdin delivery or an env file.
AskMore(q) ==
  /\ req[q].phase = "bound"
  /\ ReqGoes(q, "striking")
  /\ UNCHANGED <<arming, vault, run, pause, history>>

\* A strike that ends the run and leaves the grant.
StrikeRunOnly(q) ==
  /\ req[q].phase = "striking"
  /\ ReqGoes(q, "ending")
  /\ UNCHANGED <<arming, vault, run, pause, history>>

\* strike: every grant of the job is suspended, if that can be written.
Strike(q) ==
  /\ req[q].phase = "striking"
  /\ ReqGoes(q, "ending")
  /\ \/ Open(req[q].arm) /\ suspended' = TRUE /\ UNCHANGED unwritten
     \/ unwritten' = unwritten \cup {req[q].run} /\ UNCHANGED suspended
  /\ UNCHANGED <<arming, uses, run, pause, releases, late>>

\* ... and the run is ended.
EndStruckRun(q) ==
  /\ req[q].phase = "ending"
  /\ run' = [run EXCEPT ![req[q].run] = End(@, "STRIKE")]
  /\ ReqEnds(q)
  /\ UNCHANGED <<arming, vault, pause, history>>

\* A reservation of one use more than the limit.
ReservableUpTo(r) == run[r].count <= PerRun

\* Run::reserve: the run has uses left.
Reservable(r) == run[r].count < PerRun

\* decide on a covered command, and the reservation of one of the run's uses. A
\* pin or a value that changed suspends the grant, if that can be written.
Ask(q) ==
  /\ req[q].phase = "bound"
  /\ LET r == req[q].run
         usable == Open(req[q].arm) /\ Usable
     IN  \/ /\ usable /\ Reservable(r)
            /\ run' = [run EXCEPT ![r].count = @ + 1]
            /\ ReqGoes(q, "reserved")
            /\ UNCHANGED suspended
         \/ /\ usable /\ suspended' \in {suspended, TRUE}
            /\ ReqEnds(q) /\ UNCHANGED run
         \/ /\ ~(usable /\ Reservable(r))
            /\ ReqEnds(q) /\ UNCHANGED <<run, suspended>>
  /\ UNCHANGED <<arming, uses, pause, history>>

Unreserve(q) == run' = [run EXCEPT ![req[q].run].count = @ - 1]

\* The flush and the release's transaction: the use is counted, or nothing is
\* written, or the grant refuses, and the reservation is given back.
Release(q) ==
  /\ req[q].phase = "reserved"
  /\ \/ /\ Open(req[q].arm) /\ Usable
        /\ uses' = uses + 1
        /\ releases' = [releases EXCEPT ![req[q].run] = @ + 1]
        /\ ReqGoes(q, "released")
        /\ UNCHANGED run
     \/ /\ Unreserve(q) /\ ReqEnds(q)
        /\ UNCHANGED <<uses, releases>>
  /\ UNCHANGED <<arming, suspended, pause, unwritten, late>>

\* A command that cannot be started gives its use back.
SpawnOrGiveBack(q) ==
  /\ req[q].phase = "released"
  /\ \/ /\ req' = [req EXCEPT ![q] = [@ EXCEPT !.phase = "spawned",
                                                 !.child = "alive"]]
        /\ UNCHANGED run
     \/ ReqEnds(q) /\ Unreserve(q)
  /\ UNCHANGED <<arming, vault, pause, history>>

\* The command starts with the values, or cannot be started.
Spawn(q) ==
  /\ req[q].phase = "released"
  /\ \/ req' = [req EXCEPT ![q] = [@ EXCEPT !.phase = "spawned", !.child = "alive"]]
     \/ ReqEnds(q)
  /\ UNCHANGED <<arming, vault, run, pause, history>>

\* Registering whatever became of the run.
RegisterAlways(q) ==
  /\ req[q].phase = "spawned"
  /\ req' = [req EXCEPT ![q] = [@ EXCEPT !.phase = "running", !.tracked = TRUE]]
  /\ UNCHANGED <<arming, vault, run, pause, history>>

\* ChildRegistry::register: a closed registry kills the command.
Register(q) ==
  /\ req[q].phase = "spawned"
  /\ req' = [req EXCEPT ![q] =
                IF run[@.run].closed
                THEN [@ EXCEPT !.phase = "running", !.child = "killed"]
                ELSE [@ EXCEPT !.phase = "running", !.tracked = TRUE]]
  /\ UNCHANGED <<arming, vault, run, pause, history>>

\* The command ends, is killed or reaches its timeout; deregister.
CommandEnds(q) ==
  /\ req[q].phase = "running"
  /\ ReqEnds(q)
  /\ UNCHANGED <<arming, vault, run, pause, history>>
-----------------------------------------------------------------------------
RunStep(r) ==
  \/ ReadArm(r) \/ CheckJob(r) \/ DecideStart(r) \/ ReleaseAtStart(r)
  \/ SpawnRoot(r) \/ AddRun(r)
  \/ RootExits(r) \/ TimeOut(r) \/ Reap(r) \/ CloseRun(r)

ServeStep(q) ==
  \/ ReadArmFor(q)
  \/ \E r \in Runs : Bind(q, r)
  \/ AskMore(q) \/ Strike(q) \/ EndStruckRun(q) \/ Ask(q)
  \/ Release(q) \/ Spawn(q) \/ Register(q) \/ CommandEnds(q)

PauseStep(d) ==
  \/ TakeArm(d) \/ FindRuns(d) \/ DropKey(d)
  \/ \E r \in Runs : EndRun(d, r)

Next ==
  \/ Arm
  \/ \E d \in Pausers : PauseStep(d)
  \/ \E r \in Runs : RunStep(r)
  \/ \E q \in Requests : ServeStep(q)

Spec == Init /\ [][Next]_vars
-----------------------------------------------------------------------------
(* Properties.                                                             *)

\* Every release, at a start or on request, is one of the uses the grant counts,
\* and they keep to its limit (start.rs, service.rs run_with_env).
UsesCounted ==
  MapThenSumSet(LAMBDA r : releases[r], Runs) <= uses /\ uses <= TotalUses

\* No run is released values more often than per_run, whatever its requests
\* reserve at once and give back (runs.rs reserve and unreserve).
PerRunLimit == \A r \in Runs : releases[r] <= PerRun

\* A strike ends what the job's grants give (service.rs strike): a run that was
\* struck is released nothing more by a request it had going, unless the
\* suspension could not be written.
StruckRunGetsNothing ==
  [][\A r \in Runs :
       releases'[r] # releases[r] =>
         run[r].ended # "STRIKE" \/ r \in unwritten]_vars

\* Once a run's registry was drained no command of it is left running, but for one
\* that was started and is about to be refused by the registry (children.rs
\* register, runs.rs).
NoCommandOutlivesRun ==
  \A q \in Requests, r \in Runs :
    req[q].run = r /\ (run[r].closed \/ run[r].phase = "gone") =>
      req[q].child \in {"none", "killed"} \/ req[q].phase = "spawned"

Pausing == \E d \in Pausers : pause[d].phase # "idle"

\* When the vault is not armed and no disarm is under way, the only live runs
\* left are those that were being launched while a disarm looked for the runs it
\* ends (mod.rs disarm, launch).
DisarmEndsRuns ==
  machine = 0 /\ ~Pausing => \A r \in Runs : Live(r) => r \in late
-----------------------------------------------------------------------------
(* Why they hold: an inductive invariant.                                  *)

Started == {"listed", "reaped", "gone"}
Reserved(r) == {q \in Requests : req[q].phase = "reserved" /\ req[q].run = r}

\* Requests are of runs that were added.
RequestsBound ==
  \A q \in Requests :
    req[q].phase \notin {"idle", "armed"} =>
      req[q].run \in Runs /\ run[req[q].run].phase \in Started

\* What a run counts is what it was released and what its requests hold.
CountsAddUp ==
  \A r \in Runs :
    /\ run[r].phase \in Started =>
         run[r].count = releases[r] + Cardinality(Reserved(r))
    /\ run[r].phase \notin Started =>
         run[r].count = 0 /\ releases[r] = IF run[r].granted THEN 1 ELSE 0
    /\ run[r].phase \in {"idle", "armed", "checked", "granting", "plain"} =>
         ~run[r].granted

\* A command that is left alone is in a registry that is not closed.
CommandsTracked ==
  /\ \A q \in Requests :
       /\ req[q].tracked => req[q].phase = "running" /\ ~run[req[q].run].closed
       /\ req[q].child = "alive" => req[q].phase = "spawned" \/ req[q].tracked
  /\ \A r \in Runs : run[r].phase = "gone" => run[r].closed

\* A run is struck after the suspension was written, or failed.
StrikesWritten ==
  /\ \A q \in Requests :
       req[q].phase = "ending" => suspended \/ req[q].run \in unwritten
  /\ \A r \in Runs : run[r].ended = "STRIKE" => suspended \/ r \in unwritten

\* Once disarmed, and once every disarm looked for the runs, each live run is one
\* that a disarm is about to end or could not find.
RunsFound ==
  machine = 0 /\ (\A d \in Pausers : pause[d].phase # "took") =>
    \A r \in Runs :
      /\ run[r].phase \in Launching => r \in late
      /\ Live(r) => \/ r \in late
                    \/ \E d \in Pausers : /\ pause[d].phase = "ending"
                                           /\ r \in pause[d].targets

RunsInv == /\ TypeOK /\ RequestsBound /\ CountsAddUp /\ CommandsTracked
           /\ StrikesWritten /\ RunsFound
=============================================================================
