------------------------- MODULE UnattendedRunsProofs -------------------------
(***************************************************************************)
(* Proofs about unattended runs: for any number of launches, requests and  *)
(* pausers and any limits of the grant, RunsInv is an invariant, and with  *)
(* it a run's limit, the end of its commands, what a strike leaves and     *)
(* what a disarm leaves; and no more is released than the grant counts.    *)
(***************************************************************************)
EXTENDS UnattendedRuns, FiniteSetTheorems, WellFoundedInduction, TLAPS

(***************************************************************************)
(* Records.                                                                *)
(***************************************************************************)

\* The updates of a run's record that the actions make.
LEMMA RunFields ==
  \A s \in RunState :
    /\ \A p \in RunPhases : [s EXCEPT !.phase = p] \in RunState
    /\ \A p \in RunPhases, a \in Arms :
         [s EXCEPT !.phase = p, !.arm = a] \in RunState
    /\ \A p \in RunPhases :
         /\ [s EXCEPT !.phase = p, !.granted = TRUE] \in RunState
         /\ [s EXCEPT !.phase = p, !.root = "alive"] \in RunState
         /\ [s EXCEPT !.phase = p, !.closed = TRUE] \in RunState
    /\ \A p \in RunPhases, n \in 0..PerRun :
         [s EXCEPT !.phase = p, !.count = n] \in RunState
    /\ \A n \in 0..PerRun : [s EXCEPT !.count = n] \in RunState
    /\ [s EXCEPT !.root = "dead"] \in RunState
    /\ [s EXCEPT !.closed = TRUE] \in RunState
BY ZenonT(60) DEF RunState

\* Run::end changes why the run ended, once, and its root.
LEMMA EndFields ==
  ASSUME NEW s \in RunState, NEW reason \in {"DISARMED", "STRIKE", "TIMED_OUT"}
  PROVE  /\ End(s, reason) \in RunState
         /\ End(s, reason).phase = s.phase
         /\ End(s, reason).granted = s.granted
         /\ End(s, reason).closed = s.closed
         /\ End(s, reason).count = s.count
         /\ End(s, reason).ended \in {s.ended, reason}
         /\ End(s, reason).ended # "no"
BY DEF RunState, End

LEMMA ReqFields ==
  \A s \in ReqState :
    /\ \A p \in ReqPhases : [s EXCEPT !.phase = p] \in ReqState
    /\ \A p \in ReqPhases, a \in Arms :
         [s EXCEPT !.phase = p, !.arm = a] \in ReqState
    /\ \A p \in ReqPhases, r \in Runs :
         [s EXCEPT !.phase = p, !.run = r] \in ReqState
    /\ \A p \in ReqPhases, c \in {"none", "alive", "killed"} :
         [s EXCEPT !.phase = p, !.child = c] \in ReqState
    /\ \A p \in ReqPhases : [s EXCEPT !.phase = p, !.tracked = TRUE] \in ReqState
    /\ [s EXCEPT !.child = "killed", !.tracked = FALSE] \in ReqState
BY DEF ReqState

LEMMA IdleRequestType == IdleRequest \in ReqState
BY UnattendedAssumption DEF IdleRequest, ReqState, ReqPhases, Arms

LEMMA PauseFields ==
  \A s \in PauseState :
    /\ \A a \in Arms : [s EXCEPT !.phase = "took", !.arm = a] \in PauseState
    /\ \A T \in SUBSET Runs :
         /\ [s EXCEPT !.phase = "ending", !.targets = T] \in PauseState
         /\ [s EXCEPT !.targets = T] \in PauseState
    /\ [s EXCEPT !.phase = "idle"] \in PauseState
BY DEF PauseState

(***************************************************************************)
(* Reservations.                                                           *)
(***************************************************************************)

\* There are finitely many requests, so a run's reservations can be counted.
LEMMA ReservedCounted ==
  \A r : IsFiniteSet(Reserved(r)) /\ Cardinality(Reserved(r)) \in Nat
<1> TAKE r
<1>1. Reserved(r) \subseteq Requests
  BY DEF Reserved
<1>2. IsFiniteSet(Reserved(r))
  BY <1>1, FS_Subset, UnattendedAssumption
<1> QED BY <1>2, FS_CardinalityType

\* A request that holds a reservation is counted in its run.
LEMMA ReservationCounted ==
  ASSUME TypeOK, RequestsBound, CountsAddUp,
         NEW q \in Requests, req[q].phase = "reserved"
  PROVE  /\ req[q].run \in Runs /\ run[req[q].run].phase \in Started
         /\ run[req[q].run].count \in 1..PerRun
<1> DEFINE r == req[q].run
<1>1. r \in Runs /\ run[r].phase \in Started
  BY DEF RequestsBound
<1>2. q \in Reserved(r)
  BY DEF Reserved
<1>3. Cardinality(Reserved(r)) # 0
  BY <1>2, ReservedCounted, FS_EmptySet
<1>4. Cardinality(Reserved(r)) \in Nat
  BY ReservedCounted
<1>5. run[r].count = releases[r] + Cardinality(Reserved(r))
  BY <1>1 DEF CountsAddUp
<1>6. releases[r] \in Nat /\ run[r] \in RunState
  BY <1>1 DEF TypeOK
<1>7. run[r].count \in 0..PerRun
  BY <1>6 DEF RunState
<1> HIDE DEF r
<1>8. run[r].count \in 1..PerRun
  BY <1>3, <1>4, <1>5, <1>6, <1>7, UnattendedAssumption
<1> QED BY <1>1, <1>8 DEF r

(***************************************************************************)
(* Types.                                                                  *)
(***************************************************************************)

\* Launches, runs and their monitors keep the types.
LEMMA RunTypes ==
  ASSUME TypeOK, CountsAddUp, NEW r \in Runs, RunStep(r)
  PROVE  TypeOK'
<1> USE DEF RunPhases, Launching, arming, vault, history, RunGoes
<1>0. run[r] \in RunState /\ 0 \in Arms /\ {0, 1} \subseteq 0..PerRun
  BY UnattendedAssumption DEF TypeOK, Arms
<1>1. CASE ReadArm(r)
  <2>1. [run[r] EXCEPT !.phase = "armed", !.arm = machine] \in RunState
    BY <1>0, RunFields DEF TypeOK
  <2> QED BY <1>1, <2>1 DEF ReadArm, TypeOK
<1>2. CASE CheckJob(r)
  <2>1. /\ [run[r] EXCEPT !.phase = "checked"] \in RunState
        /\ [run[r] EXCEPT !.phase = "idle", !.arm = 0] \in RunState
    BY <1>0, RunFields
  <2> QED BY <1>2, <2>1 DEF CheckJob, TypeOK
<1>3. CASE DecideStart(r)
  <2>1. /\ [run[r] EXCEPT !.phase = "granting"] \in RunState
        /\ [run[r] EXCEPT !.phase = "plain"] \in RunState
    BY <1>0, RunFields
  <2> QED BY <1>3, <2>1 DEF DecideStart, TypeOK
<1>4. CASE ReleaseAtStart(r)
  <2>1. /\ [run[r] EXCEPT !.phase = "granted", !.granted = TRUE] \in RunState
        /\ [run[r] EXCEPT !.phase = "plain"] \in RunState
        /\ [run[r] EXCEPT !.phase = "failed"] \in RunState
    BY <1>0, RunFields
  <2>2. run' \in [Runs -> RunState]
    BY <1>4, <2>1 DEF ReleaseAtStart, TypeOK
  <2>3. uses' \in 0..TotalUses /\ releases' \in [Runs -> Nat]
    BY <1>4, UnattendedAssumption DEF ReleaseAtStart, TypeOK, Usable
  <2> QED BY <1>4, <2>2, <2>3 DEF ReleaseAtStart, TypeOK
<1>5. CASE SpawnRoot(r)
  <2>1. /\ [run[r] EXCEPT !.phase = "spawned", !.root = "alive"] \in RunState
        /\ [run[r] EXCEPT !.phase = "failed"] \in RunState
    BY <1>0, RunFields
  <2> QED BY <1>5, <2>1 DEF SpawnRoot, TypeOK
<1>6. CASE AddRun(r)
  <2>1. [run[r] EXCEPT !.phase = "listed",
                       !.count = IF run[r].granted THEN 1 ELSE 0] \in RunState
    BY <1>0, RunFields
  <2> QED BY <1>6, <2>1 DEF AddRun, TypeOK
<1>7. CASE RootExits(r)
  <2>1. [run[r] EXCEPT !.root = "dead"] \in RunState
    BY <1>0, RunFields
  <2> QED BY <1>7, <2>1 DEF RootExits, TypeOK
<1>8. CASE TimeOut(r)
  <2>1. End(run[r], "TIMED_OUT") \in RunState
    BY <1>0, EndFields
  <2> QED BY <1>8, <2>1 DEF TimeOut, TypeOK
<1>9. CASE Reap(r)
  <2>1. [run[r] EXCEPT !.phase = "reaped"] \in RunState
    BY <1>0, RunFields
  <2> QED BY <1>9, <2>1 DEF Reap, TypeOK
<1>10. CASE CloseRun(r)
  <2>1. [run[r] EXCEPT !.phase = "gone", !.closed = TRUE] \in RunState
    BY <1>0, RunFields
  <2>2. KilledIn(r) \in [Requests -> ReqState]
    BY ReqFields DEF KilledIn, TypeOK
  <2> QED BY <1>10, <2>1, <2>2 DEF CloseRun, TypeOK
<1> QED
  BY <1>1, <1>2, <1>3, <1>4, <1>5, <1>6, <1>7, <1>8, <1>9, <1>10 DEF RunStep

\* Arming and disarming keep the types.
LEMMA PauseTypes ==
  ASSUME TypeOK, Arm \/ \E d \in Pausers : PauseStep(d)
  PROVE  TypeOK'
<1> USE DEF arming, vault, history
<1>1. CASE Arm
  BY <1>1, UnattendedAssumption DEF Arm, TypeOK, Arms
<1>2. ASSUME NEW d \in Pausers, PauseStep(d) PROVE TypeOK'
  <2>0. pause[d] \in PauseState /\ 0 \in Arms
    BY UnattendedAssumption DEF TypeOK, Arms
  <2>1. CASE TakeArm(d)
    <3>1. [pause[d] EXCEPT !.phase = "took", !.arm = machine] \in PauseState
      BY <2>0, PauseFields DEF TypeOK
    <3> QED BY <2>0, <2>1, <3>1 DEF TakeArm, TypeOK
  <2>2. CASE FindRuns(d)
    <3>1. [pause[d] EXCEPT !.phase = "ending",
                           !.targets = {r \in Runs : Live(r)}] \in PauseState
      BY <2>0, PauseFields
    <3> QED BY <2>2, <3>1 DEF FindRuns, TypeOK
  <2>3. CASE DropKey(d)
    <3>1. [pause[d] EXCEPT !.phase = "idle"] \in PauseState
      BY <2>0, PauseFields
    <3>2. pause[d].arm \in Arms
      BY <2>0 DEF PauseState
    <3> QED BY <2>3, <3>1, <3>2 DEF DropKey, TypeOK
  <2>4. ASSUME NEW r \in Runs, EndRun(d, r) PROVE TypeOK'
    <3>1. pause[d].targets \ {r} \in SUBSET Runs
      BY <2>0 DEF PauseState
    <3>2. [pause[d] EXCEPT !.targets = @ \ {r}] \in PauseState
      BY ZenonT(60), <2>0, <3>1, PauseFields
    <3>3. [End(run[r], "DISARMED") EXCEPT !.closed = TRUE] \in RunState
      BY EndFields, RunFields DEF TypeOK
    <3>4. KilledIn(r) \in [Requests -> ReqState]
      BY ReqFields DEF KilledIn, TypeOK
    <3> QED BY <2>4, <3>2, <3>3, <3>4 DEF EndRun, TypeOK
  <2> QED BY <1>2, <2>1, <2>2, <2>3, <2>4 DEF PauseStep
<1> QED BY <1>1, <1>2

\* Requests keep the types.
LEMMA ServeTypes ==
  ASSUME TypeOK, RequestsBound, CountsAddUp, NEW q \in Requests, ServeStep(q)
  PROVE  TypeOK'
<1> USE DEF ReqPhases, arming, vault, history, ReqGoes, ReqEnds
<1>0. req[q] \in ReqState
  BY DEF TypeOK
<1>1. CASE ReadArmFor(q)
  <2>1. [req[q] EXCEPT !.phase = "armed", !.arm = machine] \in ReqState
    BY <1>0, ReqFields DEF TypeOK
  <2> QED BY <1>1, <2>1 DEF ReadArmFor, TypeOK
<1>2. ASSUME NEW r \in Runs, Bind(q, r) PROVE TypeOK'
  <2>1. [req[q] EXCEPT !.phase = "bound", !.run = r] \in ReqState
    BY <1>0, ReqFields
  <2> QED BY <1>2, <2>1, IdleRequestType DEF Bind, TypeOK
<1>3. CASE AskMore(q)
  <2>1. [req[q] EXCEPT !.phase = "striking"] \in ReqState
    BY <1>0, ReqFields
  <2> QED BY <1>3, <2>1 DEF AskMore, TypeOK
<1>4. CASE Strike(q)
  <2>1. [req[q] EXCEPT !.phase = "ending"] \in ReqState
    BY <1>0, ReqFields
  <2>2. req[q].run \in Runs
    BY <1>4 DEF Strike, RequestsBound
  <2> QED BY <1>4, <2>1, <2>2 DEF Strike, TypeOK
<1>5. CASE EndStruckRun(q)
  <2>1. End(run[req[q].run], "STRIKE") \in RunState
    BY <1>5, EndFields DEF EndStruckRun, RequestsBound, TypeOK
  <2> QED BY <1>5, <2>1, IdleRequestType DEF EndStruckRun, TypeOK
<1>6. CASE Ask(q)
  <2>1. [req[q] EXCEPT !.phase = "reserved"] \in ReqState
    BY <1>0, ReqFields
  <2>2. req[q].run \in Runs /\ run[req[q].run] \in RunState
    BY <1>6 DEF Ask, RequestsBound, TypeOK
  <2>3. run[req[q].run].count < PerRun =>
          run[req[q].run].count + 1 \in 0..PerRun
    BY <2>2, UnattendedAssumption DEF RunState
  <2>4. run[req[q].run].count < PerRun =>
          [run[req[q].run] EXCEPT !.count = @ + 1] \in RunState
    BY <2>2, <2>3, RunFields
  <2> QED BY <1>6, <2>1, <2>2, <2>4, IdleRequestType DEF Ask, Reservable, TypeOK
<1>7. CASE Release(q)
  <2>1. [req[q] EXCEPT !.phase = "released"] \in ReqState
    BY <1>0, ReqFields
  <2>2. /\ req[q].run \in Runs /\ run[req[q].run] \in RunState
        /\ run[req[q].run].count \in 1..PerRun
    BY <1>7, ReservationCounted DEF Release, TypeOK
  <2>3. run[req[q].run].count - 1 \in 0..PerRun
    BY <2>2, UnattendedAssumption
  <2>4. [run[req[q].run] EXCEPT !.count = @ - 1] \in RunState
    BY <2>2, <2>3, RunFields
  <2>5. run' \in [Runs -> RunState] /\ req' \in [Requests -> ReqState]
    BY <1>7, <2>1, <2>4, IdleRequestType DEF Release, Unreserve, TypeOK
  <2>6. uses' \in 0..TotalUses /\ releases' \in [Runs -> Nat]
    BY <1>7, <2>2, UnattendedAssumption DEF Release, Usable, TypeOK
  <2> QED BY <1>7, <2>5, <2>6 DEF Release, TypeOK
<1>8. CASE Spawn(q)
  <2>1. [req[q] EXCEPT !.phase = "spawned", !.child = "alive"] \in ReqState
    BY <1>0, ReqFields
  <2> QED BY <1>8, <2>1, IdleRequestType DEF Spawn, TypeOK
<1>9. CASE Register(q)
  <2>1. /\ [req[q] EXCEPT !.phase = "running", !.child = "killed"] \in ReqState
        /\ [req[q] EXCEPT !.phase = "running", !.tracked = TRUE] \in ReqState
    BY <1>0, ReqFields
  <2> QED BY <1>9, <2>1 DEF Register, TypeOK
<1>10. CASE CommandEnds(q)
  BY <1>10, IdleRequestType DEF CommandEnds, TypeOK
<1> QED
  BY <1>1, <1>2, <1>3, <1>4, <1>5, <1>6, <1>7, <1>8, <1>9, <1>10 DEF ServeStep

(***************************************************************************)
(* What the steps leave alone.                                             *)
(***************************************************************************)

\* A drained registry changes only what becomes of commands.
LEMMA KilledInFields ==
  ASSUME TypeOK, NEW r \in Runs, req' = KilledIn(r), NEW q \in Requests
  PROVE  /\ req'[q].phase = req[q].phase
         /\ req'[q].run = req[q].run
         /\ req[q].run = r => ~req'[q].tracked
         /\ req[q].run # r => req'[q] = req[q]
         /\ req'[q].child = "alive" =>
              req[q].child = "alive" /\ ~(req[q].run = r /\ req[q].tracked)
         /\ req'[q].tracked => req[q].tracked
BY DEF TypeOK, ReqState, KilledIn

\* A step of a launch, a run or its monitor is about that run.
LEMMA RunStepKeeps ==
  ASSUME TypeOK, NEW r \in Runs, RunStep(r)
  PROVE  /\ \A x \in Runs \ {r} :
              run'[x] = run[x] /\ releases'[x] = releases[x]
         /\ \A q \in Requests :
              req'[q].phase = req[q].phase /\ req'[q].run = req[q].run
         /\ run[r].phase \in Started =>
              /\ run'[r].phase \in Started
              /\ run'[r].count = run[r].count
              /\ releases' = releases
         /\ run'[r].ended \in {run[r].ended, "TIMED_OUT"}
         /\ suspended => suspended'
         /\ UNCHANGED <<arming, pause, unwritten, late>>
<1> USE DEF Started, arming, vault, history, RunGoes
<1>1. CASE ReadArm(r)
  BY <1>1 DEF ReadArm, TypeOK, RunState
<1>2. CASE CheckJob(r)
  BY <1>2 DEF CheckJob, TypeOK, RunState
<1>3. CASE DecideStart(r)
  BY <1>3 DEF DecideStart, TypeOK, RunState
<1>4. CASE ReleaseAtStart(r)
  BY ZenonT(60), <1>4 DEF ReleaseAtStart, TypeOK, RunState
<1>5. CASE SpawnRoot(r)
  BY <1>5 DEF SpawnRoot, TypeOK, RunState
<1>6. CASE AddRun(r)
  BY <1>6 DEF AddRun, TypeOK, RunState
<1>7. CASE RootExits(r)
  BY <1>7 DEF RootExits, TypeOK, RunState
<1>8. CASE TimeOut(r)
  BY <1>8, EndFields DEF TimeOut, TypeOK
<1>9. CASE Reap(r)
  BY <1>9 DEF Reap, TypeOK, RunState
<1>10. CASE CloseRun(r)
  BY <1>10, KilledInFields DEF CloseRun, TypeOK, RunState
<1> QED
  BY <1>1, <1>2, <1>3, <1>4, <1>5, <1>6, <1>7, <1>8, <1>9, <1>10 DEF RunStep

\* Arming and disarming leave every run as far as it was, and its reservations.
LEMMA PauseStepKeeps ==
  ASSUME TypeOK, Arm \/ \E d \in Pausers : PauseStep(d)
  PROVE  /\ \A r \in Runs :
              /\ run'[r].phase = run[r].phase
              /\ run'[r].count = run[r].count
              /\ run'[r].granted = run[r].granted
              /\ run'[r].ended \in {run[r].ended, "DISARMED"}
         /\ \A q \in Requests :
              req'[q].phase = req[q].phase /\ req'[q].run = req[q].run
         /\ UNCHANGED <<vault, releases, unwritten>>
<1> USE DEF arming, vault, history
<1>1. ASSUME NEW d \in Pausers, NEW r \in Runs, EndRun(d, r)
      PROVE  /\ \A x \in Runs :
                  /\ run'[x].phase = run[x].phase
                  /\ run'[x].count = run[x].count
                  /\ run'[x].granted = run[x].granted
                  /\ run'[x].ended \in {run[x].ended, "DISARMED"}
             /\ \A q \in Requests :
                  req'[q].phase = req[q].phase /\ req'[q].run = req[q].run
             /\ UNCHANGED <<vault, releases, unwritten>>
  <2>1. End(run[r], "DISARMED") \in RunState
    BY EndFields DEF TypeOK
  <2>2. /\ run'[r].phase = run[r].phase
        /\ run'[r].count = run[r].count
        /\ run'[r].granted = run[r].granted
        /\ run'[r].ended \in {run[r].ended, "DISARMED"}
    BY <1>1, <2>1, EndFields DEF EndRun, TypeOK, RunState
  <2>3. \A x \in Runs \ {r} : run'[x] = run[x]
    BY <1>1 DEF EndRun, TypeOK
  <2> QED BY <1>1, <2>2, <2>3, KilledInFields DEF EndRun
<1> QED BY <1>1 DEF Arm, PauseStep, TakeArm, FindRuns, DropKey

(***************************************************************************)
(* Requests are of runs that were added.                                   *)
(***************************************************************************)

LEMMA RunRequestsBound ==
  ASSUME TypeOK, RequestsBound, NEW r \in Runs, RunStep(r)
  PROVE  RequestsBound'
BY RunStepKeeps DEF RequestsBound

LEMMA PauseRequestsBound ==
  ASSUME TypeOK, RequestsBound, Arm \/ \E d \in Pausers : PauseStep(d)
  PROVE  RequestsBound'
BY PauseStepKeeps DEF RequestsBound

\* A step of a request changes how far no run is.
LEMMA ServeStepKeeps ==
  ASSUME TypeOK, RequestsBound, NEW q \in Requests, ServeStep(q)
  PROVE  /\ \A r \in Runs :
              /\ run'[r].phase = run[r].phase
              /\ run'[r].granted = run[r].granted
              /\ run'[r].closed = run[r].closed
              /\ run'[r].ended \in {run[r].ended, "STRIKE"}
         /\ \A other \in Requests \ {q} : req'[other] = req[other]
         /\ suspended => suspended'
         /\ unwritten \subseteq unwritten'
         /\ UNCHANGED <<arming, pause, late>>
<1> USE DEF arming, vault, history, ReqGoes, ReqEnds
<1>1. CASE EndStruckRun(q)
  <2>1. req[q].run \in Runs
    BY <1>1 DEF EndStruckRun, RequestsBound
  <2> QED BY <1>1, <2>1, EndFields DEF EndStruckRun, TypeOK
<1>2. CASE Ask(q)
  <2>1. req[q].run \in Runs
    BY <1>2 DEF Ask, RequestsBound
  <2>2. run' = run \/ run' = [run EXCEPT ![req[q].run].count = @ + 1]
    BY <1>2 DEF Ask
  <2>3. \A r \in Runs : /\ run'[r].phase = run[r].phase
                        /\ run'[r].granted = run[r].granted
                        /\ run'[r].closed = run[r].closed
                        /\ run'[r].ended = run[r].ended
    BY <2>1, <2>2 DEF TypeOK, RunState
  <2>4. \A other \in Requests \ {q} : req'[other] = req[other]
    BY <1>2 DEF Ask, TypeOK
  <2>5. suspended' \in {suspended, TRUE}
    BY <1>2 DEF Ask
  <2>6. suspended => suspended'
    BY <2>5
  <2>7. UNCHANGED <<arming, pause, history>>
    BY <1>2 DEF Ask
  <2> QED BY <2>3, <2>4, <2>6, <2>7
<1>3. CASE Release(q)
  <2>1. req[q].run \in Runs
    BY <1>3 DEF Release, RequestsBound
  <2> QED BY <1>3, <2>1 DEF Release, Unreserve, TypeOK, RunState
<1>4. CASE ReadArmFor(q)
  BY <1>4 DEF ReadArmFor, TypeOK
<1>5. CASE \E r \in Runs : Bind(q, r)
  BY <1>5 DEF Bind, TypeOK
<1>6. CASE AskMore(q)
  BY <1>6 DEF AskMore, TypeOK
<1>7. CASE Strike(q)
  BY <1>7 DEF Strike, TypeOK
<1>8. CASE Spawn(q)
  BY <1>8 DEF Spawn, TypeOK
<1>9. CASE Register(q)
  BY <1>9 DEF Register, TypeOK
<1>10. CASE CommandEnds(q)
  BY <1>10 DEF CommandEnds, TypeOK
<1> QED
  BY <1>1, <1>2, <1>3, <1>4, <1>5, <1>6, <1>7, <1>8, <1>9, <1>10 DEF ServeStep

\* How far a request goes.
LEMMA ReqGoesFields ==
  ASSUME TypeOK, NEW q \in Requests
  PROVE  /\ \A p \in ReqPhases :
              ReqGoes(q, p) => /\ req'[q].phase = p
                               /\ req'[q].run = req[q].run
                               /\ req'[q].child = req[q].child
                               /\ req'[q].tracked = req[q].tracked
         /\ ReqEnds(q) => req'[q] = IdleRequest
BY DEF ReqGoes, ReqEnds, TypeOK, ReqState

\* A request stays in its run, once it is bound to one that was added.
LEMMA ServeRequestsBound ==
  ASSUME TypeOK, RequestsBound, NEW q \in Requests, ServeStep(q)
  PROVE  RequestsBound'
<1>0. /\ \A r \in Runs : run'[r].phase = run[r].phase
      /\ \A other \in Requests \ {q} : req'[other] = req[other]
  BY ServeStepKeeps
<1> SUFFICES req'[q].phase \notin {"idle", "armed"} =>
               req'[q].run \in Runs /\ run[req'[q].run].phase \in Started
  BY <1>0 DEF RequestsBound
<1>1. ReqEnds(q) => req'[q].phase = "idle"
  BY ReqGoesFields DEF IdleRequest
<1>2. ASSUME req'[q].run = req[q].run, req[q].phase \notin {"idle", "armed"}
      PROVE  req'[q].run \in Runs /\ run[req'[q].run].phase \in Started
  BY <1>2 DEF RequestsBound
<1>3. CASE \E r \in Runs : Bind(q, r)
  <2> SUFFICES ASSUME NEW r \in Runs, Bind(q, r), ~ReqEnds(q)
               PROVE  req'[q].run \in Runs /\ run[req'[q].run].phase \in Started
    BY <1>1, <1>3
  <2>1. req'[q].run = r
    BY DEF Bind, TypeOK, ReqState
  <2>2. run[r].phase = "listed"
    BY DEF Bind, Live
  <2> QED BY <2>1, <2>2 DEF Started
<1>4. CASE ReadArmFor(q)
  BY <1>4 DEF ReadArmFor, TypeOK, ReqState
<1>5. CASE AskMore(q) \/ Strike(q) \/ Ask(q) \/ Release(q)
  BY <1>1, <1>2, <1>5, ReqGoesFields DEF AskMore, Strike, Ask, Release, ReqPhases
<1>6. CASE EndStruckRun(q) \/ CommandEnds(q)
  BY <1>1, <1>6 DEF EndStruckRun, CommandEnds
<1>7. CASE Spawn(q) \/ Register(q)
  <2>1. CASE ReqEnds(q)
    BY <1>1, <2>1
  <2>2. CASE ~ReqEnds(q)
    <3>1. req'[q].run = req[q].run
      BY ZenonT(60), <1>7, <2>2 DEF Spawn, Register, TypeOK, ReqState
    <3> QED BY <1>2, <1>7, <3>1 DEF Spawn, Register
  <2> QED BY <2>1, <2>2
<1> QED BY <1>3, <1>4, <1>5, <1>6, <1>7 DEF ServeStep

(***************************************************************************)
(* What a run counts.                                                      *)
(***************************************************************************)

\* Reservations follow how far the requests are.
LEMMA SameReservations ==
  ASSUME \A q \in Requests :
           req'[q].phase = req[q].phase /\ req'[q].run = req[q].run
  PROVE  \A r : Reserved(r)' = Reserved(r)
BY DEF Reserved

LEMMA RunCounts ==
  ASSUME TypeOK, RequestsBound, CountsAddUp, NEW r \in Runs, RunStep(r)
  PROVE  CountsAddUp'
<1>1. /\ \A x : Reserved(x)' = Reserved(x)
      /\ \A x \in Runs \ {r} : run'[x] = run[x] /\ releases'[x] = releases[x]
  BY RunStepKeeps, SameReservations
<1> DEFINE Counted(n) ==
      /\ run'[r].phase \in Started => run'[r].count = releases'[r] + n
      /\ run'[r].phase \notin Started =>
           run'[r].count = 0 /\ releases'[r] = IF run'[r].granted THEN 1 ELSE 0
      /\ run'[r].phase \in {"idle", "armed", "checked", "granting", "plain"} =>
           ~run'[r].granted
<1> SUFFICES Counted(Cardinality(Reserved(r)))
  BY <1>1 DEF CountsAddUp
<1>2. CASE run[r].phase \in Started
  BY <1>2, RunStepKeeps DEF CountsAddUp, Started
<1>3. CASE run[r].phase \notin Started
  <2>0. /\ run[r].count = 0 /\ releases[r] = IF run[r].granted THEN 1 ELSE 0
        /\ run[r].phase \in {"idle", "armed", "checked", "granting", "plain"} =>
             ~run[r].granted
    BY <1>3 DEF CountsAddUp
  <2>1. Reserved(r) = {}
    BY <1>3 DEF Reserved, RequestsBound
  <2>2. Cardinality(Reserved(r)) = 0
    BY <2>1, FS_EmptySet
  <2>3. run[r] \in RunState
    BY DEF TypeOK
  <2> USE DEF Started, history, RunGoes
  <2> SUFFICES Counted(0)
    BY <2>2
  <2>5. CASE ReadArm(r)
    BY <1>3, <2>0, <2>3, <2>5 DEF ReadArm, TypeOK, RunState
  <2>6. CASE CheckJob(r)
    <3>1. /\ \/ run'[r] = [run[r] EXCEPT !.phase = "checked"]
             \/ run'[r] = [run[r] EXCEPT !.phase = "idle", !.arm = 0]
          /\ releases' = releases
      BY <2>6 DEF CheckJob, TypeOK
    <3> QED BY <2>0, <2>3, <2>6, <3>1 DEF CheckJob, RunState
  <2>7. CASE DecideStart(r)
    <3>1. /\ \/ run'[r] = [run[r] EXCEPT !.phase = "granting"]
             \/ run'[r] = [run[r] EXCEPT !.phase = "plain"]
          /\ releases' = releases
      BY <2>7 DEF DecideStart, TypeOK
    <3> QED BY <2>0, <2>3, <2>7, <3>1 DEF DecideStart, RunState
  <2>8. CASE ReleaseAtStart(r)
    <3>0. ~run[r].granted /\ releases[r] = 0
      BY <2>0, <2>8 DEF ReleaseAtStart
    <3>1. CASE /\ run'[r] = [run[r] EXCEPT !.phase = "granted", !.granted = TRUE]
               /\ releases'[r] = releases[r] + 1
      BY <2>0, <2>3, <3>0, <3>1 DEF RunState
    <3>2. CASE /\ \/ run'[r] = [run[r] EXCEPT !.phase = "plain"]
                  \/ run'[r] = [run[r] EXCEPT !.phase = "failed"]
               /\ releases' = releases
      BY <2>0, <2>3, <3>0, <3>2 DEF RunState
    <3> QED BY <2>8, <3>1, <3>2 DEF ReleaseAtStart, TypeOK
  <2>9. CASE SpawnRoot(r)
    <3>1. /\ \/ run'[r] = [run[r] EXCEPT !.phase = "spawned", !.root = "alive"]
             \/ run'[r] = [run[r] EXCEPT !.phase = "failed"]
          /\ releases' = releases
      BY <2>9 DEF SpawnRoot, TypeOK
    <3> QED BY <2>0, <2>3, <3>1 DEF RunState
  <2>10. CASE AddRun(r)
    <3>1. /\ run'[r] = [run[r] EXCEPT !.phase = "listed",
                                     !.count = IF run[r].granted THEN 1 ELSE 0]
          /\ releases' = releases
      BY <2>10 DEF AddRun, TypeOK
    <3> QED BY <2>0, <2>3, <3>1 DEF RunState
  <2>11. CASE RootExits(r)
    BY <1>3, <2>0, <2>3, <2>11 DEF RootExits, TypeOK, RunState
  <2>12. CASE TimeOut(r) \/ Reap(r) \/ CloseRun(r)
    BY <1>3, <2>12 DEF TimeOut, Reap, CloseRun
  <2> QED
    BY <2>5, <2>6, <2>7, <2>8, <2>9, <2>10, <2>11, <2>12 DEF RunStep
<1> QED BY <1>2, <1>3

LEMMA PauseCounts ==
  ASSUME TypeOK, CountsAddUp, Arm \/ \E d \in Pausers : PauseStep(d)
  PROVE  CountsAddUp'
<1>1. \A r : Reserved(r)' = Reserved(r)
  BY PauseStepKeeps, SameReservations
<1> QED BY <1>1, PauseStepKeeps DEF CountsAddUp

\* A request that neither takes nor gives a reservation up.
LEMMA OtherRequestCounts ==
  ASSUME TypeOK, RequestsBound, CountsAddUp, NEW q \in Requests, ServeStep(q),
         UNCHANGED releases, \A r \in Runs : run'[r].count = run[r].count,
         req[q].phase # "reserved", req'[q].phase # "reserved"
  PROVE  CountsAddUp'
<1>1. \A r : Reserved(r)' = Reserved(r)
  BY ServeStepKeeps DEF Reserved
<1> QED BY <1>1, ServeStepKeeps DEF CountsAddUp

\* A reservation is taken, becomes a release, or is given back.
LEMMA ReservationCounts ==
  ASSUME TypeOK, RequestsBound, CountsAddUp, NEW q \in Requests,
         Ask(q) \/ Release(q), NEW r \in Runs, req[q].run = r
  PROVE  CountsAddUp'
<1>0. ServeStep(q)
  BY DEF ServeStep
<1>1. run[r].phase \in Started /\ run[r] \in RunState
  BY DEF Ask, Release, RequestsBound, TypeOK
<1>2. /\ \A other \in Requests \ {q} : req'[other] = req[other]
      /\ \A x \in Runs : /\ run'[x].phase = run[x].phase
                         /\ run'[x].granted = run[x].granted
  BY <1>0, ServeStepKeeps
<1>3. run[r].count = releases[r] + Cardinality(Reserved(r))
  BY <1>1 DEF CountsAddUp
<1>4. run[r].count \in Nat /\ releases[r] \in Nat
  BY <1>1 DEF RunState, TypeOK
<1>5. IsFiniteSet(Reserved(r)) /\ Cardinality(Reserved(r)) \in Nat
  BY ReservedCounted
<1>6. \A x \in Runs \ {r} : Reserved(x)' = Reserved(x)
  <2>1. ReqGoes(q, "reserved") \/ ReqGoes(q, "released") \/ ReqEnds(q)
    BY DEF Ask, Release
  <2>2. req'[q].phase = "reserved" => req'[q].run = r
    BY <2>1, ReqGoesFields DEF IdleRequest, ReqPhases
  <2> QED BY <1>2, <2>2 DEF Reserved
<1>7. \A x \in Runs \ {r} : run'[x] = run[x] /\ releases'[x] = releases[x]
  <2>1. \/ run' = run
        \/ run' = [run EXCEPT ![r].count = @ + 1]
        \/ run' = [run EXCEPT ![r].count = @ - 1]
    BY DEF Ask, Release, Unreserve
  <2>2. releases' = releases \/ releases' = [releases EXCEPT ![r] = @ + 1]
    BY DEF Ask, Release, history
  <2> QED BY <2>1, <2>2 DEF TypeOK
<1> SUFFICES run'[r].count = releases'[r] + Cardinality(Reserved(r)')
  BY <1>1, <1>2, <1>6, <1>7 DEF CountsAddUp
<1>8. CASE Ask(q)
  <2>1. q \notin Reserved(r)
    BY <1>8 DEF Ask, Reserved
  <2>2. CASE run'[r].count = run[r].count + 1 /\ ReqGoes(q, "reserved")
    <3>1. req'[q].phase = "reserved" /\ req'[q].run = r
      BY <2>2, ReqGoesFields DEF ReqPhases
    <3>2. Reserved(r)' = Reserved(r) \cup {q}
      BY <1>2, <3>1 DEF Reserved
    <3>3. Cardinality(Reserved(r)') = Cardinality(Reserved(r)) + 1
      BY <1>5, <2>1, <3>2, FS_AddElement
    <3>4. releases' = releases
      BY <1>8 DEF Ask, history
    <3> QED BY <1>3, <1>4, <1>5, <2>2, <3>3, <3>4
  <2>3. CASE run' = run /\ ReqEnds(q)
    <3>1. req'[q].phase = "idle"
      BY <2>3, ReqGoesFields DEF IdleRequest
    <3>2. Reserved(r)' = Reserved(r)
      BY <1>2, <2>1, <3>1 DEF Reserved
    <3>3. releases' = releases
      BY <1>8 DEF Ask, history
    <3> QED BY <1>3, <2>3, <3>2, <3>3
  <2>4. run' = [run EXCEPT ![r].count = @ + 1] => run'[r].count = run[r].count + 1
    BY <1>1 DEF TypeOK, RunState
  <2> QED BY <1>8, <2>2, <2>3, <2>4 DEF Ask
<1>9. CASE Release(q)
  <2>1. q \in Reserved(r)
    BY <1>9 DEF Release, Reserved
  <2>2. req'[q].phase # "reserved"
    BY <1>9, ReqGoesFields DEF Release, IdleRequest, ReqPhases
  <2>3. Reserved(r)' = Reserved(r) \ {q}
    BY <1>2, <2>2 DEF Reserved
  <2>4. Cardinality(Reserved(r)') = Cardinality(Reserved(r)) - 1
    BY ZenonT(60), <1>5, <2>1, <2>3, FS_RemoveElement
  <2>5. \/ run' = run /\ releases'[r] = releases[r] + 1
        \/ run'[r].count = run[r].count - 1 /\ releases' = releases
    BY <1>1, <1>9 DEF Release, Unreserve, TypeOK, RunState
  <2> QED BY <1>3, <1>4, <1>5, <2>4, <2>5
<1> QED BY <1>8, <1>9

LEMMA ServeCounts ==
  ASSUME TypeOK, RequestsBound, CountsAddUp, NEW q \in Requests, ServeStep(q)
  PROVE  CountsAddUp'
<1> USE DEF history
<1>1. CASE Ask(q) \/ Release(q)
  <2>1. req[q].run \in Runs
    BY <1>1 DEF Ask, Release, RequestsBound
  <2> QED BY <1>1, <2>1, ReservationCounts
<1> SUFFICES ASSUME ~Ask(q), ~Release(q)
             PROVE  /\ UNCHANGED releases
                    /\ \A r \in Runs : run'[r].count = run[r].count
                    /\ req[q].phase # "reserved" /\ req'[q].phase # "reserved"
  BY <1>1, OtherRequestCounts
<1>2. ReqEnds(q) => req'[q].phase # "reserved"
  BY ReqGoesFields DEF IdleRequest
<1>3. CASE EndStruckRun(q)
  <2>1. req[q].run \in Runs
    BY <1>3 DEF EndStruckRun, RequestsBound
  <2>2. \A r \in Runs : run'[r].count = run[r].count
    BY <1>3, <2>1, EndFields DEF EndStruckRun, TypeOK
  <2> QED BY <1>2, <1>3, <2>2 DEF EndStruckRun
<1>4. CASE \E r \in Runs : Bind(q, r)
  <2>1. ~ReqEnds(q) => req'[q].phase = "bound"
    BY ZenonT(60), <1>4 DEF Bind, TypeOK, ReqState
  <2> QED BY <1>2, <1>4, <2>1 DEF Bind
<1>5. CASE ReadArmFor(q) \/ Spawn(q) \/ Register(q)
  <2>1. ~ReqEnds(q) => req'[q].phase # "reserved"
    BY ZenonT(60), <1>5 DEF ReadArmFor, Spawn, Register, TypeOK, ReqState
  <2> QED BY <1>2, <1>5, <2>1 DEF ReadArmFor, Spawn, Register
<1>6. CASE AskMore(q) \/ Strike(q) \/ CommandEnds(q)
  BY <1>2, <1>6, ReqGoesFields DEF AskMore, Strike, CommandEnds, ReqPhases
<1> QED BY <1>3, <1>4, <1>5, <1>6 DEF ServeStep

(***************************************************************************)
(* What becomes of commands.                                               *)
(***************************************************************************)

\* Draining a run's registry leaves no command of it tracked.
LEMMA DrainedCommands ==
  ASSUME TypeOK, RequestsBound, CommandsTracked, NEW r \in Runs,
         req' = KilledIn(r), run'[r].closed,
         \A x \in Runs \ {r} : run'[x] = run[x]
  PROVE  CommandsTracked'
<1>1. ASSUME NEW q \in Requests
      PROVE  /\ req'[q].tracked =>
                  req'[q].phase = "running" /\ ~run'[req'[q].run].closed
             /\ req'[q].child = "alive" =>
                  req'[q].phase = "spawned" \/ req'[q].tracked
  <2>1. CASE req[q].run = r
    BY <2>1, KilledInFields DEF CommandsTracked
  <2>2. CASE req[q].run # r
    <3>1. req'[q] = req[q]
      BY <2>2, KilledInFields
    <3>2. req[q].tracked => req[q].run \in Runs
      BY DEF CommandsTracked, RequestsBound
    <3> QED BY <2>2, <3>1, <3>2 DEF CommandsTracked
  <2> QED BY <2>1, <2>2
<1>2. \A x \in Runs : run'[x].phase = "gone" => run'[x].closed
  BY DEF CommandsTracked
<1> QED BY <1>1, <1>2 DEF CommandsTracked

\* A step that drains no registry.
LEMMA UndrainedCommands ==
  ASSUME TypeOK, RequestsBound, CommandsTracked, UNCHANGED req,
         \A x \in Runs : /\ run'[x].closed = run[x].closed
                         /\ run'[x].phase = "gone" => run[x].phase = "gone"
  PROVE  CommandsTracked'
<1>1. \A q \in Requests : req[q].tracked => req[q].run \in Runs
  BY DEF CommandsTracked, RequestsBound
<1> QED BY <1>1 DEF CommandsTracked

LEMMA RunCommands ==
  ASSUME TypeOK, RequestsBound, CommandsTracked, NEW r \in Runs, RunStep(r)
  PROVE  CommandsTracked'
<1>1. CASE CloseRun(r)
  BY <1>1, DrainedCommands DEF CloseRun, TypeOK, RunState
<1>2. CASE ~CloseRun(r)
  <2> USE DEF RunGoes
  <2> DEFINE Kept ==
        \A x \in Runs : /\ run'[x].closed = run[x].closed
                        /\ run'[x].phase = "gone" => run[x].phase = "gone"
  <2>0. ASSUME NEW p \in RunPhases, p # "gone", run' = [run EXCEPT ![r].phase = p]
        PROVE  Kept
    BY <2>0 DEF TypeOK, RunState
  <2>1. CASE ReadArm(r) \/ CheckJob(r) \/ DecideStart(r)
    <3>1. ASSUME NEW p \in {"armed", "idle"}, NEW a \in Arms,
                 run' = [run EXCEPT ![r] = [@ EXCEPT !.phase = p, !.arm = a]]
          PROVE  Kept
      BY <3>1 DEF TypeOK, RunState
    <3>2. \/ run' = [run EXCEPT ![r] = [@ EXCEPT !.phase = "armed",
                                                 !.arm = machine]]
          \/ run' = [run EXCEPT ![r] = [@ EXCEPT !.phase = "idle", !.arm = 0]]
          \/ \E p \in {"checked", "granting", "plain"} :
               run' = [run EXCEPT ![r].phase = p]
      BY <2>1 DEF ReadArm, CheckJob, DecideStart
    <3>3. machine \in Arms /\ 0 \in Arms
      BY UnattendedAssumption DEF TypeOK, Arms
    <3>4. Kept
      BY <2>0, <3>1, <3>2, <3>3 DEF RunPhases, Launching
    <3> QED BY <2>1, <3>4, UndrainedCommands DEF ReadArm, CheckJob, DecideStart
  <2>2. CASE ReleaseAtStart(r) \/ SpawnRoot(r) \/ AddRun(r)
    <3>1. Kept
      <4>1. CASE run' = [run EXCEPT ![r] = [@ EXCEPT !.phase = "granted",
                                                     !.granted = TRUE]]
        BY <4>1 DEF TypeOK, RunState
      <4>2. CASE run' = [run EXCEPT ![r] = [@ EXCEPT !.phase = "spawned",
                                                     !.root = "alive"]]
        BY <4>2 DEF TypeOK, RunState
      <4>3. CASE AddRun(r)
        BY <4>3 DEF AddRun, TypeOK, RunState
      <4>4. CASE \E p \in {"plain", "failed"} : run' = [run EXCEPT ![r].phase = p]
        <5>1. PICK p \in {"plain", "failed"} : run' = [run EXCEPT ![r].phase = p]
          BY <4>4
        <5> QED BY <2>0, <5>1 DEF RunPhases, Launching
      <4> QED BY <2>2, <4>1, <4>2, <4>3, <4>4 DEF ReleaseAtStart, SpawnRoot
    <3> QED BY <2>2, <3>1, UndrainedCommands DEF ReleaseAtStart, SpawnRoot, AddRun
  <2>3. CASE RootExits(r) \/ Reap(r)
    <3>1. \/ run' = [run EXCEPT ![r].root = "dead"]
          \/ run' = [run EXCEPT ![r].phase = "reaped"]
      BY <2>3 DEF RootExits, Reap
    <3>2. \A x \in Runs : /\ run'[x].closed = run[x].closed
                          /\ run'[x].phase = "gone" => run[x].phase = "gone"
      BY <3>1 DEF TypeOK, RunState
    <3> QED BY <2>3, <3>2, UndrainedCommands DEF RootExits, Reap
  <2>4. CASE TimeOut(r)
    <3>1. \A x \in Runs : /\ run'[x].closed = run[x].closed
                          /\ run'[x].phase = "gone" => run[x].phase = "gone"
      BY SMTT(40), <2>4, EndFields DEF TimeOut, TypeOK
    <3> QED BY <2>4, <3>1, UndrainedCommands DEF TimeOut
  <2> QED BY <1>2, <2>1, <2>2, <2>3, <2>4 DEF RunStep
<1> QED BY <1>1, <1>2

LEMMA PauseCommands ==
  ASSUME TypeOK, RequestsBound, CommandsTracked,
         Arm \/ \E d \in Pausers : PauseStep(d)
  PROVE  CommandsTracked'
<1>1. ASSUME NEW d \in Pausers, NEW r \in Runs, EndRun(d, r)
      PROVE  CommandsTracked'
  <2>1. End(run[r], "DISARMED") \in RunState
    BY EndFields DEF TypeOK
  <2>2. run'[r].closed /\ \A x \in Runs \ {r} : run'[x] = run[x]
    BY <1>1, <2>1 DEF EndRun, TypeOK, RunState
  <2> QED BY <1>1, <2>2, DrainedCommands DEF EndRun
<1>2. UNCHANGED <<run, req>> => CommandsTracked'
  BY UndrainedCommands
<1> QED BY <1>1, <1>2 DEF Arm, PauseStep, TakeArm, FindRuns, DropKey

\* A request that has no command yet, or no more.
LEMMA NoCommand ==
  ASSUME TypeOK, RequestsBound, CommandsTracked, NEW q \in Requests,
         req[q].phase \notin {"spawned", "running"}
  PROVE  ~req[q].tracked /\ req[q].child # "alive"
BY DEF CommandsTracked, TypeOK, ReqState

LEMMA ServeCommands ==
  ASSUME TypeOK, RequestsBound, CommandsTracked, NEW q \in Requests, ServeStep(q)
  PROVE  CommandsTracked'
<1>1. /\ \A r \in Runs : /\ run'[r].phase = run[r].phase
                         /\ run'[r].closed = run[r].closed
      /\ \A other \in Requests \ {q} : req'[other] = req[other]
  BY ServeStepKeeps
<1>2. \A other \in Requests : req[other].tracked => req[other].run \in Runs
  BY DEF CommandsTracked, RequestsBound
<1> SUFFICES /\ req'[q].tracked =>
                  req'[q].phase = "running" /\ ~run'[req'[q].run].closed
             /\ req'[q].child = "alive" =>
                  req'[q].phase = "spawned" \/ req'[q].tracked
  BY <1>1, <1>2 DEF CommandsTracked
<1>3. CASE ReqEnds(q)
  BY <1>3, ReqGoesFields DEF IdleRequest
<1>4. CASE Register(q)
  <2>1. req[q].run \in Runs
    BY <1>4 DEF Register, RequestsBound
  <2>2. ~req[q].tracked
    BY <1>4 DEF Register, CommandsTracked
  <2>3. \/ /\ run[req[q].run].closed
           /\ req'[q] = [req[q] EXCEPT !.phase = "running", !.child = "killed"]
        \/ /\ ~run[req[q].run].closed
           /\ req'[q] = [req[q] EXCEPT !.phase = "running", !.tracked = TRUE]
    BY <1>4 DEF Register, TypeOK
  <2> QED BY ZenonT(60), <1>1, <2>1, <2>2, <2>3 DEF TypeOK, ReqState
<1>5. CASE Spawn(q) /\ ~ReqEnds(q)
  <2>1. ~req[q].tracked
    BY <1>5, NoCommand DEF Spawn
  <2>2. req'[q] = [req[q] EXCEPT !.phase = "spawned", !.child = "alive"]
    BY <1>5 DEF Spawn, TypeOK
  <2> QED BY <2>1, <2>2 DEF TypeOK, ReqState
<1>6. CASE ~ReqEnds(q) /\ ~Register(q) /\ ~Spawn(q)
  <2>1. req[q].phase \notin {"spawned", "running"}
    BY <1>6 DEF ServeStep, ReadArmFor, Bind, AskMore, Strike, EndStruckRun, Ask,
                Release, CommandEnds
  <2>2. ~req[q].tracked /\ req[q].child # "alive"
    BY <2>1, NoCommand
  <2>3. req'[q].tracked = req[q].tracked /\ req'[q].child = req[q].child
    <3>1. CASE ReadArmFor(q) \/ \E r \in Runs : Bind(q, r)
      BY <1>6, <3>1 DEF ReadArmFor, Bind, TypeOK, ReqState
    <3>2. CASE AskMore(q) \/ Strike(q) \/ Ask(q) \/ Release(q)
      BY <1>6, <3>2, ReqGoesFields DEF AskMore, Strike, Ask, Release, ReqPhases
    <3> QED BY <1>6, <3>1, <3>2 DEF ServeStep, EndStruckRun, CommandEnds
  <2> QED BY <2>2, <2>3
<1> QED BY <1>3, <1>4, <1>5, <1>6

(***************************************************************************)
(* What a strike leaves.                                                   *)
(***************************************************************************)

LEMMA RunStrikes ==
  ASSUME TypeOK, RequestsBound, StrikesWritten, NEW r \in Runs, RunStep(r)
  PROVE  StrikesWritten'
BY RunStepKeeps DEF StrikesWritten

LEMMA PauseStrikes ==
  ASSUME TypeOK, RequestsBound, StrikesWritten,
         Arm \/ \E d \in Pausers : PauseStep(d)
  PROVE  StrikesWritten'
BY PauseStepKeeps DEF StrikesWritten, vault

LEMMA ServeStrikes ==
  ASSUME TypeOK, RequestsBound, StrikesWritten, NEW q \in Requests, ServeStep(q)
  PROVE  StrikesWritten'
<1>0. /\ \A r \in Runs : run'[r].ended \in {run[r].ended, "STRIKE"}
      /\ \A other \in Requests \ {q} : req'[other] = req[other]
      /\ suspended => suspended'
      /\ unwritten \subseteq unwritten'
  BY ServeStepKeeps
<1>1. req'[q].phase = "ending" => suspended' \/ req'[q].run \in unwritten'
  <2>1. CASE Strike(q)
    <3>1. req'[q].run = req[q].run
      BY <2>1, ReqGoesFields DEF Strike, ReqPhases
    <3> QED BY <2>1, <3>1 DEF Strike
  <2>2. CASE ~Strike(q)
    <3>1. ReqEnds(q) => req'[q].phase # "ending"
      BY ReqGoesFields DEF IdleRequest
    <3>2. CASE \/ ReadArmFor(q) \/ \E r \in Runs : Bind(q, r)
               \/ Spawn(q) \/ Register(q)
      BY ZenonT(60), <3>1, <3>2 DEF ReadArmFor, Bind, Spawn, Register, TypeOK, ReqState
    <3>3. CASE \/ AskMore(q) \/ Ask(q) \/ Release(q)
      BY <3>1, <3>3, ReqGoesFields DEF AskMore, Ask, Release, ReqPhases
    <3> QED
      BY <2>2, <3>1, <3>2, <3>3 DEF ServeStep, EndStruckRun, CommandEnds
  <2> QED BY <2>1, <2>2
<1>2. ASSUME NEW r \in Runs, run'[r].ended = "STRIKE"
      PROVE  suspended' \/ r \in unwritten'
  <2>1. CASE run[r].ended = "STRIKE"
    BY <1>0, <2>1 DEF StrikesWritten
  <2>2. CASE run[r].ended # "STRIKE"
    <3>1. EndStruckRun(q)
      <4>1. ASSUME run' = run PROVE FALSE
        BY <1>2, <2>2, <4>1
      <4>2. CASE Ask(q) \/ Release(q)
        <5>1. req[q].run \in Runs
          BY <4>2 DEF Ask, Release, RequestsBound
        <5>2. \/ run' = run
              \/ run' = [run EXCEPT ![req[q].run].count = @ + 1]
              \/ run' = [run EXCEPT ![req[q].run].count = @ - 1]
          BY <4>2 DEF Ask, Release, Unreserve
        <5> QED BY <1>2, <2>2, <5>1, <5>2 DEF TypeOK, RunState
      <4> QED
        BY <4>1, <4>2 DEF ServeStep, ReadArmFor, Bind, AskMore, Strike, Spawn,
                          Register, CommandEnds
    <3>2. req[q].run = r
      BY <1>2, <2>2, <3>1 DEF EndStruckRun, RequestsBound, TypeOK
    <3>3. suspended \/ r \in unwritten
      BY <3>1, <3>2 DEF EndStruckRun, StrikesWritten
    <3> QED BY <1>0, <3>3
  <2> QED BY <2>1, <2>2
<1> QED BY <1>0, <1>1, <1>2 DEF StrikesWritten

(***************************************************************************)
(* What a disarm finds.                                                    *)
(***************************************************************************)

\* A run becomes live only out of a launch, and a launch begins while armed.
LEMMA RunLives ==
  ASSUME TypeOK, NEW r \in Runs, RunStep(r), machine = 0
  PROVE  /\ run'[r].phase \in Launching => run[r].phase \in Launching
         /\ Live(r)' => run[r].phase \in Launching \/ Live(r)
<1> USE DEF Launching, Live, RunGoes
<1>1. CASE CheckJob(r) \/ DecideStart(r)
  BY <1>1 DEF CheckJob, DecideStart
<1>2. CASE ReleaseAtStart(r) \/ SpawnRoot(r) \/ AddRun(r)
  BY <1>2 DEF ReleaseAtStart, SpawnRoot, AddRun
<1>3. CASE RootExits(r)
  BY <1>3 DEF RootExits, TypeOK, RunState
<1>4. CASE TimeOut(r)
  BY <1>4, EndFields DEF TimeOut, TypeOK
<1>5. CASE Reap(r)
  BY <1>5 DEF Reap, TypeOK, RunState
<1>6. CASE CloseRun(r)
  BY <1>6 DEF CloseRun, TypeOK, RunState
<1> QED BY <1>1, <1>2, <1>3, <1>4, <1>5, <1>6 DEF RunStep, ReadArm

LEMMA RunFound ==
  ASSUME TypeOK, RunsFound, NEW r \in Runs, RunStep(r)
  PROVE  RunsFound'
<1>1. /\ \A x \in Runs \ {r} : run'[x] = run[x]
      /\ machine' = machine /\ pause' = pause /\ late' = late
  BY RunStepKeeps DEF arming
<1>2. machine = 0 =>
        /\ run'[r].phase \in Launching => run[r].phase \in Launching
        /\ Live(r)' => run[r].phase \in Launching \/ Live(r)
  BY RunLives
<1>3. \A x \in Runs \ {r} : Live(x)' = Live(x)
  BY <1>1 DEF Live
<1> QED BY <1>1, <1>2, <1>3 DEF RunsFound

LEMMA ServeFound ==
  ASSUME TypeOK, RequestsBound, RunsFound, NEW q \in Requests, ServeStep(q)
  PROVE  RunsFound'
<1>1. /\ \A r \in Runs : run'[r].phase = run[r].phase
      /\ machine' = machine /\ pause' = pause /\ late' = late
  BY ServeStepKeeps DEF arming
<1>2. \A r \in Runs : Live(r)' => Live(r)
  BY ServeStepKeeps DEF Live
<1> QED BY <1>1, <1>2 DEF RunsFound

LEMMA PauseFound ==
  ASSUME TypeOK, RunsFound, Arm \/ \E d \in Pausers : PauseStep(d)
  PROVE  RunsFound'
<1> USE DEF arming, vault, history
<1>1. CASE Arm
  BY <1>1 DEF Arm, RunsFound, TypeOK, Arms
<1>2. ASSUME NEW d \in Pausers, TakeArm(d) PROVE RunsFound'
  <2>1. pause'[d].phase = "took"
    BY <1>2 DEF TakeArm, TypeOK, PauseState
  <2> QED BY <2>1 DEF RunsFound
<1>3. ASSUME NEW d \in Pausers, FindRuns(d) PROVE RunsFound'
  <2>1. /\ pause'[d].phase = "ending"
        /\ pause'[d].targets = {r \in Runs : Live(r)}
        /\ run' = run
        /\ late' = late \cup {r \in Runs : run[r].phase \in Launching}
    BY <1>3 DEF FindRuns, TypeOK, PauseState
  <2>2. \A r \in Runs : Live(r)' = Live(r)
    BY <2>1 DEF Live
  <2> QED BY <2>1, <2>2 DEF RunsFound
<1>4. ASSUME NEW d \in Pausers, DropKey(d) PROVE RunsFound'
  <2>1. /\ pause'[d].phase = "idle" /\ pause[d].targets = {}
        /\ pause[d].phase = "ending"
        /\ \A e \in Pausers \ {d} : pause'[e] = pause[e]
        /\ run' = run /\ late' = late /\ machine' = machine
    BY <1>4 DEF DropKey, TypeOK, PauseState
  <2>2. \A r \in Runs : Live(r)' = Live(r)
    BY <2>1 DEF Live
  <2> QED BY <2>1, <2>2 DEF RunsFound
<1>5. ASSUME NEW d \in Pausers, NEW r \in Runs, EndRun(d, r) PROVE RunsFound'
  <2>1. End(run[r], "DISARMED") \in RunState
    BY EndFields DEF TypeOK
  <2>2. /\ \A x \in Runs \ {r} : run'[x] = run[x]
        /\ run'[r].phase = run[r].phase /\ run'[r].ended # "no"
    BY <1>5, <2>1, EndFields DEF EndRun, TypeOK, RunState
  <2>3. /\ \A e \in Pausers : /\ pause'[e].phase = pause[e].phase
                              /\ pause[e].targets \ {r} \subseteq pause'[e].targets
        /\ late' = late /\ machine' = machine
    BY <1>5 DEF EndRun, TypeOK, PauseState
  <2>4. /\ \A x \in Runs \ {r} : Live(x)' = Live(x)
        /\ ~Live(r)'
    BY <2>2 DEF Live
  <2> QED BY <2>2, <2>3, <2>4 DEF RunsFound
<1> QED BY <1>1, <1>2, <1>3, <1>4, <1>5 DEF PauseStep

(***************************************************************************)
(* The invariant.                                                          *)
(***************************************************************************)

LEMMA RunsInvInit == Init => RunsInv
<1> SUFFICES ASSUME Init PROVE RunsInv
  OBVIOUS
<1>1. TypeOK
  <2>1. run \in [Runs -> RunState]
    BY UnattendedAssumption DEF Init, RunState, RunPhases, Arms
  <2>2. req \in [Requests -> ReqState]
    BY IdleRequestType DEF Init
  <2>3. pause \in [Pausers -> PauseState]
    BY UnattendedAssumption DEF Init, PauseState, Arms
  <2>4. MaxArms \in Nat
    BY UnattendedAssumption
  <2>5. /\ machine \in Arms /\ arms \in Arms /\ taken \subseteq Arms
        /\ uses \in 0..TotalUses
        /\ unwritten \subseteq Runs /\ late \subseteq Runs
    BY <2>4 DEF Init, Arms
  <2>6. suspended \in BOOLEAN
    BY DEF Init
  <2>7. releases \in [Runs -> Nat]
    BY DEF Init
  <2> QED BY <2>1, <2>2, <2>3, <2>5, <2>6, <2>7 DEF TypeOK
<1>2. RequestsBound /\ StrikesWritten
  BY DEF Init, RequestsBound, StrikesWritten, IdleRequest
<1>3. CommandsTracked
  BY DEF Init, CommandsTracked, IdleRequest
<1>4. CountsAddUp
  BY DEF Init, CountsAddUp, Started
<1>5. RunsFound
  BY DEF Init, RunsFound, Live, Launching
<1> QED BY <1>1, <1>2, <1>3, <1>4, <1>5 DEF RunsInv

LEMMA RunsInvStep == RunsInv /\ [Next]_vars => RunsInv'
<1> SUFFICES ASSUME RunsInv, [Next]_vars PROVE RunsInv'
  OBVIOUS
<1> USE DEF RunsInv
<1>1. CASE Arm \/ \E d \in Pausers : PauseStep(d)
  BY <1>1, PauseTypes, PauseRequestsBound, PauseCounts, PauseCommands,
     PauseStrikes, PauseFound
<1>2. ASSUME NEW r \in Runs, RunStep(r) PROVE RunsInv'
  BY <1>2, RunTypes, RunRequestsBound, RunCounts, RunCommands, RunStrikes, RunFound
<1>3. ASSUME NEW q \in Requests, ServeStep(q) PROVE RunsInv'
  BY <1>3, ServeTypes, ServeRequestsBound, ServeCounts, ServeCommands,
     ServeStrikes, ServeFound
<1>4. CASE UNCHANGED vars
  <2>1. /\ machine' = machine /\ arms' = arms /\ taken' = taken
        /\ suspended' = suspended /\ uses' = uses /\ run' = run /\ req' = req
        /\ pause' = pause /\ releases' = releases /\ unwritten' = unwritten
        /\ late' = late
    BY <1>4 DEF vars, arming, vault, history
  <2>2. \A r : Reserved(r)' = Reserved(r) /\ Live(r)' = Live(r)
    BY <2>1 DEF Reserved, Live
  <2>3. TypeOK' /\ RequestsBound' /\ CommandsTracked' /\ StrikesWritten'
    BY <2>1 DEF TypeOK, RequestsBound, CommandsTracked, StrikesWritten
  <2>4. CountsAddUp' /\ RunsFound'
    BY <2>1, <2>2 DEF CountsAddUp, RunsFound
  <2> QED BY <2>3, <2>4
<1> QED BY <1>1, <1>2, <1>3, <1>4 DEF Next

\* Unattended runs keep the strengthened invariant.
THEOREM RunsInvariant == Spec => []RunsInv
BY RunsInvInit, RunsInvStep, PTL DEF Spec

\* The registries, requests and disarms are as typed (runs.rs, mod.rs).
THEOREM RunsTypeCorrect == Spec => []TypeOK
BY RunsInvariant, PTL DEF RunsInv

\* However many requests reserve, release and give back at once, no run is
\* released values more often than per_run (runs.rs reserve and unreserve).
THEOREM RunsPerRunLimit == Spec => []PerRunLimit
<1>1. RunsInv => PerRunLimit
  <2> SUFFICES ASSUME RunsInv, NEW r \in Runs PROVE releases[r] <= PerRun
    BY DEF PerRunLimit
  <2>1. run[r] \in RunState /\ releases[r] \in Nat
    BY DEF RunsInv, TypeOK
  <2>2. CASE run[r].phase \in Started
    <3>1. run[r].count = releases[r] + Cardinality(Reserved(r))
      BY <2>2 DEF RunsInv, CountsAddUp
    <3>2. run[r].count \in 0..PerRun
      BY <2>1 DEF RunState
    <3>3. Cardinality(Reserved(r)) \in Nat
      BY ReservedCounted
    <3> QED BY <2>1, <3>1, <3>2, <3>3, UnattendedAssumption
  <2>3. CASE run[r].phase \notin Started
    BY <2>3, UnattendedAssumption DEF RunsInv, CountsAddUp
  <2> QED BY <2>2, <2>3
<1> QED BY <1>1, RunsInvariant, PTL

\* A drained registry leaves no command of its run alive but one that is about
\* to be refused (children.rs register, kill_all).
THEOREM RunsNoCommandOutlives == Spec => []NoCommandOutlivesRun
<1>1. RunsInv => NoCommandOutlivesRun
  <2> SUFFICES ASSUME RunsInv, NEW q \in Requests, NEW r \in Runs,
                      req[q].run = r, run[r].closed \/ run[r].phase = "gone"
               PROVE  req[q].child \in {"none", "killed"} \/ req[q].phase = "spawned"
    BY DEF NoCommandOutlivesRun
  <2>1. req[q].child \in {"none", "alive", "killed"}
    BY DEF RunsInv, TypeOK, ReqState
  <2>2. run[r].closed
    BY DEF RunsInv, CommandsTracked
  <2>3. ~req[q].tracked
    BY <2>2 DEF RunsInv, CommandsTracked
  <2>4. req[q].child = "alive" => req[q].phase = "spawned"
    BY <2>3 DEF RunsInv, CommandsTracked
  <2> QED BY <2>1, <2>4
<1> QED BY <1>1, RunsInvariant, PTL

\* When no arm is in force and no disarm under way, the live runs left were being
\* launched while a disarm looked for the runs to end (mod.rs disarm, launch).
THEOREM RunsDisarmEnds == Spec => []DisarmEndsRuns
<1>1. RunsInv => DisarmEndsRuns
  <2> SUFFICES ASSUME RunsInv, machine = 0, ~Pausing, NEW r \in Runs, Live(r)
               PROVE  r \in late
    BY DEF DisarmEndsRuns
  <2>1. \A d \in Pausers : pause[d].phase = "idle"
    BY DEF Pausing
  <2> QED BY <2>1 DEF RunsInv, RunsFound
<1> QED BY <1>1, RunsInvariant, PTL

\* A struck run is released nothing more, unless the suspension of its grant
\* could not be written (service.rs strike, start.rs).
THEOREM RunsStruckGetsNothing == Spec => StruckRunGetsNothing
<1>1. RunsInv /\ [Next]_vars =>
        [\A r \in Runs :
           releases'[r] # releases[r] =>
             run[r].ended # "STRIKE" \/ r \in unwritten]_vars
  <2> SUFFICES ASSUME RunsInv, Next, NEW r \in Runs, releases'[r] # releases[r],
                      run[r].ended = "STRIKE"
               PROVE  r \in unwritten
    OBVIOUS
  <2>1. suspended \/ r \in unwritten
    BY DEF RunsInv, StrikesWritten
  <2>2. ~suspended
    <3>1. CASE Arm \/ \E d \in Pausers : PauseStep(d)
      BY <3>1, PauseStepKeeps DEF RunsInv
    <3>2. ASSUME NEW x \in Runs, RunStep(x) PROVE ~suspended
      BY <3>2 DEF RunStep, ReadArm, CheckJob, DecideStart, ReleaseAtStart,
                  SpawnRoot, AddRun, RootExits, TimeOut, Reap, CloseRun, Usable,
                  history
    <3>3. ASSUME NEW q \in Requests, ServeStep(q) PROVE ~suspended
      BY <3>3 DEF ServeStep, ReadArmFor, Bind, AskMore, Strike, EndStruckRun, Ask,
                  Release, Spawn, Register, CommandEnds, Usable, history
    <3> QED BY <3>1, <3>2, <3>3 DEF Next
  <2> QED BY <2>1, <2>2
<1> QED BY <1>1, RunsInvariant, PTL DEF Spec, StruckRunGetsNothing

(***************************************************************************)
(* Sums over runs. A least counterexample stands in for induction: a set   *)
(* of naturals that holds 0 and all successors holds every natural.        *)
(***************************************************************************)

\* A set of naturals has a least one.
LEMMA LeastNatural ==
  ASSUME NEW T, T \subseteq Nat, T # {}
  PROVE  \E m \in T : \A n \in T : m <= n
<1>1. \E x \in T : \A y \in T : ~(<<y, x>> \in OpToRel(<, Nat))
  BY NatLessThanWellFounded, WFMin
<1>2. PICK x \in T : \A y \in T : ~(<<y, x>> \in OpToRel(<, Nat))
  BY <1>1
<1>3. ASSUME NEW y \in T, y < x PROVE FALSE
  <2>1. y \in Nat /\ x \in Nat
    OBVIOUS
  <2>2. <<y, x>> \in Nat \X Nat /\ <<y, x>>[1] < <<y, x>>[2]
    BY <1>3, <2>1
  <2>3. <<y, x>> \in OpToRel(<, Nat)
    BY <2>2 DEF OpToRel
  <2> QED BY <1>2, <2>3
<1> QED BY <1>3

\* Induction, for a set of naturals.
LEMMA InductiveSet ==
  ASSUME NEW Good, 0 \in Good, \A n \in Nat : n \in Good => n + 1 \in Good
  PROVE  Nat \subseteq Good
<1> SUFFICES ASSUME Nat \ Good # {} PROVE FALSE
  OBVIOUS
<1>1. PICK m \in Nat \ Good : \A n \in Nat \ Good : m <= n
  BY LeastNatural
<1>2. m # 0 /\ m - 1 \in Nat
  BY <1>1
<1>3. m - 1 \in Good
  BY <1>1, <1>2
<1> QED BY <1>1, <1>2, <1>3

\* Sums are taken one run at a time, from a run that CHOOSE picks.
First(s) == CHOOSE x \in s : TRUE
Rest(s) == s \ {First(s)}

\* The sets of at most n runs.
UpTo(n) == {s \in SUBSET Runs : Cardinality(s) <= n}

\* A set of runs is finite, and without one of its runs it is smaller.
LEMMA Subruns ==
  ASSUME NEW s \in SUBSET Runs
  PROVE  /\ IsFiniteSet(s) /\ Cardinality(s) \in Nat
         /\ Cardinality(s) <= Cardinality(Runs)
         /\ Cardinality(s) = 0 <=> s = {}
         /\ s # {} => /\ First(s) \in s /\ Rest(s) \in SUBSET Runs
                      /\ Cardinality(Rest(s)) = Cardinality(s) - 1
<1>1. IsFiniteSet(s) /\ Cardinality(s) <= Cardinality(Runs)
  BY FS_Subset, UnattendedAssumption
<1>2. Cardinality(s) \in Nat /\ (Cardinality(s) = 0 <=> s = {})
  BY <1>1, FS_CardinalityType, FS_EmptySet
<1>3. s # {} => First(s) \in s
  BY DEF First
<1>4. s # {} => Cardinality(Rest(s)) = Cardinality(s) - 1
  BY <1>1, <1>3, FS_RemoveElement DEF Rest
<1> QED BY <1>1, <1>2, <1>3, <1>4 DEF Rest

\* Induction over sets of runs, one run at a time.
LEMMA SubrunsInduction ==
  ASSUME NEW Good, {} \in Good,
         \A s \in SUBSET Runs : s # {} /\ Rest(s) \in Good => s \in Good
  PROVE  SUBSET Runs \subseteq Good
<1> DEFINE N == {n \in Nat : UpTo(n) \subseteq Good}
<1>1. 0 \in N
  <2> SUFFICES ASSUME NEW s \in UpTo(0) PROVE s \in Good
    OBVIOUS
  <2>1. s = {}
    BY Subruns DEF UpTo
  <2> QED BY <2>1
<1>2. ASSUME NEW n \in Nat, n \in N PROVE n + 1 \in N
  <2> SUFFICES ASSUME NEW s \in UpTo(n + 1) PROVE s \in Good
    OBVIOUS
  <2>1. CASE s = {}
    BY <2>1
  <2>2. CASE s # {}
    <3>1. Rest(s) \in UpTo(n)
      BY <2>2, Subruns DEF UpTo
    <3>2. Rest(s) \in Good
      BY <3>1, <1>2
    <3> QED BY <2>2, <3>2 DEF UpTo
  <2> QED BY <2>1, <2>2
<1> HIDE DEF N
<1>3. Nat \subseteq N
  BY <1>1, <1>2, InductiveSet
<1>4. Cardinality(Runs) \in N
  BY <1>3, Subruns
<1>5. SUBSET Runs \subseteq UpTo(Cardinality(Runs))
  BY Subruns DEF UpTo
<1> QED BY <1>4, <1>5 DEF N

\* The sums of f over the sets in S, and over every set of runs.
IsSums(f, sum, S) ==
  sum = [s \in S |-> IF s = {} THEN 0 ELSE f[First(s)] + sum[Rest(s)]]
Sums(f) == CHOOSE sum : IsSums(f, sum, SUBSET Runs)

\* There are such sums: those over larger sets extend those over smaller ones.
LEMMA SumsExist ==
  ASSUME NEW f
  PROVE  IsSums(f, Sums(f), SUBSET Runs)
<1> DEFINE N == {n \in Nat : \E sum : IsSums(f, sum, UpTo(n))}
<1>1. 0 \in N
  <2> DEFINE none == [s \in UpTo(0) |-> 0]
  <2>1. \A s \in UpTo(0) : s = {}
    BY Subruns DEF UpTo
  <2>2. IsSums(f, none, UpTo(0))
    BY <2>1 DEF IsSums
  <2> QED BY <2>2
<1>2. ASSUME NEW n \in Nat, n \in N PROVE n + 1 \in N
  <2>1. PICK sum : IsSums(f, sum, UpTo(n))
    BY <1>2
  <2> DEFINE more == [s \in UpTo(n + 1) |->
                        IF s = {} THEN 0 ELSE f[First(s)] + sum[Rest(s)]]
  <2>2. UpTo(n) \subseteq UpTo(n + 1)
    BY Subruns DEF UpTo
  <2>3. \A s \in UpTo(n) : more[s] = sum[s]
    BY <2>1, <2>2 DEF IsSums
  <2>4. \A s \in UpTo(n + 1) : s # {} => Rest(s) \in UpTo(n)
    BY Subruns DEF UpTo
  <2>5. more = [s \in UpTo(n + 1) |->
                  IF s = {} THEN 0 ELSE f[First(s)] + more[Rest(s)]]
    BY <2>3, <2>4
  <2> HIDE DEF more
  <2>6. IsSums(f, more, UpTo(n + 1))
    BY <2>5 DEF IsSums
  <2> QED BY <2>6
<1> HIDE DEF N
<1>3. Nat \subseteq N
  BY <1>1, <1>2, InductiveSet
<1>4. Cardinality(Runs) \in N
  BY <1>3, Subruns
<1>5. SUBSET Runs = UpTo(Cardinality(Runs))
  BY Subruns DEF UpTo
<1>6. \E sum : IsSums(f, sum, SUBSET Runs)
  BY <1>4, <1>5 DEF N
<1> QED BY <1>6 DEF Sums

LEMMA SumsSteps ==
  ASSUME NEW f
  PROVE  /\ Sums(f)[{}] = 0
         /\ \A s \in SUBSET Runs : s # {} =>
              Sums(f)[s] = f[First(s)] + Sums(f)[Rest(s)]
<1>1. \A s \in SUBSET Runs :
        Sums(f)[s] = IF s = {} THEN 0 ELSE f[First(s)] + Sums(f)[Rest(s)]
  <2> DEFINE sum == Sums(f)
  <2>1. sum = [s \in SUBSET Runs |-> IF s = {} THEN 0 ELSE f[First(s)] + sum[Rest(s)]]
    BY SumsExist DEF IsSums
  <2> HIDE DEF sum
  <2>2. \A s \in SUBSET Runs : sum[s] = IF s = {} THEN 0 ELSE f[First(s)] + sum[Rest(s)]
    BY <2>1
  <2> QED BY <2>2 DEF sum
<1> QED BY <1>1

LEMMA SumsAreNat ==
  ASSUME NEW f \in [Runs -> Nat]
  PROVE  \A s \in SUBSET Runs : Sums(f)[s] \in Nat
<1> DEFINE Good == {s \in SUBSET Runs : Sums(f)[s] \in Nat}
<1>1. {} \in Good
  BY SumsSteps
<1>2. ASSUME NEW s \in SUBSET Runs, s # {}, Rest(s) \in Good PROVE s \in Good
  <2>1. f[First(s)] \in Nat /\ Sums(f)[Rest(s)] \in Nat
    BY <1>2, Subruns
  <2> QED BY <1>2, <2>1, SumsSteps
<1> HIDE DEF Good
<1>3. SUBSET Runs \subseteq Good
  BY <1>1, <1>2, SubrunsInduction
<1> QED BY <1>3 DEF Good

\* One release more, one more in the sum.
LEMMA OneMoreSummed ==
  ASSUME NEW f \in [Runs -> Nat], NEW r \in Runs, NEW g,
         g = [f EXCEPT ![r] = @ + 1]
  PROVE  Sums(g)[Runs] = Sums(f)[Runs] + 1
<1> DEFINE Good == {s \in SUBSET Runs :
                      Sums(g)[s] = Sums(f)[s] + IF r \in s THEN 1 ELSE 0}
<1>1. {} \in Good
  BY SumsSteps
<1>2. ASSUME NEW s \in SUBSET Runs, s # {}, Rest(s) \in Good PROVE s \in Good
  <2>1. First(s) \in s /\ First(s) \in Runs /\ Rest(s) \in SUBSET Runs
    BY <1>2, Subruns
  <2>2. /\ Sums(g)[s] = g[First(s)] + Sums(g)[Rest(s)]
        /\ Sums(f)[s] = f[First(s)] + Sums(f)[Rest(s)]
    BY <1>2, SumsSteps
  <2>3. Sums(f)[Rest(s)] \in Nat /\ f[First(s)] \in Nat
    BY <2>1, SumsAreNat
  <2>4. Sums(g)[Rest(s)] = Sums(f)[Rest(s)] + IF r \in Rest(s) THEN 1 ELSE 0
    BY <1>2
  <2>5. CASE First(s) = r
    <3>1. r \in s /\ r \notin Rest(s) /\ g[First(s)] = f[First(s)] + 1
      BY <2>1, <2>5 DEF Rest
    <3> QED BY <2>2, <2>3, <2>4, <3>1
  <2>6. CASE First(s) # r
    <3>1. (r \in s <=> r \in Rest(s)) /\ g[First(s)] = f[First(s)]
      BY <2>1, <2>6 DEF Rest
    <3> QED BY <2>2, <2>3, <2>4, <3>1
  <2> QED BY <2>5, <2>6
<1> HIDE DEF Good
<1>3. SUBSET Runs \subseteq Good
  BY <1>1, <1>2, SubrunsInduction
<1> QED BY <1>3 DEF Good

LEMMA NothingSummed ==
  ASSUME NEW f, \A r \in Runs : f[r] = 0
  PROVE  Sums(f)[Runs] = 0
<1> DEFINE Good == {s \in SUBSET Runs : Sums(f)[s] = 0}
<1>1. {} \in Good
  BY SumsSteps
<1>2. ASSUME NEW s \in SUBSET Runs, s # {}, Rest(s) \in Good PROVE s \in Good
  BY <1>2, Subruns, SumsSteps
<1> HIDE DEF Good
<1>3. SUBSET Runs \subseteq Good
  BY <1>1, <1>2, SubrunsInduction
<1> QED BY <1>3 DEF Good

(***************************************************************************)
(* Uses.                                                                   *)
(***************************************************************************)

\* What all runs were released is within what the grant counts.
SumCounted == Sums(releases)[Runs] <= uses

\* A step releases nothing and takes no use back, or it releases to one run and
\* counts one use.
LEMMA ReleasesCounted ==
  ASSUME RunsInv, Next
  PROVE  \/ releases' = releases /\ uses' = uses
         \/ /\ \E r \in Runs : releases' = [releases EXCEPT ![r] = @ + 1]
            /\ uses' = uses + 1
<1> USE DEF vault, history
<1>1. CASE Arm \/ \E d \in Pausers : PauseStep(d)
  BY <1>1 DEF Arm, PauseStep, TakeArm, FindRuns, DropKey, EndRun
<1>2. ASSUME NEW r \in Runs, RunStep(r)
      PROVE  \/ releases' = releases /\ uses' = uses
             \/ releases' = [releases EXCEPT ![r] = @ + 1] /\ uses' = uses + 1
  BY <1>2 DEF RunStep, ReadArm, CheckJob, DecideStart, ReleaseAtStart,
              SpawnRoot, AddRun, RootExits, TimeOut, Reap, CloseRun
<1>3. ASSUME NEW q \in Requests, ServeStep(q)
      PROVE  \/ releases' = releases /\ uses' = uses
             \/ /\ \E r \in Runs : releases' = [releases EXCEPT ![r] = @ + 1]
                /\ uses' = uses + 1
  <2>1. CASE Release(q)
    <3>1. req[q].run \in Runs
      BY <2>1 DEF Release, RunsInv, RequestsBound
    <3> QED BY <2>1, <3>1 DEF Release
  <2>2. CASE ~Release(q)
    BY <1>3, <2>2 DEF ServeStep, ReadArmFor, Bind, AskMore, Strike,
                      EndStruckRun, Ask, Spawn, Register, CommandEnds
  <2> QED BY <2>1, <2>2
<1> QED BY <1>1, <1>2, <1>3 DEF Next

LEMMA SumCountedInit == Init => SumCounted
<1> SUFFICES ASSUME Init PROVE SumCounted
  OBVIOUS
<1>1. Sums(releases)[Runs] = 0
  BY NothingSummed DEF Init
<1> QED BY <1>1, UnattendedAssumption DEF Init, SumCounted

LEMMA SumCountedStep == RunsInv /\ SumCounted /\ [Next]_vars => SumCounted'
<1> SUFFICES ASSUME RunsInv, SumCounted, [Next]_vars PROVE SumCounted'
  OBVIOUS
<1>1. releases \in [Runs -> Nat] /\ uses \in Nat /\ Sums(releases)[Runs] \in Nat
  BY SumsAreNat, UnattendedAssumption DEF RunsInv, TypeOK
<1>2. CASE releases' = releases /\ uses' = uses
  BY <1>2 DEF SumCounted
<1>3. ASSUME NEW r \in Runs, releases' = [releases EXCEPT ![r] = @ + 1],
             uses' = uses + 1
      PROVE  SumCounted'
  <2>1. Sums(releases')[Runs] = Sums(releases)[Runs] + 1
    BY <1>1, <1>3, OneMoreSummed
  <2> QED BY <1>1, <1>3, <2>1 DEF SumCounted
<1>4. CASE UNCHANGED vars
  BY <1>2, <1>4 DEF vars, vault, history
<1> QED BY <1>2, <1>3, <1>4, ReleasesCounted

\* Whatever launches and requests decide and release at once, each release is one
\* of the uses the grant counts, and they keep to total_uses (start.rs, service.rs
\* run_with_env).
THEOREM RunsUsesCounted == Spec => []UsesCounted
<1>1. RunsInv /\ SumCounted => UsesCounted
  <2> SUFFICES ASSUME RunsInv, SumCounted PROVE UsesCounted
    OBVIOUS
  <2>1. MapThenSumSet(LAMBDA r : releases[r], Runs) = Sums(releases)[Runs]
    BY DEF MapThenSumSet, MapThenFoldSet, Sums, IsSums, First, Rest
  <2>2. uses <= TotalUses
    BY UnattendedAssumption DEF RunsInv, TypeOK
  <2> QED BY <2>1, <2>2 DEF SumCounted, UsesCounted
<1> QED BY <1>1, SumCountedInit, SumCountedStep, RunsInvariant, PTL DEF Spec
=============================================================================
