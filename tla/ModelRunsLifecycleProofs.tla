----------------------- MODULE ModelRunsLifecycleProofs -----------------------
(***************************************************************************)
(* ModelRuns implements RunLifecycle, for every value of its constants.    *)
(***************************************************************************)
EXTENDS ModelRunsLifecycle, ModelRunsProofs

(* Exactly the runs created so far have a model, and only they are tracked. *)
Created ==
    /\ cluster \subseteq 1..nruns
    /\ \A r \in Runs : IF r <= nruns THEN row[r].model \in Models ELSE row[r].model = NONE

(* The step lets go of r, or asks it to stop, and changes no other run. *)
OneRunStep(r) ==
    /\ nruns' = nruns
    /\ cluster' \subseteq cluster
    /\ cluster \ {r} \subseteq cluster'
    /\ \A s \in Runs : row'[s].model = row[s].model
    /\ \A s \in Runs \ {r} : row'[s].desired = row[s].desired
    /\ row'[r].desired \in {row[r].desired, "STOPPED"}

LifecycleStep == Lifecycle!Next \/ UNCHANGED <<Stage, Owner>>

-----------------------------------------------------------------------------
(* A step that creates no run and gives none a model keeps Created. *)
LEMMA SameModelsKeepCreated ==
    ASSUME Created, nruns' = nruns, cluster' \subseteq cluster,
           \A s \in Runs : row'[s].model = row[s].model
    PROVE  Created'
BY DEF Created

(* Such a step is a step of RunLifecycle, or changes nothing in it. *)
LEMMA OneRunLifecycle ==
    ASSUME Inv, Created, NEW r \in Runs, OneRunStep(r)
    PROVE  LifecycleStep /\ Created'
<1> USE ModelRunsAssumption
<1>1. Created'
  BY SameModelsKeepCreated DEF OneRunStep
<1>2. Owner' = Owner
  BY DEF OneRunStep, Owner
<1>3. ASSUME NEW s \in Runs, s # r
      PROVE  StageOf(s)' = StageOf(s)
  <2>1. /\ row'[s].desired = row[s].desired /\ nruns' = nruns
        /\ s \in cluster' <=> s \in cluster
    BY <1>3 DEF OneRunStep
  <2>2. row[s].desired \in {"RUNNING", "REPLACING", "STOPPED"}
    BY DEF Inv, TypeOK, ModelRun, DesiredStatus
  <2> QED
    BY <2>1, <2>2 DEF StageOf
<1>4. CASE StageOf(r)' = StageOf(r)
  <2>1. Stage' = Stage
    BY <1>3, <1>4, Zenon DEF Stage
  <2> QED
    BY <1>1, <1>2, <2>1 DEF LifecycleStep
<1>5. CASE StageOf(r)' # StageOf(r)
  <2>1. r \in cluster /\ r <= nruns /\ row[r].desired \in DesiredStatus
    BY <1>5 DEF OneRunStep, StageOf, Created, Inv, TypeOK, ModelRun, Runs
  <2>2. Stage' = [Stage EXCEPT ![r] = StageOf(r)']
    BY <1>3 DEF Stage
  <2>3. CASE r \in cluster'
    <3>1. Stage[r] \in {"wanted", "replacing"} /\ StageOf(r)' = "stopping"
      BY <1>5, <2>1, <2>3 DEF Stage, StageOf, OneRunStep, DesiredStatus
    <3>2. Lifecycle!Retire(r)
      BY <1>2, <2>2, <3>1 DEF Lifecycle!Retire
    <3> QED
      BY <1>1, <3>2 DEF LifecycleStep, Lifecycle!Next
  <2>4. CASE r \notin cluster'
    <3>1. StageOf(r)' = "gone" /\ Stage[r] # "unborn"
      <4>1. nruns' = nruns /\ ~(r > nruns)
        BY <2>1 DEF OneRunStep, Inv, TypeOK, Runs
      <4> QED
        BY <2>1, <2>4, <4>1 DEF Stage, StageOf, DesiredStatus
    <3>2. Stage' = [s \in Runs |-> IF s \in {r} THEN "gone" ELSE Stage[s]]
      BY <2>2, <3>1 DEF Stage
    <3>3. Lifecycle!Settle({r})
      BY <1>2, <3>1, <3>2 DEF Lifecycle!Settle
    <3> QED
      BY <1>1, <3>3 DEF LifecycleStep, Lifecycle!Next
  <2> QED
    BY <2>3, <2>4
<1> QED
  BY <1>4, <1>5

(* So does a step that leaves the runs and the cluster alone. *)
LEMMA UntouchedLifecycle ==
    ASSUME Inv, Created, UNCHANGED <<row, nruns, cluster>>
    PROVE  LifecycleStep /\ Created'
<1>1. Created' /\ Owner' = Owner
  BY DEF Created, Owner
<1>2. Stage' = Stage
  BY DEF Stage, StageOf
<1> QED
  BY <1>1, <1>2 DEF LifecycleStep

-----------------------------------------------------------------------------
(* The fragments shared by the calls touch the run they are given.         *)

(* handle_error. *)
LEMMA HandleErrorTouches ==
    ASSUME Inv, NEW r \in Runs, NEW code \in ErrorType, NEW next \in Op,
           HandleError(r, code, next), nruns' = nruns
    PROVE  OneRunStep(r)
<1>1. row \in [Runs -> ModelRun]
  BY DEF Inv, TypeOK
<1>2. \A run \in ModelRun : /\ WithFailure(run, code).model = run.model
                            /\ WithFailure(run, code).desired = run.desired
  BY DEF WithFailure, ModelRun
<1>3. ASSUME NEW run \in {row[r], WithFailure(row[r], code)},
             FinalizeModelCleanup(r, run, next)
      PROVE  OneRunStep(r)
  <2>1. row' = [row EXCEPT ![r] = [run EXCEPT !.runner = "FAILED"]] /\ cluster' = cluster \ {r}
    BY <1>3 DEF FinalizeModelCleanup
  <2>2. /\ [run EXCEPT !.runner = "FAILED"].model = row[r].model
        /\ [run EXCEPT !.runner = "FAILED"].desired = row[r].desired
    <3>1. run \in ModelRun /\ run.model = row[r].model /\ run.desired = row[r].desired
      BY <1>1, <1>2, WithFailureType
    <3> QED
      BY <3>1 DEF ModelRun
  <2> QED
    BY <1>1, <2>1, <2>2 DEF OneRunStep
<1>4. ASSUME row' = [row EXCEPT ![r] = WithFailure(row[r], code)], cluster' = cluster
      PROVE  OneRunStep(r)
  BY <1>1, <1>2, <1>4 DEF OneRunStep
<1> QED
  BY <1>3, <1>4 DEF HandleError

(* _RunService.stop_model. *)
LEMMA StopRunTouches ==
    ASSUME Inv, NEW r \in Runs, NEW next, StopRun(r, next), nruns' = nruns
    PROVE  OneRunStep(r)
<1>1. row \in [Runs -> ModelRun]
  BY DEF Inv, TypeOK
<1>2. row' = [row EXCEPT ![r].desired = "STOPPED"] /\ cluster' \in {cluster, cluster \ {r}}
  BY DEF StopRun
<1> QED
  BY <1>1, <1>2 DEF OneRunStep, ModelRun

(* A step that keeps the model and the desired status of r. *)
LEMMA SameWishTouches ==
    ASSUME Inv, NEW r \in Runs, NEW run, row' = [row EXCEPT ![r] = run],
           run.model = row[r].model, run.desired = row[r].desired,
           cluster' \in {cluster, cluster \ {r}}, nruns' = nruns
    PROVE  OneRunStep(r)
BY DEF OneRunStep, Inv, TypeOK

-----------------------------------------------------------------------------
(* Every step of a call is a step of RunLifecycle, or changes nothing in it. *)
LEMMA ProceedLifecycle ==
    ASSUME Inv, Created, Proceed
    PROVE  LifecycleStep /\ Created'
<1> USE ModelRunsAssumption
<1>1. op \in Op /\ row \in [Runs -> ModelRun]
  BY DEF Inv, TypeOK
<1>2. NoOp \in Op
  BY NoOpType
<1>3. ASSUME NEW r \in Runs, NEW run, row' = [row EXCEPT ![r] = run],
             run.model = row[r].model, run.desired = row[r].desired,
             cluster' \in {cluster, cluster \ {r}}, nruns' = nruns
      PROVE  LifecycleStep /\ Created'
  BY <1>3, SameWishTouches, OneRunLifecycle
<1>4. CASE IsBuilt
  <2>1. op.cur \in Runs
    BY <1>4 DEF IsBuilt, Inv, CallInv
  <2>2. PICK run \in {[row[op.cur] EXCEPT !.runner = "INITIALIZING", !.job = FALSE],
                      [row[op.cur] EXCEPT !.builder = "BUILDING"]} :
            row' = [row EXCEPT ![op.cur] = run]
    BY <1>4 DEF IsBuilt, RunModel
  <2>3. run.model = row[op.cur].model /\ run.desired = row[op.cur].desired
    BY <1>1, <2>1, <2>2 DEF ModelRun
  <2> QED
    BY <1>3, <1>4, <2>1, <2>2, <2>3 DEF IsBuilt
<1>5. CASE Launched
  <2>1. op.cur \in Runs
    BY <1>5 DEF Launched, Inv, CallInv
  <2>2. row' = [row EXCEPT ![op.cur] = [row[op.cur] EXCEPT !.job = TRUE]]
    BY <1>5 DEF Launched
  <2>3. /\ [row[op.cur] EXCEPT !.job = TRUE].model = row[op.cur].model
        /\ [row[op.cur] EXCEPT !.job = TRUE].desired = row[op.cur].desired
    BY <1>1, <2>1 DEF ModelRun
  <2> QED
    BY <1>3, <1>5, <2>1, <2>2, <2>3 DEF Launched
<1>6. CASE BuildRaises
  <2>1. op.cur \in Runs /\ "BUILD_EXCEPTION" \in ErrorType
    BY <1>6 DEF BuildRaises, Inv, CallInv, ErrorType, CloudProviderErrorType
  <2> QED
    BY <1>2, <1>6, <2>1, HandleErrorTouches, OneRunLifecycle DEF BuildRaises
<1>7. CASE RunRaises \/ StopRaises
  <2>1. op.cur \in Runs /\ "RUN_EXCEPTION" \in ErrorType
    BY <1>7 DEF RunRaises, StopRaises, Inv, CallInv, ErrorType, CloudProviderErrorType
  <2>2. CASE HandleError(op.cur, "RUN_EXCEPTION", NoOp)
    BY <1>2, <1>7, <2>1, <2>2, HandleErrorTouches, OneRunLifecycle DEF RunRaises, StopRaises
  <2>3. CASE row' = row /\ cluster' = cluster
    BY <1>7, <2>3, UntouchedLifecycle DEF RunRaises, StopRaises
  <2> QED
    BY <1>7, <2>2, <2>3 DEF RunRaises, StopRaises
<1>8. CASE Halt
  <2>1. op.cur \in Runs
    BY <1>8 DEF Halt, Inv, CallInv
  <2> QED
    BY <1>8, <2>1, StopRunTouches, OneRunLifecycle DEF Halt
<1>9. CASE HandleReport
  <2> DEFINE rep  == Head(op.pending)
             next == [op EXCEPT !.pending = Tail(@)]
  <2>1. rep \in Report /\ next \in Op
    <3>1. op.pending \in Seq(Report) /\ op.pending # <<>>
      BY <1>1, <1>9 DEF HandleReport, Op
    <3>2. Head(op.pending) \in Report /\ Tail(op.pending) \in Seq(Report)
      BY <3>1, HeadTailProperties
    <3> QED
      BY <1>1, <3>2 DEF Op
  <2>2. rep.code \in ErrorType
    BY <2>1 DEF Report, ErrorType
  <2> HIDE DEF rep, next
  <2>3. CASE \E r \in HeldFailed(rep) : HandleError(r, rep.code, next)
    <3>1. PICK r \in cluster : HandleError(r, rep.code, next)
      BY <2>3 DEF HeldFailed
    <3>2. r \in Runs
      BY TrackedAreRuns
    <3> QED
      BY <1>9, <2>1, <2>2, <3>1, <3>2, HandleErrorTouches, OneRunLifecycle DEF HandleReport
  <2>4. CASE row' = row /\ cluster' = cluster
    BY <1>9, <2>4, UntouchedLifecycle DEF HandleReport
  <2> QED
    BY <1>9, <2>3, <2>4 DEF HandleReport, rep, next
<1>10. CASE UpdateRunnerState
  <2> DEFINE r == Oldest(Processing)
             s == op.seen[r]
             run == [row[r] EXCEPT !.runner = s.status, !.ip = s.ip]
  <2>1. r \in Runs
    BY <1>10, OldestIsMember DEF UpdateRunnerState, Processing
  <2>2. run.model = row[r].model /\ run.desired = row[r].desired
    BY <1>1, <2>1 DEF ModelRun
  <2>3. row' = [row EXCEPT ![r] = run] /\ cluster' \in {cluster, cluster \ {r}}
    BY <1>10 DEF UpdateRunnerState
  <2> HIDE DEF r, run
  <2> QED
    BY <1>3, <1>10, <2>1, <2>2, <2>3 DEF UpdateRunnerState
<1>11. CASE StopReplaced
  <2>1. CASE op.stops = {}
    BY <1>11, <2>1, UntouchedLifecycle DEF StopReplaced
  <2>2. CASE op.stops # {}
    <3>1. Oldest(op.stops) \in Runs
      BY <1>1, <2>2, OldestIsMember DEF Op
    <3> QED
      BY <1>11, <2>2, <3>1, StopRunTouches, OneRunLifecycle DEF StopReplaced
  <2> QED
    BY <2>1, <2>2
<1>12. CASE HandleErrors
  <2>1. PICK r \in Runs, code \in ErrorType, next \in Op : HandleError(r, code, next)
    <3>1. CASE op.lost # {}
      <4>1. Oldest(op.lost) \in Runs /\ [op EXCEPT !.lost = @ \ {Oldest(@)}] \in Op
        <5>1. op.lost \in SUBSET Runs
          BY <1>1 DEF Op
        <5>2. Oldest(op.lost) \in Runs
          BY <3>1, <5>1, OldestIsMember
        <5> QED
          BY <1>1, <5>1, <5>2 DEF Op
      <4>2. "UNKNOWN" \in ErrorType
        BY DEF ErrorType, OrchestratorErrorType
      <4> QED
        BY <1>12, <3>1, <4>1, <4>2 DEF HandleErrors
    <3>2. CASE op.lost = {}
      <4>1. op.errors \in Seq(Error) /\ op.errors # <<>>
        BY <1>1, <1>12, <3>2 DEF HandleErrors, Op
      <4>2. Head(op.errors) \in Error /\ Tail(op.errors) \in Seq(Error)
        BY <4>1, HeadTailProperties
      <4>3. [op EXCEPT !.errors = Tail(@)] \in Op
        BY <1>1, <4>2 DEF Op
      <4>4. Head(op.errors).run \in Runs /\ Head(op.errors).code \in ErrorType
        BY <4>2 DEF Error
      <4> QED
        BY <1>12, <3>2, <4>3, <4>4 DEF HandleErrors
    <3> QED
      BY <3>1, <3>2
  <2> QED
    BY <1>12, <2>1, HandleErrorTouches, OneRunLifecycle DEF HandleErrors
<1>13. CASE UpdateBuilderState
  <2> DEFINE r == Oldest(Processing)
             s == op.seen[r].status
             built == [row[r] EXCEPT !.builder = s]
  <2>1. r \in Runs
    BY <1>13, OldestIsMember DEF UpdateBuilderState, Processing
  <2>2. PICK run \in {built, [built EXCEPT !.runner = "INITIALIZING", !.job = FALSE]} :
            row' = [row EXCEPT ![r] = run]
    BY <1>13 DEF UpdateBuilderState, RunModel
  <2>3. run.model = row[r].model /\ run.desired = row[r].desired
    BY <1>1, <2>1, <2>2 DEF ModelRun
  <2>4. cluster' = cluster /\ nruns' = nruns
    BY <1>13 DEF UpdateBuilderState
  <2> HIDE DEF r, built
  <2> QED
    BY <1>3, <2>1, <2>2, <2>3, <2>4
<1>14. CASE Build \/ Run \/ Stop \/ UpdateModelsInfo \/ LoadRunnerStates
            \/ LoadRunnerStatesRaises \/ RunnerStatesDone \/ ErrorsDone
            \/ LoadBuilderStates \/ LoadBuilderStatesRaises \/ BuilderStatesDone
  <2>1. UNCHANGED <<row, nruns, cluster>>
    BY <1>14 DEF Build, Run, Stop, UpdateModelsInfo, LoadRunnerStates, LoadRunnerStatesRaises,
                 RunnerStatesDone, ErrorsDone, LoadBuilderStates, LoadBuilderStatesRaises,
                 BuilderStatesDone
  <2> QED
    BY <2>1, UntouchedLifecycle
<1> QED
  BY <1>4, <1>5, <1>6, <1>7, <1>8, <1>9, <1>10, <1>11, <1>12, <1>13, <1>14 DEF Proceed

(* start_model is the creation of a run: the run it marks REPLACING was the *)
(* only wanted run of the model.                                            *)
LEMMA StartModelLifecycle ==
    ASSUME Inv, Created, NEW m \in Models, NEW c \in Configs, StartModel(m, c)
    PROVE  LifecycleStep /\ Created'
<1> USE ModelRunsAssumption
<1> DEFINE rows == [r \in Runs |-> IF r \in Replaced(m)
                                   THEN [row[r] EXCEPT !.desired = "REPLACING"]
                                   ELSE row[r]]
           first == NewRun(m, c)
           refused == [first EXCEPT !.failure = "IN_QUARANTINE", !.runner = "FAILED"]
<1>0. PICK new \in Runs : new = nruns + 1
  <2>1. nruns + 1 \in Runs
    BY DEF StartModel, Inv, TypeOK, Runs
  <2> QED
    BY <2>1
<1>1. /\ new \in Runs /\ new = nruns + 1 /\ nruns' = new
      /\ nruns \in Nat /\ row \in [Runs -> ModelRun]
  BY <1>0 DEF StartModel, Inv, TypeOK, Runs
<1>2. /\ first.model = m /\ first.desired = "RUNNING"
      /\ refused.model = m /\ refused.desired = "RUNNING"
  BY DEF NewRun, Blank
<1>3. \A r \in Runs :
          /\ rows[r].model = row[r].model
          /\ rows[r].desired = IF r \in Replaced(m) THEN "REPLACING" ELSE row[r].desired
  BY <1>1 DEF ModelRun
<1>4. ASSUME NEW r \in Runs
      PROVE  r \in Replaced(m) <=> r \in cluster /\ row[r].model = m /\ row[r].desired = "RUNNING"
  <2> DEFINE wanted == ModelsByIdAndDesired(m, {"RUNNING"})
  <2>1. r \in wanted <=> r \in cluster /\ row[r].model = m /\ row[r].desired = "RUNNING"
    BY DEF ModelsByIdAndDesired
  <2>2. CASE wanted = {}
    BY <2>1, <2>2, Zenon DEF Replaced
  <2>3. CASE wanted # {}
    <3>1. wanted \in SUBSET Runs
      BY DEF ModelsByIdAndDesired, Inv, TypeOK
    <3>2. Oldest(wanted) \in wanted
      BY <2>3, <3>1, OldestIsMember
    <3>3. \A s, t \in wanted : s = t
      BY DEF ModelsByIdAndDesired, Inv, OneWantedRun, SameModel
    <3>4. Replaced(m) = {Oldest(wanted)}
      BY <2>3, Zenon DEF Replaced
    <3> HIDE DEF wanted
    <3> QED
      BY <2>1, <3>2, <3>3, <3>4
  <2> QED
    BY <2>2, <2>3
<1>5. PICK run \in {first, refused} : row' = [rows EXCEPT ![new] = run]
  BY <1>1, Zenon DEF StartModel
<1>6. cluster' = cluster \/ cluster' = cluster \cup {new}
  BY <1>1 DEF StartModel
<1>7. /\ row'[new].model = m /\ row'[new].desired = "RUNNING"
      /\ \A r \in Runs \ {new} :
            /\ row'[r].model = row[r].model
            /\ row'[r].desired = IF r \in Replaced(m) THEN "REPLACING" ELSE row[r].desired
  <2>1. rows = [r \in Runs |-> rows[r]]
    OBVIOUS
  <2> HIDE DEF rows, first, refused
  <2> QED
    BY <1>1, <1>2, <1>3, <1>5, <2>1
<1>8. Created'
  <2>1. cluster' \subseteq 1..nruns'
    BY <1>1, <1>6 DEF Created
  <2>2. ASSUME NEW r \in Runs
        PROVE  IF r <= nruns' THEN row'[r].model \in Models ELSE row'[r].model = NONE
    <3>1. CASE r = new
      BY <1>1, <1>7, <3>1
    <3>2. CASE r # new
      BY <1>1, <1>7, <3>2 DEF Created, Runs
    <3> QED
      BY <3>1, <3>2
  <2> QED
    BY <2>1, <2>2 DEF Created
<1>9. Owner' = [Owner EXCEPT ![new] = m]
  BY <1>1, <1>7 DEF Owner
<1>10. Stage[new] = "unborn" /\ StageOf(new)' \in {"wanted", "gone"}
  <2>1. new > nruns /\ ~(new > nruns')
    BY <1>1
  <2> QED
    BY <1>1, <1>7, <2>1 DEF Stage, StageOf
<1>11. ASSUME NEW s \in Runs, s # new
       PROVE  StageOf(s)' = IF Owner[s] = m /\ Stage[s] = "wanted" THEN "replacing" ELSE Stage[s]
  <2>1. /\ s > nruns' <=> s > nruns
        /\ s \in cluster' <=> s \in cluster
    BY <1>1, <1>6, <1>11 DEF Runs
  <2>2. row[s].desired \in {"RUNNING", "REPLACING", "STOPPED"}
    BY <1>1 DEF ModelRun, DesiredStatus
  <2>3. s \in cluster => ~(s > nruns)
    BY <1>1 DEF Created, Runs
  <2>4. CASE s \in Replaced(m)
    <3>1. s \in cluster /\ row[s].model = m /\ row[s].desired = "RUNNING"
      BY <1>4, <2>4
    <3>2. row'[s].desired = "REPLACING"
      BY <1>7, <1>11, <2>4
    <3> QED
      BY <2>1, <2>3, <3>1, <3>2 DEF Stage, Owner, StageOf
  <2>5. CASE s \notin Replaced(m)
    <3>1. ~(s \in cluster /\ row[s].model = m /\ row[s].desired = "RUNNING")
      BY <1>4, <2>5
    <3>2. row'[s].desired = row[s].desired
      BY <1>7, <1>11, <2>5
    <3>3. StageOf(s)' = StageOf(s)
      BY <2>1, <2>2, <3>2 DEF StageOf
    <3>4. ~(Owner[s] = m /\ Stage[s] = "wanted")
      BY <2>2, <3>1 DEF Stage, Owner, StageOf
    <3> QED
      BY <3>3, <3>4 DEF Stage
  <2> QED
    BY <2>4, <2>5
<1>12. Stage' = [s \in Runs |->
                   CASE s = new -> StageOf(new)'
                     [] s # new /\ Owner[s] = m /\ Stage[s] = "wanted" -> "replacing"
                     [] OTHER -> Stage[s]]
  <2>1. ASSUME NEW s \in Runs
        PROVE  StageOf(s)' = CASE s = new -> StageOf(new)'
                               [] s # new /\ Owner[s] = m /\ Stage[s] = "wanted" -> "replacing"
                               [] OTHER -> Stage[s]
    BY <1>1, <1>10, <1>11
  <2> QED
    BY <2>1, Zenon DEF Stage
<1>13. Lifecycle!Create(new, m)
  BY <1>9, <1>10, <1>12 DEF Lifecycle!Create
<1> QED
  BY <1>1, <1>8, <1>13 DEF LifecycleStep, Lifecycle!Next

(* A restart loses the runs that load_active does not select: they are     *)
(* gone.  It brings none back, which is ActiveRunsTracked.                 *)
LEMMA CrashLifecycle ==
    ASSUME Inv, Created, Crash
    PROVE  LifecycleStep /\ Created'
<1> USE ModelRunsAssumption
<1> DEFINE lost == cluster \ LoadActive
<1>1. row' = row /\ nruns' = nruns /\ cluster' = LoadActive /\ LoadActive \subseteq cluster
  BY DEF Crash, Inv, ActiveRunsTracked
<1>2. Created'
  BY <1>1, SameModelsKeepCreated
<1>3. lost \subseteq Runs /\ \A r \in lost : Stage[r] # "unborn"
  <2>1. lost \subseteq Runs
    BY DEF Inv, TypeOK
  <2>2. ASSUME NEW r \in lost
        PROVE  Stage[r] # "unborn"
    <3>1. r \in cluster /\ r \in Runs /\ ~(r > nruns)
      BY DEF Created, Inv, TypeOK, Runs
    <3>2. row[r].desired \in {"RUNNING", "REPLACING", "STOPPED"}
      BY <3>1 DEF Inv, TypeOK, ModelRun, DesiredStatus
    <3> QED
      BY <3>1, <3>2 DEF Stage, StageOf
  <2> QED
    BY <2>1, <2>2
<1>4. ASSUME NEW r \in Runs
      PROVE  StageOf(r)' = IF r \in lost THEN "gone" ELSE Stage[r]
  <2>1. r \in cluster => ~(r > nruns)
    BY DEF Created, Inv, TypeOK, Runs
  <2>2. row[r].desired \in {"RUNNING", "REPLACING", "STOPPED"}
    BY DEF Inv, TypeOK, ModelRun, DesiredStatus
  <2> QED
    BY <1>1, <2>1, <2>2 DEF Stage, StageOf
<1>5. Stage' = [r \in Runs |-> IF r \in lost THEN "gone" ELSE Stage[r]]
  BY <1>4 DEF Stage
<1>6. Owner' = Owner
  BY <1>1 DEF Owner
<1> HIDE DEF lost
<1>7. Lifecycle!Settle(lost)
  BY <1>3, <1>5, <1>6 DEF Lifecycle!Settle
<1> QED
  BY <1>2, <1>3, <1>7 DEF LifecycleStep, Lifecycle!Next

-----------------------------------------------------------------------------
(* Every step of ModelRuns is a step of RunLifecycle, or changes nothing   *)
(* in it.                                                                  *)
LEMMA NextLifecycle ==
    ASSUME Inv, Created, [Next]_vars
    PROVE  LifecycleStep /\ Created'
<1>1. CASE \E m \in Models, c \in Configs : StartModel(m, c)
  BY <1>1, StartModelLifecycle
<1>2. ASSUME NEW m \in Models, StopModel(m)
      PROVE  LifecycleStep /\ Created'
  <2> DEFINE active == ModelsByIdAndDesired(m, {"RUNNING", "REPLACING"})
  <2>1. active \in SUBSET Runs /\ active # {}
    BY <1>2 DEF StopModel, ModelsByIdAndDesired, Inv, TypeOK
  <2>2. Oldest(active) \in Runs
    BY <2>1, OldestIsMember
  <2> QED
    BY <1>2, <2>2, StopRunTouches, OneRunLifecycle DEF StopModel
<1>3. CASE UpdatesStates \/ GetAllModels \/ UNCHANGED vars
  <2>1. UNCHANGED <<row, nruns, cluster>>
    BY <1>3 DEF UpdatesStates, GetAllModels, vars
  <2> QED
    BY <2>1, UntouchedLifecycle
<1>4. CASE Proceed
  BY <1>4, ProceedLifecycle
<1>5. CASE Environment
  <2>1. CASE Crash
    BY <2>1, CrashLifecycle
  <2>2. CASE UNCHANGED <<row, nruns, cluster>>
    BY <2>2, UntouchedLifecycle
  <2> QED
    BY <1>5, <2>1, <2>2 DEF Environment, TaskMove, ImageMove, ReportModelRunnerFailure
<1> QED
  BY <1>1, <1>2, <1>3, <1>4, <1>5 DEF Next

(* Before anything has happened, no run is born.                           *)
LEMMA InitLifecycle ==
    ASSUME Init
    PROVE  Lifecycle!Init /\ Created
<1> USE ModelRunsAssumption
<1>1. Created
  BY DEF Init, Created, Blank, Runs
<1>2. Stage = [r \in Runs |-> "unborn"]
  BY DEF Init, Stage, StageOf, Runs
<1>3. Owner = [r \in Runs |-> NONE]
  BY DEF Init, Owner, Blank
<1> QED
  BY <1>1, <1>2, <1>3 DEF Lifecycle!Init

(* Whichever calls raise and whenever the process restarts, the runs of a  *)
(* model go forward only, each displaced by a newer one.                   *)
THEOREM Implementation == Spec => ImplementsLifecycle
<1>1. Init => Inv /\ Created /\ Lifecycle!Init
  BY InitInv, InitLifecycle
<1>2. Inv /\ Created /\ [Next]_vars => Created' /\ [Lifecycle!Next]_<<Stage, Owner>>
  BY NextLifecycle DEF LifecycleStep
<1>3. Inv /\ [Next]_vars => Inv'
  BY NextKeeps, StutterKeeps
<1> QED
  BY <1>1, <1>2, <1>3, PTL DEF Spec, ImplementsLifecycle, Lifecycle!Spec
==============================================================================
