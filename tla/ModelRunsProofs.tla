--------------------------- MODULE ModelRunsProofs ---------------------------
(***************************************************************************)
(* Theorems about ModelRuns, for every value of its constants.  The first  *)
(* part holds whichever calls raise and whenever the process restarts; the *)
(* second, on how runs end, as long as no stop raises; the third, on what  *)
(* a call has done by the time it returns, as long as the process does not *)
(* restart; the fourth, on the jobs of the runs, as long as launches and   *)
(* stops return and the process does not restart; the fifth, on what the   *)
(* coordinators are shown, holds like the first whatever happens.          *)
(***************************************************************************)
EXTENDS ModelRuns, JobMoves, SequenceTheorems, WellFoundedInduction, TLAPS

(* The loops of the update take the oldest of a set of runs: it is one.    *)
LEMMA OldestIsMember ==
    ASSUME NEW S \in SUBSET Runs, S # {}
    PROVE  Oldest(S) \in S
<1>1. S \in SUBSET Nat
  BY DEF Runs
<1>2. PICK x \in S : \A y \in S : ~(<<y, x>> \in OpToRel(<, Nat))
  BY <1>1, NatLessThanWellFounded, WFMin, Zenon
<1>3. \A y \in S : x <= y
  <2>1. ASSUME NEW y \in S, y < x
        PROVE  FALSE
    <3>1. <<y, x>> \in Nat \X Nat
      BY <1>1
    <3>2. <<y, x>>[1] < <<y, x>>[2]
      BY <2>1
    <3>3. <<y, x>> \in OpToRel(<, Nat)
      BY <3>1, <3>2, Zenon DEF OpToRel
    <3> QED
      BY <3>3, <1>2, Zenon
  <2> QED
    BY <2>1, <1>1
<1> QED
  BY <1>3, Zenon DEF Oldest

-----------------------------------------------------------------------------
(* The inductive invariant. *)
Inv == TypeOK /\ CallInv /\ OneWantedRun /\ ActiveRunsTracked

(* A step after which no run is wanted that was not, and none is tracked   *)
(* that was not.                                                           *)
OnlyForward ==
    /\ cluster' \subseteq cluster
    /\ \A r \in Runs : /\ row'[r].model = row[r].model
                       /\ row'[r].desired = "RUNNING" => row[r].desired = "RUNNING"

(* What most steps preserve. *)
Forward ==
    /\ row' \in [Runs -> ModelRun] /\ op' \in Op
    /\ CallInv' /\ ActiveRunsTracked' /\ OnlyForward

(* A step that only lets runs go cannot give a model a second wanted run.  *)
LEMMA OnlyForwardKeepsOneWanted ==
    ASSUME TypeOK, OneWantedRun, OnlyForward
    PROVE  OneWantedRun'
BY DEF TypeOK, OneWantedRun, OnlyForward, SameModel

(* Nothing is tracked when the service is created.                         *)
LEMMA InitInv ==
    ASSUME Init
    PROVE  Inv
<1> USE ModelRunsAssumption
<1>1. Blank \in ModelRun
  BY DEF Blank, ModelRun, DesiredStatus
<1>2. NoOp \in Op
  BY DEF NoOp, Op, Points, Unseen, Runs
<1>3. TypeOK
  BY <1>1, <1>2 DEF Init, TypeOK, Runs
<1>4. CallInv
  BY DEF Init, CallInv, NoOp, Phase, ReturnPoints, ErrorPoints
<1>5. OneWantedRun /\ ActiveRunsTracked
  BY DEF Init, OneWantedRun, ActiveRunsTracked, LoadActive, Blank
<1> QED
  BY <1>3, <1>4, <1>5 DEF Inv

(* Recording a failure on a run leaves a run.                              *)
LEMMA WithFailureType ==
    ASSUME NEW run \in ModelRun, NEW code \in ErrorType
    PROVE  WithFailure(run, code) \in ModelRun
<1> DEFINE q == run.quarantined \/ PlaceToQuarantine(code)
<1>1. q \in BOOLEAN
  OBVIOUS
<1>2. WithFailure(run, code) = [run EXCEPT !.failure = code, !.quarantined = q]
  BY Zenon DEF WithFailure
<1> HIDE DEF q
<1> QED
  BY <1>1, <1>2 DEF ModelRun

(* handle_error. *)
LEMMA HandleErrorKeeps ==
    ASSUME Inv, NEW r \in Runs, NEW code \in ErrorType, NEW next \in Op,
           next.pc \in ErrorPoints, next.ret \in ReturnPoints,
           HandleError(r, code, next)
    PROVE  Forward
<1> USE ModelRunsAssumption
<1>1. WithFailure(row[r], code) \in ModelRun
  BY WithFailureType DEF Inv, TypeOK
<1>2. ASSUME NEW run \in ModelRun, run.model = row[r].model, run.desired = row[r].desired,
             FinalizeModelCleanup(r, run, next)
      PROVE  Forward
  <2>1. row' \in [Runs -> ModelRun] /\ op' \in Op
    BY <1>2 DEF FinalizeModelCleanup, Inv, TypeOK, ModelRun, RunnerStatus
  <2>2. CallInv'
    BY <1>2 DEF FinalizeModelCleanup, CallInv, Phase, ErrorPoints
  <2>3. ActiveRunsTracked'
    BY <1>2 DEF FinalizeModelCleanup, Inv, TypeOK, ActiveRunsTracked, LoadActive, ModelRun
  <2>4. OnlyForward
    BY <1>2 DEF FinalizeModelCleanup, Inv, TypeOK, OnlyForward, ModelRun
  <2> QED
    BY <2>1, <2>2, <2>3, <2>4 DEF Forward
<1>3. ASSUME row' = [row EXCEPT ![r] = WithFailure(row[r], code)],
             op' = [next EXCEPT !.pc = "halt", !.ret = next.pc, !.cur = r],
             cluster' = cluster
      PROVE  Forward
  <2>1. row' \in [Runs -> ModelRun]
    BY <1>1, <1>3 DEF Inv, TypeOK
  <2>2. op' \in Op
    <3>1. "halt" \in Points /\ r \in 0..MaxRuns
      BY DEF Points, Runs
    <3> QED
      BY <1>3, <3>1 DEF Op
  <2>3. CallInv'
    BY <1>3 DEF CallInv, Phase, ErrorPoints, ReturnPoints, Op
  <2>4. ActiveRunsTracked' /\ OnlyForward
    BY <1>3 DEF Inv, TypeOK, ActiveRunsTracked, LoadActive, OnlyForward, WithFailure, ModelRun
  <2> QED
    BY <2>1, <2>2, <2>3, <2>4 DEF Forward
<1>4. CASE code = "STOP_BEFORE_CLEANUP"
  BY <1>2, <1>4 DEF HandleError, Inv, TypeOK
<1>5. CASE code # "STOP_BEFORE_CLEANUP" /\ IsRunActive(row[r]) /\ code \notin CloudProviderErrorType
  BY <1>3, <1>5 DEF HandleError
<1>6. CASE /\ code # "STOP_BEFORE_CLEANUP"
           /\ ~(IsRunActive(row[r]) /\ code \notin CloudProviderErrorType)
  <2>1. FinalizeModelCleanup(r, WithFailure(row[r], code), next)
    BY <1>6 DEF HandleError
  <2>2. /\ WithFailure(row[r], code).model = row[r].model
        /\ WithFailure(row[r], code).desired = row[r].desired
    BY DEF WithFailure, Inv, TypeOK, ModelRun
  <2> QED
    BY <2>1, <2>2, <1>1, <1>2
<1> QED
  BY <1>4, <1>5, <1>6

(* _RunService.stop_model: what is left of the statuses being processed is *)
(* not touched, because a run that leaves the cluster here is not in its   *)
(* run phase.                                                              *)
LEMMA StopRunKeeps ==
    ASSUME Inv, NEW r \in Runs, NEW next \in Op, next.ret \in ReturnPoints,
           \/ next.pc \in ErrorPoints
           \/ next.pc = "replace" /\ op.pc = "replace" /\ next.seen = op.seen,
           StopRun(r, next)
    PROVE  Forward /\ told' \in [Runs -> RunnerStatus \cup {NONE}]
<1> USE ModelRunsAssumption
<1>1. row' \in [Runs -> ModelRun]
  <2>1. row \in [Runs -> ModelRun] /\ row' = [row EXCEPT ![r].desired = "STOPPED"]
    BY DEF StopRun, Inv, TypeOK
  <2>2. [row[r] EXCEPT !.desired = "STOPPED"] \in ModelRun
    BY <2>1 DEF ModelRun, DesiredStatus
  <2> QED
    BY <2>1, <2>2
<1>2. told' \in [Runs -> RunnerStatus \cup {NONE}]
  BY DEF StopRun, Tell, Inv, TypeOK, RunnerStatus
<1>3. op' \in Op
  <2>1. "stop" \in Points /\ r \in 0..MaxRuns
    BY DEF Points, Runs
  <2> QED
    BY <2>1 DEF StopRun, Op
<1>4. OnlyForward
  BY DEF StopRun, OnlyForward, Inv, TypeOK, ModelRun
<1>5. ActiveRunsTracked'
  BY DEF StopRun, Inv, TypeOK, ActiveRunsTracked, LoadActive, ModelRun, InRunPhase
<1>6. CallInv'
  <2>1. op'.ret \in ReturnPoints /\ op'.pc \notin {"is_built", "build", "run", "launched", "halt"}
    BY DEF StopRun, ReturnPoints, ErrorPoints, Op
  <2>2. op'.pc = "stop" => op'.cur \in Runs
    BY DEF StopRun, ErrorPoints, Op
  <2>3. Phase' = next.pc
    BY DEF StopRun, Phase, ErrorPoints, Op
  <2>4. CASE next.pc \in ErrorPoints
    BY <2>1, <2>2, <2>3, <2>4 DEF CallInv, ErrorPoints
  <2>5. CASE next.pc = "replace" /\ op.pc = "replace" /\ next.seen = op.seen
    <3>1. op'.seen = op.seen
      BY <2>5 DEF StopRun, Op
    <3>2. Processing' = Processing
      BY <3>1 DEF Processing
    <3>3. ASSUME NEW s \in Processing
          PROVE  /\ op.seen[s].status \in RunnerStatus
                 /\ s \in cluster /\ InRunPhase(row[s])
      BY <2>5 DEF Inv, CallInv, Phase
    <3>4. \A s \in Processing : s \in cluster' /\ InRunPhase(row'[s])
      BY <3>3 DEF StopRun, InRunPhase, Processing, Inv, TypeOK, ModelRun
    <3> QED
      BY <2>1, <2>2, <2>3, <2>5, <3>1, <3>2, <3>3, <3>4 DEF CallInv
  <2> QED
    BY <2>4, <2>5
<1> QED
  BY <1>1, <1>2, <1>3, <1>4, <1>5, <1>6 DEF Forward

(* run_model, for a run that is tracked.                                   *)
LEMMA RunModelKeeps ==
    ASSUME Inv, NEW r \in cluster, NEW run \in ModelRun,
           run.model = row[r].model, run.desired = row[r].desired,
           NEW next \in Op,
           \/ next.pc = "idle"
           \/ /\ next.pc = "builders" /\ op.pc = "builders"
              /\ \A s \in Runs : next.seen[s] \in {op.seen[s], Unseen[s]},
           cluster' = cluster,
           RunModel(r, run, next)
    PROVE  Forward
<1> USE ModelRunsAssumption
<1>0. r \in Runs
  BY DEF Inv, TypeOK
<1>1. row' \in [Runs -> ModelRun]
  BY <1>0 DEF RunModel, Inv, TypeOK, ModelRun, RunnerStatus
<1>2. op' \in Op
  <2>1. "run" \in Points /\ r \in 0..MaxRuns
    BY <1>0 DEF Points, Runs
  <2> QED
    BY <2>1 DEF RunModel, Op
<1>3. OnlyForward
  BY <1>0 DEF RunModel, OnlyForward, Inv, TypeOK, ModelRun
<1>4. ActiveRunsTracked'
  BY <1>0 DEF RunModel, Inv, TypeOK, ActiveRunsTracked, LoadActive, ModelRun
<1>5. CallInv'
  <2>1. op'.pc = "run" /\ op'.ret = next.pc /\ op'.cur = r /\ op'.seen = next.seen
    BY DEF RunModel, Op
  <2>2. Phase' = next.pc
    BY <2>1 DEF Phase
  <2>3. CASE next.pc = "idle"
    BY <1>0, <2>1, <2>2, <2>3 DEF CallInv, ReturnPoints, ErrorPoints
  <2>4. CASE /\ next.pc = "builders" /\ op.pc = "builders"
             /\ \A s \in Runs : next.seen[s] \in {op.seen[s], Unseen[s]}
    <3>1. \A s \in Processing : op.seen[s].status \in BuilderStatus /\ s \in cluster
      BY <2>4 DEF Inv, CallInv, Phase
    <3>2. \A s \in Processing' : s \in Processing /\ op'.seen[s] = op.seen[s]
      BY <2>1, <2>4 DEF Processing, Unseen
    <3> QED
      BY <1>0, <2>1, <2>2, <2>4, <3>1, <3>2 DEF CallInv, ReturnPoints, ErrorPoints
  <2> QED
    BY <2>3, <2>4
<1> QED
  BY <1>1, <1>2, <1>3, <1>4, <1>5 DEF Forward

(* The step that ends a call to the Runner comes back to its loop.         *)
LEMMA BackKeeps ==
    ASSUME Inv, op.pc \in {"run", "launched", "halt", "stop"},
           NEW errors \in Seq(Error), op' = [Back EXCEPT !.errors = errors], cluster' = cluster,
           \A r \in Runs : InRunPhase(row[r]) => InRunPhase(row'[r])
    PROVE  op' \in Op /\ CallInv'
<1> USE ModelRunsAssumption
<1>1. op \in Op /\ op.ret \in ReturnPoints
  BY DEF Inv, TypeOK, CallInv
<1>2. /\ op' = [op EXCEPT !.pc = op.ret, !.cur = 0, !.ret = "idle", !.errors = errors]
      /\ "idle" \in Points /\ 0 \in 0..MaxRuns
  BY <1>1 DEF Back, Op, Points
<1>3. op' \in Op
  BY <1>1, <1>2 DEF Op
<1>4. op'.pc = op.ret /\ op'.ret = "idle" /\ op'.seen = op.seen
  BY <1>1, <1>2 DEF Op
<1>5. Phase' = Phase
  BY <1>1, <1>4 DEF Phase, ReturnPoints, ErrorPoints
<1>6. Processing' = Processing
  BY <1>4 DEF Processing
<1>7. CallInv
  BY DEF Inv
<1>8. op'.ret \in ReturnPoints /\ op'.pc \notin {"is_built", "build", "run", "launched", "halt", "stop"}
  BY <1>1, <1>4 DEF ReturnPoints, ErrorPoints
<1>9. Processing \subseteq Runs
  BY DEF Processing
<1> QED
  BY <1>3, <1>4, <1>5, <1>6, <1>7, <1>8, <1>9 DEF CallInv

(* The value op takes when a call returns.                                 *)
LEMMA NoOpType == NoOp \in Op /\ NoOp.pc \in ErrorPoints /\ NoOp.ret \in ReturnPoints
<1> USE ModelRunsAssumption
<1>1. NoOp \in Op
  BY DEF NoOp, Op, Points, Unseen, Runs
<1> QED
  BY <1>1 DEF NoOp, ErrorPoints, ReturnPoints

(* A call that has returned leaves nothing to be applied.                  *)
LEMMA NoOpKeeps ==
    ASSUME op' = NoOp
    PROVE  op' \in Op /\ CallInv'
<1>1. NoOp \in Op
  BY NoOpType
<1>2. CallInv'
  BY DEF CallInv, NoOp, Phase, ReturnPoints, ErrorPoints
<1> QED
  BY <1>1, <1>2

(* The variables the fragments say nothing of.                             *)
OthersOK ==
    /\ nruns \in 0..MaxRuns
    /\ reports \in Seq(Report)
    /\ cloud \in [Runs -> [task : RunnerStatus \cup {NONE}, addr : 1..MaxAddr,
                           image : BuilderStatus \cup {NONE}]]
    /\ told \in [Runs -> RunnerStatus \cup {NONE}]
    /\ crashes \in 0..MaxCrashes

(* A step that changes op and the runs, but only lets runs go, keeps the   *)
(* invariant as soon as the variables it leaves alone keep their types.    *)
LEMMA ForwardKeepsInv ==
    ASSUME Inv, Forward, OthersOK'
    PROVE  Inv'
<1>1. OneWantedRun'
  BY OnlyForwardKeepsOneWanted DEF Inv, Forward
<1>2. TypeOK'
  BY DEF Inv, Forward, OnlyForward, OthersOK, TypeOK
<1> QED
  BY <1>1, <1>2 DEF Inv, Forward

(* A step that leaves the runs and the cluster alone.                      *)
LEMMA SameRowsForward ==
    ASSUME Inv, row' = row, cluster' \subseteq cluster, LoadActive \subseteq cluster',
           op' \in Op, CallInv'
    PROVE  Forward
<1>1. OnlyForward
  BY DEF OnlyForward
<1>2. ActiveRunsTracked'
  BY DEF ActiveRunsTracked, LoadActive
<1> QED
  BY <1>1, <1>2 DEF Forward, Inv, TypeOK

-----------------------------------------------------------------------------
(* start_model.                                                            *)

(* start_model creates the only kind of run that is wanted, after the run  *)
(* it replaces has become REPLACING.                                       *)
LEMMA StartModelKeeps ==
    ASSUME Inv, NEW m \in Models, NEW c \in Configs, StartModel(m, c)
    PROVE  Inv'
<1> USE ModelRunsAssumption
<1> DEFINE new  == nruns + 1
           rows == [r \in Runs |-> IF r \in Replaced(m)
                                   THEN [row[r] EXCEPT !.desired = "REPLACING"]
                                   ELSE row[r]]
           first == NewRun(m, c)
           refused == [first EXCEPT !.failure = "IN_QUARANTINE", !.runner = "FAILED"]
<1>1. new \in Runs /\ new \in 0..MaxRuns
  BY DEF StartModel, Inv, TypeOK, Runs
<1>2. rows \in [Runs -> ModelRun]
  <2>1. ASSUME NEW r \in Runs
        PROVE  row[r] \in ModelRun /\ [row[r] EXCEPT !.desired = "REPLACING"] \in ModelRun
    <3>1. row[r] \in ModelRun
      BY DEF Inv, TypeOK
    <3> QED
      BY <3>1 DEF ModelRun, DesiredStatus
  <2> QED
    BY <2>1
<1>3. first \in ModelRun /\ refused \in ModelRun
  <2>1. Blank \in ModelRun
    BY DEF Blank, ModelRun, DesiredStatus
  <2>2. first \in ModelRun
    BY <2>1 DEF NewRun, ModelRun, DesiredStatus
  <2>3. refused \in ModelRun
    BY <2>2 DEF ModelRun, RunnerStatus, ErrorType, OrchestratorErrorType
  <2> QED
    BY <2>2, <2>3
<1>4. /\ first.model = m /\ first.desired = "RUNNING" /\ first.runner = NONE
      /\ refused.model = m /\ refused.desired = "RUNNING" /\ refused.runner = "FAILED"
  BY DEF NewRun, Blank
<1>5. \A r \in Runs : /\ rows[r].model = row[r].model /\ rows[r].runner = row[r].runner
                      /\ rows[r].desired = "RUNNING" => row[r].desired = "RUNNING"
  BY DEF Inv, TypeOK, ModelRun
(* The run that is replaced was the only wanted one.                       *)
<1>6. ASSUME NEW s \in cluster, rows[s].model = m, rows[s].desired = "RUNNING"
      PROVE  FALSE
  <2>1. s \in Runs
    BY DEF Inv, TypeOK
  <2>2. row[s].model = m /\ row[s].desired = "RUNNING"
    BY <1>5, <1>6, <2>1
  <2>3. ModelsByIdAndDesired(m, {"RUNNING"}) = {s}
    BY <2>2 DEF ModelsByIdAndDesired, Inv, OneWantedRun, SameModel
  <2>4. Oldest({s}) = s
    BY <2>1, OldestIsMember
  <2>5. s \in Replaced(m)
    BY <2>3, <2>4, Zenon DEF Replaced
  <2> QED
    BY <1>6, <2>1, <2>5 DEF Inv, TypeOK, ModelRun
<1> HIDE DEF new, rows, first, refused
<1>7. CASE /\ IsModelInQuarantine(m, c)
           /\ row' = [rows EXCEPT ![new] = refused]
           /\ cluster' = cluster /\ op' = op
  <2>1. row' \in [Runs -> ModelRun]
    BY <1>2, <1>3, <1>7
  <2>2. CallInv'
    BY <1>7 DEF StartModel, Inv, CallInv, Phase
  <2>3. ActiveRunsTracked'
    BY <1>1, <1>2, <1>4, <1>5, <1>7 DEF Inv, ActiveRunsTracked, LoadActive
  <2>4. ASSUME NEW r \in cluster, NEW s \in cluster, row'[r].model = row'[s].model,
               row'[r].desired = "RUNNING", row'[s].desired = "RUNNING", r # s
        PROVE  FALSE
    <3>1. r \in Runs /\ s \in Runs
      BY DEF Inv, TypeOK
    <3>2. CASE r # new /\ s # new
      BY <1>2, <1>5, <1>7, <2>4, <3>1, <3>2 DEF Inv, OneWantedRun, SameModel
    <3>3. CASE r = new
      BY <1>1, <1>2, <1>4, <1>6, <1>7, <2>4, <3>1, <3>3
    <3>4. CASE s = new
      BY <1>1, <1>2, <1>4, <1>6, <1>7, <2>4, <3>1, <3>4
    <3> QED
      BY <3>2, <3>3, <3>4
  <2>5. OneWantedRun'
    BY <1>7, <2>4 DEF OneWantedRun, SameModel
  <2>6. TypeOK'
    BY <1>1, <1>7, <2>1 DEF StartModel, Inv, TypeOK, new
  <2> QED
    BY <2>2, <2>3, <2>5, <2>6 DEF Inv
<1>8. CASE /\ row' = [rows EXCEPT ![new] = first]
           /\ cluster' = cluster \cup {new}
           /\ op' = [NoOp EXCEPT !.pc = "is_built", !.cur = new]
  <2>1. row' \in [Runs -> ModelRun]
    BY <1>2, <1>3, <1>8
  <2>2. op' \in Op
    <3>1. NoOp \in Op
      BY DEF NoOp, Op, Points, Unseen, Runs
    <3> QED
      BY <1>1, <1>8, <3>1 DEF Op, Points
  <2>3. CallInv'
    BY <1>1, <1>8 DEF CallInv, Phase, NoOp, ReturnPoints, ErrorPoints
  <2>4. ActiveRunsTracked'
    BY <1>1, <1>2, <1>4, <1>5, <1>8 DEF Inv, ActiveRunsTracked, LoadActive
  <2>5. ASSUME NEW r \in cluster', NEW s \in cluster', row'[r].model = row'[s].model,
               row'[r].desired = "RUNNING", row'[s].desired = "RUNNING", r # s
        PROVE  FALSE
    <3>1. r \in Runs /\ s \in Runs
      BY <1>1, <1>8 DEF Inv, TypeOK
    <3>2. CASE r # new /\ s # new
      BY <1>2, <1>5, <1>8, <2>5, <3>1, <3>2 DEF Inv, OneWantedRun, SameModel
    <3>3. CASE r = new
      BY <1>1, <1>2, <1>4, <1>6, <1>8, <2>5, <3>1, <3>3
    <3>4. CASE s = new
      BY <1>1, <1>2, <1>4, <1>6, <1>8, <2>5, <3>1, <3>4
    <3> QED
      BY <3>2, <3>3, <3>4
  <2>6. OneWantedRun'
    BY <2>5 DEF OneWantedRun, SameModel
  <2>7. TypeOK'
    BY <1>1, <1>8, <2>1, <2>2 DEF StartModel, Inv, TypeOK, new
  <2> QED
    BY <2>3, <2>4, <2>6, <2>7 DEF Inv
<1> QED
  BY <1>7, <1>8 DEF StartModel, new, rows, first, refused

-----------------------------------------------------------------------------
(* The steps of the calls.  They all only let runs go.                     *)

(* start_model, once the Builder has said whether the image exists.        *)
LEMMA IsBuiltKeeps ==
    ASSUME Inv, IsBuilt
    PROVE  Inv'
<1> USE ModelRunsAssumption
<1>1. op.cur \in cluster /\ op.cur \in Runs /\ op \in Op /\ row[op.cur] \in ModelRun
  BY DEF IsBuilt, Inv, CallInv, TypeOK
<1>2. CASE RunModel(op.cur, row[op.cur], At(op, "idle"))
  <2>1. At(op, "idle") \in Op /\ At(op, "idle").pc = "idle"
    BY <1>1 DEF At, Op, Points
  <2>2. cluster' = cluster
    BY DEF IsBuilt
  <2>3. Forward
    BY <1>1, <1>2, <2>1, <2>2, RunModelKeeps
  <2> QED
    BY <2>3, ForwardKeepsInv DEF IsBuilt, OthersOK, Inv, TypeOK
<1>3. CASE /\ row' = [row EXCEPT ![op.cur].builder = "BUILDING"]
           /\ op' = At(op, "build")
  <2>1. [row[op.cur] EXCEPT !.builder = "BUILDING"] \in ModelRun
    BY <1>1 DEF ModelRun, BuilderStatus
  <2>2. row' \in [Runs -> ModelRun] /\ OnlyForward
    BY <1>1, <1>3, <2>1 DEF IsBuilt, Inv, TypeOK, OnlyForward, ModelRun
  <2>3. op' \in Op
    BY <1>1, <1>3 DEF At, Op, Points
  <2>4. op'.pc = "build" /\ op'.ret = op.ret /\ op'.cur = op.cur /\ op'.seen = op.seen
    BY <1>1, <1>3 DEF At, Op
  <2>5. CallInv'
    <3>1. Phase' = Phase /\ Processing' = Processing
      BY <2>4 DEF IsBuilt, Phase, Processing
    <3>2. CallInv /\ cluster' = cluster /\ Processing \subseteq Runs
      BY DEF IsBuilt, Inv, Processing
    <3>3. \A r \in Runs : InRunPhase(row[r]) => InRunPhase(row'[r])
      BY <1>1, <1>3 DEF InRunPhase, Inv, TypeOK, ModelRun
    <3> QED
      BY <1>1, <2>4, <3>1, <3>2, <3>3 DEF CallInv
  <2>6. ActiveRunsTracked'
    BY <1>1, <1>3 DEF IsBuilt, Inv, TypeOK, ActiveRunsTracked, LoadActive, ModelRun
  <2>7. Forward
    BY <2>2, <2>3, <2>5, <2>6 DEF Forward
  <2> QED
    BY <2>7, ForwardKeepsInv DEF IsBuilt, OthersOK, Inv, TypeOK
<1> QED
  BY <1>2, <1>3 DEF IsBuilt

(* start_model, when Builder.build returns.                                *)
LEMMA BuildKeeps ==
    ASSUME Inv, Build
    PROVE  Inv'
<1>1. op.cur \in Runs
  BY DEF Build, Inv, CallInv
<1>2. Forward
  BY NoOpKeeps, SameRowsForward DEF Build, Inv, ActiveRunsTracked
<1>3. cloud' \in [Runs -> [task : RunnerStatus \cup {NONE}, addr : 1..MaxAddr,
                           image : BuilderStatus \cup {NONE}]]
  BY <1>1 DEF Build, Inv, TypeOK, BuilderStatus
<1> QED
  BY <1>2, <1>3, ForwardKeepsInv DEF Build, OthersOK, Inv, TypeOK

(* start_model, when Builder.build raises: the run is settled at once.     *)
LEMMA BuildRaisesKeeps ==
    ASSUME Inv, BuildRaises
    PROVE  Inv'
<1>1. op.cur \in Runs /\ "BUILD_EXCEPTION" \in ErrorType
  BY DEF BuildRaises, Inv, CallInv, ErrorType, CloudProviderErrorType
<1>2. NoOp \in Op /\ NoOp.pc \in ErrorPoints /\ NoOp.ret \in ReturnPoints
  BY NoOpType
<1>3. Forward
  BY <1>1, <1>2, HandleErrorKeeps DEF BuildRaises
<1> QED
  BY <1>3, ForwardKeepsInv DEF BuildRaises, OthersOK, Inv, TypeOK

(* run_model, while Runner.run creates the job.                            *)
LEMMA RunKeeps ==
    ASSUME Inv, Run
    PROVE  Inv'
<1>1. op.cur \in Runs /\ op \in Op
  BY DEF Run, Inv, CallInv, TypeOK
<1>2. op' \in Op
  BY <1>1 DEF Run, At, Op, Points
<1>3. CallInv'
  <2>1. op'.pc = "launched" /\ op'.ret = op.ret /\ op'.cur = op.cur /\ op'.seen = op.seen
    BY <1>1 DEF Run, At, Op
  <2>2. Phase' = Phase /\ Processing' = Processing
    BY <2>1 DEF Run, Phase, Processing
  <2>3. CallInv /\ cluster' = cluster /\ row' = row
    BY DEF Run, Inv
  <2> QED
    BY <1>1, <2>1, <2>2, <2>3 DEF CallInv
<1>4. Forward
  BY <1>2, <1>3, SameRowsForward DEF Run, Inv, ActiveRunsTracked
<1>5. cloud' \in [Runs -> [task : RunnerStatus \cup {NONE}, addr : 1..MaxAddr,
                           image : BuilderStatus \cup {NONE}]]
  BY <1>1 DEF Run, Inv, TypeOK, RunnerStatus
<1> QED
  BY <1>4, <1>5, ForwardKeepsInv DEF Run, OthersOK, Inv, TypeOK

(* run_model, when Runner.run returns: only the job id and the observers   *)
(* change.                                                                 *)
LEMMA LaunchedKeeps ==
    ASSUME Inv, Launched
    PROVE  Inv'
<1>1. op.cur \in Runs /\ row \in [Runs -> ModelRun]
  BY DEF Launched, Inv, CallInv, TypeOK
<1>2. row' = [row EXCEPT ![op.cur].job = TRUE] /\ cluster' = cluster
  BY DEF Launched
<1>3. [row[op.cur] EXCEPT !.job = TRUE] \in ModelRun
  <2>1. ASSUME NEW run \in ModelRun
        PROVE  [run EXCEPT !.job = TRUE] \in ModelRun
    BY DEF ModelRun
  <2> QED
    BY <1>1, <2>1
<1>4. row' \in [Runs -> ModelRun] /\ OnlyForward
  BY <1>1, <1>2, <1>3 DEF OnlyForward, ModelRun
<1>5. \A r \in Runs : row'[r].runner = row[r].runner
  BY <1>1, <1>2 DEF ModelRun
<1>6. op' \in Op /\ CallInv'
  <2>1. op' = [Back EXCEPT !.errors = op.errors] /\ op.errors \in Seq(Error)
    BY DEF Launched, Back, Inv, TypeOK, Op
  <2> QED
    BY <1>2, <1>5, <2>1, BackKeeps DEF Launched, InRunPhase
<1>7. ActiveRunsTracked'
  BY <1>2, <1>5 DEF Inv, ActiveRunsTracked, LoadActive
<1>8. Forward
  BY <1>4, <1>6, <1>7 DEF Forward
<1>9. told' \in [Runs -> RunnerStatus \cup {NONE}]
  BY <1>1 DEF Launched, Tell, Inv, TypeOK, RunnerStatus
<1> QED
  BY <1>8, <1>9, ForwardKeepsInv DEF Launched, OthersOK, Inv, TypeOK

(* run_model, when Runner.run raises: handled for start_model, escaping the*)
(* update loop otherwise.                                                  *)
LEMMA RunRaisesKeeps ==
    ASSUME Inv, RunRaises
    PROVE  Inv'
<1>1. op.cur \in Runs /\ "RUN_EXCEPTION" \in ErrorType
  BY DEF RunRaises, Inv, CallInv, ErrorType, CloudProviderErrorType
<1>2. NoOp \in Op /\ NoOp.pc \in ErrorPoints /\ NoOp.ret \in ReturnPoints
  BY NoOpType
<1>3. CASE op.ret = "idle"
  <2>1. Forward
    BY <1>1, <1>2, <1>3, HandleErrorKeeps DEF RunRaises
  <2> QED
    BY <1>1, <2>1, ForwardKeepsInv DEF RunRaises, OthersOK, Inv, TypeOK
<1>4. CASE op.ret # "idle"
  <2>1. Forward
    BY <1>4, NoOpKeeps, SameRowsForward DEF RunRaises, Inv, ActiveRunsTracked
  <2> QED
    BY <1>1, <2>1, ForwardKeepsInv DEF RunRaises, OthersOK, Inv, TypeOK
<1> QED
  BY <1>3, <1>4

(* stop_model picks a tracked run and asks it to stop.                     *)
LEMMA StopModelKeeps ==
    ASSUME Inv, NEW m \in Models, StopModel(m)
    PROVE  Inv'
<1> DEFINE active == ModelsByIdAndDesired(m, {"RUNNING", "REPLACING"})
<1>1. active \in SUBSET Runs /\ active # {}
  BY DEF StopModel, ModelsByIdAndDesired, Inv, TypeOK
<1>2. Oldest(active) \in Runs
  BY <1>1, OldestIsMember
<1>3. StopRun(Oldest(active), NoOp)
  BY DEF StopModel
<1>4. Forward /\ told' \in [Runs -> RunnerStatus \cup {NONE}]
  BY <1>2, <1>3, NoOpType, StopRunKeeps
<1> QED
  BY <1>4, ForwardKeepsInv DEF StopModel, OthersOK, Inv, TypeOK

(* handle_error stops the active run whose failure it has just saved.      *)
LEMMA HaltKeeps ==
    ASSUME Inv, Halt
    PROVE  Inv'
<1> USE ModelRunsAssumption
<1>1. op.cur \in Runs /\ op \in Op /\ op.ret \in ErrorPoints
  BY DEF Halt, Inv, CallInv, TypeOK
<1>2. "idle" \in Points /\ "idle" \in ReturnPoints /\ 0 \in 0..MaxRuns
  BY DEF Points, ReturnPoints, ErrorPoints
<1>3. Back \in Op /\ Back.pc \in ErrorPoints /\ Back.ret \in ReturnPoints
  BY <1>1, <1>2 DEF Back, Op
<1>4. Forward /\ told' \in [Runs -> RunnerStatus \cup {NONE}]
  BY <1>1, <1>3, StopRunKeeps DEF Halt
<1> QED
  BY <1>4, ForwardKeepsInv DEF Halt, OthersOK, Inv, TypeOK

(* stop_model, when Runner.stop returns.                                   *)
LEMMA StopKeeps ==
    ASSUME Inv, Stop
    PROVE  Inv'
<1>1. op.cur \in Runs
  BY DEF Stop, Inv, CallInv
<1>2. op' \in Op /\ CallInv'
  <2>1. op' = [Back EXCEPT !.errors = op.errors] /\ op.errors \in Seq(Error)
    BY DEF Stop, Back, Inv, TypeOK, Op
  <2> QED
    BY <2>1, BackKeeps DEF Stop
<1>3. Forward
  BY <1>2, SameRowsForward DEF Stop, Inv, ActiveRunsTracked
<1>4. cloud' \in [Runs -> [task : RunnerStatus \cup {NONE}, addr : 1..MaxAddr,
                           image : BuilderStatus \cup {NONE}]]
  <2>1. cloud \in [Runs -> [task : RunnerStatus \cup {NONE}, addr : 1..MaxAddr,
                            image : BuilderStatus \cup {NONE}]]
    BY DEF Inv, TypeOK
  <2>2. \E t \in RunnerStatus \cup {NONE} : cloud' = [cloud EXCEPT ![op.cur].task = t]
    BY <1>1, <2>1 DEF Stop, RunnerStatus
  <2> QED
    BY <1>1, <2>1, <2>2
<1> QED
  BY <1>3, <1>4, ForwardKeepsInv DEF Stop, OthersOK, Inv, TypeOK

(* stop_model, when Runner.stop raises, for each of its three callers.     *)
LEMMA StopRaisesKeeps ==
    ASSUME Inv, StopRaises
    PROVE  Inv'
<1>1. op.cur \in Runs /\ "RUN_EXCEPTION" \in ErrorType /\ op \in Op
  BY DEF StopRaises, Inv, CallInv, TypeOK, ErrorType, CloudProviderErrorType
<1>2. CASE op.ret = "idle" /\ HandleError(op.cur, "RUN_EXCEPTION", NoOp)
  <2>1. Forward
    BY <1>1, <1>2, NoOpType, HandleErrorKeeps
  <2> QED
    BY <2>1, ForwardKeepsInv DEF StopRaises, OthersOK, Inv, TypeOK
<1>3. CASE /\ op' = Raise(Back, op.cur, "RUN_EXCEPTION")
           /\ UNCHANGED <<row, cluster>>
  <2> DEFINE error == [run |-> op.cur, code |-> "RUN_EXCEPTION"]
  <2>1. error \in Error /\ op.errors \in Seq(Error)
    BY <1>1 DEF Error, Op
  <2>2. Append(op.errors, error) \in Seq(Error)
    BY <2>1
  <2>3. op' = [Back EXCEPT !.errors = Append(op.errors, error)]
    BY <1>1, <1>3 DEF Raise, Back, Op
  <2>4. op' \in Op /\ CallInv'
    BY <1>3, <2>2, <2>3, BackKeeps DEF StopRaises
  <2>5. Forward
    BY <1>3, <2>4, SameRowsForward DEF Inv, ActiveRunsTracked
  <2> QED
    BY <2>5, ForwardKeepsInv DEF StopRaises, OthersOK, Inv, TypeOK
<1>4. CASE op' = NoOp /\ UNCHANGED <<row, cluster>>
  <2>1. Forward
    BY <1>4, NoOpKeeps, SameRowsForward DEF Inv, ActiveRunsTracked
  <2> QED
    BY <2>1, ForwardKeepsInv DEF StopRaises, OthersOK, Inv, TypeOK
<1> QED
  BY <1>2, <1>3, <1>4 DEF StopRaises

(* updates_states takes the reports over.                                  *)
LEMMA UpdatesStatesKeeps ==
    ASSUME Inv, UpdatesStates
    PROVE  Inv'
<1>1. reports \in Seq(Report) /\ op' = [NoOp EXCEPT !.pc = "reports", !.pending = reports]
  BY DEF UpdatesStates, Inv, TypeOK
<1>2. op' \in Op
  BY <1>1, NoOpType DEF Op, Points
<1>3. CallInv'
  BY <1>1 DEF CallInv, NoOp, Phase, ReturnPoints, ErrorPoints
<1>4. Forward
  BY <1>2, <1>3, SameRowsForward DEF UpdatesStates, Inv, ActiveRunsTracked
<1> QED
  BY <1>4, ForwardKeepsInv DEF UpdatesStates, OthersOK, Inv, TypeOK

(* The cluster has runs.                                                   *)
LEMMA TrackedAreRuns ==
    ASSUME Inv
    PROVE  cluster \subseteq Runs
BY DEF Inv, TypeOK

(* A reported failure is handled, or makes updates_states return.          *)
LEMMA HandleReportKeeps ==
    ASSUME Inv, HandleReport
    PROVE  Inv'
<1> DEFINE rep  == Head(op.pending)
           next == [op EXCEPT !.pending = Tail(@)]
<1>1. op \in Op /\ op.ret \in ReturnPoints /\ op.pc = "reports"
  BY DEF HandleReport, Inv, TypeOK, CallInv
<1>2. rep \in Report /\ Tail(op.pending) \in Seq(Report)
  BY <1>1 DEF HandleReport, Op
<1>3. next \in Op /\ next.pc = "reports" /\ next.ret = op.ret
  BY <1>1, <1>2 DEF Op
<1>4. rep.code \in ErrorType
  BY <1>2 DEF Report, ErrorType
<1>5. CASE \E r \in HeldFailed(rep) : HandleError(r, rep.code, next)
  <2>1. PICK r \in cluster : HandleError(r, rep.code, next)
    BY <1>5 DEF HeldFailed
  <2>2. r \in Runs
    BY TrackedAreRuns
  <2> HIDE DEF rep, next
  <2>3. Forward
    BY <1>1, <1>3, <1>4, <2>1, <2>2, HandleErrorKeeps DEF ErrorPoints
  <2> QED
    BY <2>3, ForwardKeepsInv DEF HandleReport, OthersOK, Inv, TypeOK
<1>6. CASE op' = NoOp /\ UNCHANGED <<row, cluster>>
  <2>1. Forward
    BY <1>6, NoOpKeeps, SameRowsForward DEF Inv, ActiveRunsTracked
  <2> QED
    BY <2>1, ForwardKeepsInv DEF HandleReport, OthersOK, Inv, TypeOK
<1> QED
  BY <1>5, <1>6 DEF HandleReport

(* The observers are only told statuses.                                   *)
LEMMA TellRunningType ==
    ASSUME Inv, NEW renamed, TellRunning(renamed)
    PROVE  told' \in [Runs -> RunnerStatus \cup {NONE}]
BY DEF TellRunning, Inv, TypeOK, RunnerStatus

(* update_models_info only tells the observers.                            *)
LEMMA UpdateModelsInfoKeeps ==
    ASSUME Inv, UpdateModelsInfo
    PROVE  Inv'
<1>1. op \in Op /\ op.pc = "reports" /\ op' = At(op, "load")
  BY DEF UpdateModelsInfo, Inv, TypeOK
<1>2. op' \in Op /\ op'.pc = "load" /\ op'.ret = op.ret
  BY <1>1 DEF At, Op, Points
<1>3. CallInv'
  BY <1>2 DEF Inv, CallInv, Phase
<1>4. Forward
  BY <1>2, <1>3, SameRowsForward DEF UpdateModelsInfo, Inv, ActiveRunsTracked
<1>5. told' \in [Runs -> RunnerStatus \cup {NONE}]
  BY TellRunningType DEF UpdateModelsInfo
<1> QED
  BY <1>4, <1>5, ForwardKeepsInv DEF UpdateModelsInfo, OthersOK, Inv, TypeOK

(* A step that leaves the call alone as well.                              *)
LEMMA SameCallForward ==
    ASSUME Inv, UNCHANGED <<row, cluster, op>>
    PROVE  Forward
<1>1. CallInv' /\ op' \in Op
  BY DEF Inv, TypeOK, CallInv, Phase, Processing
<1> QED
  BY <1>1, SameRowsForward DEF Inv, ActiveRunsTracked

(* get_all_models only tells the observers.                                *)
LEMMA GetAllModelsKeeps ==
    ASSUME Inv, GetAllModels
    PROVE  Inv'
<1>1. Forward
  BY SameCallForward DEF GetAllModels
<1>2. told' \in [Runs -> RunnerStatus \cup {NONE}]
  BY TellRunningType DEF GetAllModels
<1> QED
  BY <1>1, <1>2, ForwardKeepsInv DEF GetAllModels, OthersOK, Inv, TypeOK

(* The statuses loaded from the Runner are those of tracked runs in their  *)
(* run phase.                                                              *)
LEMMA LoadRunnerStatesKeeps ==
    ASSUME Inv, LoadRunnerStates
    PROVE  Inv'
<1> USE ModelRunsAssumption
<1> DEFINE lost == {r \in ModelsInRunPhase : JobUnknown(r)}
           seen == [r \in Runs |->
                      IF r \in ModelsInRunPhase /\ ~JobUnknown(r) /\ News(r)
                      THEN Loaded(r) ELSE Unseen[r]]
           Status == [status : RunnerStatus \cup BuilderStatus \cup {NONE}, ip : 0..MaxAddr]
<1>1. op \in Op /\ op' = [op EXCEPT !.pc = "runners", !.lost = lost, !.seen = seen]
  BY DEF LoadRunnerStates, Inv, TypeOK
<1>2. lost \in SUBSET Runs /\ "runners" \in Points
  BY DEF ModelsInRunPhase, Inv, TypeOK, Points
<1>3. \A r \in Runs : Loaded(r) \in Status /\ Unseen[r] \in Status
                      /\ Loaded(r).status \in RunnerStatus \cup {NONE} /\ Unseen[r].status = NONE
  BY DEF Loaded, Unseen, Inv, TypeOK
<1>4. seen \in [Runs -> Status]
  BY <1>3
<1>5. \A r \in Runs : seen[r].status # NONE =>
                      /\ seen[r].status \in RunnerStatus
                      /\ r \in cluster /\ InRunPhase(row[r])
  BY <1>3 DEF ModelsInRunPhase
<1> HIDE DEF lost, seen
<1>6. op' \in Op
  BY <1>1, <1>2, <1>4 DEF Op
<1>7. op'.pc = "runners" /\ op'.ret = op.ret /\ op'.seen = seen
  BY <1>1 DEF Op
<1>8. CallInv'
  BY <1>5, <1>7 DEF LoadRunnerStates, Inv, CallInv, Phase, Processing
<1>9. Forward
  BY <1>6, <1>8, SameRowsForward DEF LoadRunnerStates, Inv, ActiveRunsTracked
<1> QED
  BY <1>9, ForwardKeepsInv DEF LoadRunnerStates, OthersOK, Inv, TypeOK

(* When load_statuses raises nothing is left to be applied.                *)
LEMMA LoadRunnerStatesRaisesKeeps ==
    ASSUME Inv, LoadRunnerStatesRaises
    PROVE  Inv'
<1> USE ModelRunsAssumption
<1> DEFINE lost == {r \in ModelsInRunPhase : JobUnknown(r)}
<1>1. op \in Op /\ op' = [op EXCEPT !.pc = "runners", !.lost = lost, !.seen = Unseen]
  BY DEF LoadRunnerStatesRaises, Inv, TypeOK
<1>2. lost \in SUBSET Runs /\ "runners" \in Points
  BY DEF ModelsInRunPhase, Inv, TypeOK, Points
<1>3. Unseen \in [Runs -> [status : RunnerStatus \cup BuilderStatus \cup {NONE}, ip : 0..MaxAddr]]
  BY DEF Unseen
<1> HIDE DEF lost
<1>4. op' \in Op
  BY <1>1, <1>2, <1>3 DEF Op
<1>5. op'.pc = "runners" /\ op'.ret = op.ret /\ op'.seen = Unseen
  BY <1>1 DEF Op
<1>6. Processing' = {}
  BY <1>5 DEF Processing, Unseen
<1>7. CallInv'
  BY <1>5, <1>6 DEF LoadRunnerStatesRaises, Inv, CallInv, Phase
<1>8. Forward
  BY <1>4, <1>7, SameRowsForward DEF LoadRunnerStatesRaises, Inv, ActiveRunsTracked
<1> QED
  BY <1>8, ForwardKeepsInv DEF LoadRunnerStatesRaises, OthersOK, Inv, TypeOK

(* Collecting an error leaves a call.                                      *)
LEMMA RaiseType ==
    ASSUME NEW o \in Op, NEW r \in Runs, NEW code \in ErrorType
    PROVE  /\ Raise(o, r, code) \in Op
           /\ Raise(o, r, code).pc = o.pc /\ Raise(o, r, code).ret = o.ret
           /\ Raise(o, r, code).cur = o.cur /\ Raise(o, r, code).seen = o.seen
<1> DEFINE error == [run |-> r, code |-> code]
<1>1. error \in Error /\ o.errors \in Seq(Error)
  BY DEF Error, Op
<1>2. Append(o.errors, error) \in Seq(Error)
  BY <1>1
<1>3. Raise(o, r, code) = [o EXCEPT !.errors = Append(o.errors, error)]
  BY DEF Raise, Op
<1> HIDE DEF error
<1> QED
  BY <1>2, <1>3 DEF Op

(* Whatever a status leads to, the call stays in the loop over statuses.   *)
LEMMA AfterStatusType ==
    ASSUME TypeOK, NEW r \in Runs, NEW status, NEW next \in Op
    PROVE  /\ AfterStatus(r, status, next) \in Op
           /\ AfterStatus(r, status, next).pc \in {"replace", next.pc}
           /\ AfterStatus(r, status, next).ret = next.ret
           /\ AfterStatus(r, status, next).seen = next.seen
<1> DEFINE after == AfterStatus(r, status, next)
<1>1. {"RUN_FAILED", "STOP_BEFORE_CLEANUP", "STOP_UNEXPECTED"} \subseteq ErrorType
  BY DEF ErrorType, OrchestratorErrorType
<1>2. CASE after = next
  BY <1>2
<1>3. CASE \E code \in ErrorType : after = Raise(next, r, code)
  BY <1>3, RaiseType
<1>4. CASE after = [next EXCEPT !.pc = "replace",
                               !.stops = ModelsByIdAndDesired(row[r].model, {"REPLACING"})]
  <2>1. /\ ModelsByIdAndDesired(row[r].model, {"REPLACING"}) \in SUBSET Runs
        /\ "replace" \in Points
    BY DEF ModelsByIdAndDesired, TypeOK, Points
  <2> QED
    BY <1>4, <2>1 DEF Op
<1> QED
  BY <1>1, <1>2, <1>3, <1>4, Zenon DEF AfterStatus

(* One status is applied to its run, which may leave the cluster.  The     *)
(* others still to be applied belong to other runs, which stay.            *)
LEMMA UpdateRunnerStateKeeps ==
    ASSUME Inv, UpdateRunnerState
    PROVE  Inv'
<1> USE ModelRunsAssumption
<1> DEFINE r    == Oldest(Processing)
           s    == op.seen[r]
           next == [op EXCEPT !.seen[r] = Unseen[r]]
<1>1. r \in Processing
  <2>1. Processing \in SUBSET Runs /\ Processing # {}
    BY DEF UpdateRunnerState, Processing
  <2> QED
    BY <2>1, OldestIsMember
<1>2. /\ r \in Runs /\ r \in cluster /\ InRunPhase(row[r]) /\ s.status \in RunnerStatus
      /\ op.pc = "runners" /\ op \in Op /\ row[r] \in ModelRun
  BY <1>1 DEF UpdateRunnerState, Inv, CallInv, Phase, Processing, TypeOK
<1>3. s.ip \in 0..MaxAddr
  BY <1>2 DEF Op
<1>4. next \in Op /\ next.pc = "runners" /\ next.ret = op.ret /\ next.seen = [op.seen EXCEPT ![r] = Unseen[r]]
  <2>1. Unseen[r] \in [status : RunnerStatus \cup BuilderStatus \cup {NONE}, ip : 0..MaxAddr]
    BY <1>2 DEF Unseen
  <2>2. [op.seen EXCEPT ![r] = Unseen[r]] \in [Runs ->
            [status : RunnerStatus \cup BuilderStatus \cup {NONE}, ip : 0..MaxAddr]]
    BY <1>2, <2>1 DEF Op
  <2>3. next = [op EXCEPT !.seen = [op.seen EXCEPT ![r] = Unseen[r]]]
    BY <1>2 DEF Op
  <2> QED
    BY <1>2, <2>2, <2>3 DEF Op
<1>5. /\ row' = [row EXCEPT ![r].runner = s.status, ![r].ip = s.ip]
      /\ told' = [told EXCEPT ![r] = s.status]
      /\ op' \in {next, AfterStatus(r, s.status, next)}
      /\ cluster' = cluster \/ (cluster' = cluster \ {r} /\ s.status = "STOPPED")
  <2>1. row' = [row EXCEPT ![r].runner = s.status, ![r].ip = s.ip]
    BY Zenon DEF UpdateRunnerState
  <2>2. told' = [told EXCEPT ![r] = s.status]
    BY Zenon DEF UpdateRunnerState, Tell
  <2>3. op' \in {next, AfterStatus(r, s.status, next)}
    BY Zenon DEF UpdateRunnerState
  <2>4. cluster' = cluster \/ (cluster' = cluster \ {r} /\ s.status = "STOPPED")
    <3>1. cluster' = IF s.status # row[r].runner /\ Leaves(r, s.status)
                     THEN cluster \ {r} ELSE cluster
      BY Zenon DEF UpdateRunnerState
    <3>2. Leaves(r, s.status) => s.status = "STOPPED"
      BY Zenon DEF Leaves
    <3> HIDE DEF r, s
    <3> QED
      BY <3>1, <3>2
  <2> QED
    BY <2>1, <2>2, <2>3, <2>4
<1> HIDE DEF r, s, next
<1>6. [row[r] EXCEPT !.runner = s.status, !.ip = s.ip] \in ModelRun
  BY <1>2, <1>3 DEF ModelRun
<1>7. row' = [row EXCEPT ![r] = [row[r] EXCEPT !.runner = s.status, !.ip = s.ip]]
  BY <1>2, <1>5 DEF Inv, TypeOK, ModelRun
<1>8. row' \in [Runs -> ModelRun] /\ OnlyForward
  BY <1>2, <1>5, <1>6, <1>7 DEF Inv, TypeOK, OnlyForward, ModelRun
<1>9. /\ op' \in Op /\ op'.pc \in {"replace", "runners"}
      /\ op'.ret = op.ret /\ op'.seen = next.seen
  BY <1>2, <1>4, <1>5, AfterStatusType DEF Inv
<1>10. ActiveRunsTracked'
  BY <1>2, <1>5, <1>7 DEF Inv, TypeOK, ActiveRunsTracked, LoadActive, ModelRun
<1>11. CallInv'
  <2>1. Processing' = Processing \ {r} /\ \A x \in Processing' : op'.seen[x] = op.seen[x]
    BY <1>2, <1>4, <1>9 DEF Processing, Unseen, Op
  <2>2. \A x \in Processing : /\ op.seen[x].status \in RunnerStatus
                             /\ x \in cluster /\ InRunPhase(row[x]) /\ x \in Runs
    BY <1>2 DEF Inv, CallInv, Phase, Processing
  <2>3. \A x \in Processing' : x \in cluster' /\ InRunPhase(row'[x])
    BY <1>2, <1>5, <1>7, <2>1, <2>2 DEF Inv, TypeOK, InRunPhase
  <2>4. op.ret \in ReturnPoints
    BY DEF Inv, CallInv
  <2> QED
    BY <1>9, <2>1, <2>2, <2>3, <2>4 DEF CallInv, Phase
<1>12. Forward
  BY <1>8, <1>9, <1>10, <1>11 DEF Forward
<1>13. told' \in [Runs -> RunnerStatus \cup {NONE}]
  BY <1>2, <1>5 DEF Inv, TypeOK
<1> QED
  BY <1>12, <1>13, ForwardKeepsInv DEF UpdateRunnerState, OthersOK, Inv, TypeOK

(* The runs replaced by a run that is RUNNING are stopped one after the    *)
(* other.                                                                  *)
LEMMA StopReplacedKeeps ==
    ASSUME Inv, StopReplaced
    PROVE  Inv'
<1> USE ModelRunsAssumption
<1>1. op \in Op /\ op.pc = "replace" /\ op.ret \in ReturnPoints
  BY DEF StopReplaced, Inv, TypeOK, CallInv
<1>2. CASE op.stops = {}
  <2>1. op' \in Op /\ op'.pc = "runners" /\ op'.ret = op.ret /\ op'.seen = op.seen
    <3>1. op' = [op EXCEPT !.pc = "runners"] /\ "runners" \in Points
      BY <1>2 DEF StopReplaced, At, Points
    <3> QED
      BY <1>1, <3>1 DEF Op
  <2>2. row' = row /\ cluster' = cluster /\ told' = told
    BY <1>2 DEF StopReplaced
  <2>3. CallInv'
    BY <1>1, <2>1, <2>2 DEF Inv, CallInv, Phase, Processing
  <2>4. Forward
    BY <2>1, <2>2, <2>3, SameRowsForward DEF Inv, ActiveRunsTracked
  <2> QED
    BY <2>2, <2>4, ForwardKeepsInv DEF StopReplaced, OthersOK, Inv, TypeOK
<1>3. CASE op.stops # {}
  <2> DEFINE r    == Oldest(op.stops)
             next == [op EXCEPT !.stops = op.stops \ {r}]
  <2>1. op.stops \in SUBSET Runs
    BY <1>1 DEF Op
  <2>2. r \in Runs
    BY <1>3, <2>1, OldestIsMember
  <2>3. next \in Op /\ next.pc = "replace" /\ next.ret = op.ret /\ next.seen = op.seen
    BY <1>1, <2>1 DEF Op
  <2>4. next = [op EXCEPT !.stops = @ \ {r}]
    BY <1>1 DEF Op
  <2>5. StopRun(r, next)
    BY <1>3, <2>4, Zenon DEF StopReplaced
  <2> HIDE DEF r, next
  <2>6. Forward /\ told' \in [Runs -> RunnerStatus \cup {NONE}]
    BY <1>1, <2>2, <2>3, <2>5, StopRunKeeps
  <2> QED
    BY <2>6, ForwardKeepsInv DEF StopReplaced, OthersOK, Inv, TypeOK
<1> QED
  BY <1>2, <1>3

(* A step inside an update that only moves on to the next loop.            *)
LEMMA MoveOnKeeps ==
    ASSUME Inv, op.ret \in ReturnPoints,
           NEW point \in {"runner_errors", "builder_errors"},
           op' = At(op, point), UNCHANGED <<row, nruns, cluster, reports, cloud, told, crashes>>
    PROVE  Inv'
<1>1. op \in Op
  BY DEF Inv, TypeOK
<1>2. op' \in Op /\ op'.pc = point /\ op'.ret = op.ret
  BY <1>1 DEF At, Op, Points
<1>3. CallInv'
  BY <1>2 DEF CallInv, Phase
<1>4. Forward
  BY <1>2, <1>3, SameRowsForward DEF Inv, ActiveRunsTracked
<1> QED
  BY <1>4, ForwardKeepsInv DEF OthersOK, Inv, TypeOK

(* The errors collected by a loop are handled after it, when no status is  *)
(* left to be applied.                                                     *)
LEMMA HandleErrorsKeeps ==
    ASSUME Inv, HandleErrors
    PROVE  Inv'
<1>1. op \in Op /\ op.ret \in ReturnPoints /\ op.pc \in ErrorPoints
  BY DEF HandleErrors, Inv, TypeOK, CallInv, ErrorPoints
<1>2. ASSUME NEW r \in Runs, NEW code \in ErrorType, NEW next \in Op,
             next.pc = op.pc, next.ret = op.ret, HandleError(r, code, next)
      PROVE  Inv'
  <2>1. Forward
    BY <1>1, <1>2, HandleErrorKeeps
  <2> QED
    BY <2>1, ForwardKeepsInv DEF HandleErrors, OthersOK, Inv, TypeOK
<1>3. CASE op.lost # {}
  <2> DEFINE r    == Oldest(op.lost)
             next == [op EXCEPT !.lost = op.lost \ {r}]
  <2>1. op.lost \in SUBSET Runs /\ "UNKNOWN" \in ErrorType
    BY <1>1 DEF Op, ErrorType, OrchestratorErrorType
  <2>2. r \in Runs
    BY <1>3, <2>1, OldestIsMember
  <2>3. next \in Op /\ next.pc = op.pc /\ next.ret = op.ret
    BY <1>1, <2>1 DEF Op
  <2>4. next = [op EXCEPT !.lost = @ \ {Oldest(@)}]
    BY <1>1 DEF Op
  <2>5. HandleError(r, "UNKNOWN", next)
    BY <1>3, <2>4, Zenon DEF HandleErrors
  <2> QED
    BY <1>2, <2>1, <2>2, <2>3, <2>5
<1>4. CASE op.lost = {}
  <2> DEFINE error == Head(op.errors)
             next  == [op EXCEPT !.errors = Tail(op.errors)]
  <2>1. op.errors \in Seq(Error) /\ op.errors # <<>>
    BY <1>1, <1>4 DEF HandleErrors, Op
  <2>2. error \in Error /\ Tail(op.errors) \in Seq(Error)
    BY <2>1
  <2>3. error.run \in Runs /\ error.code \in ErrorType
    BY <2>2 DEF Error
  <2>4. next \in Op /\ next.pc = op.pc /\ next.ret = op.ret
    BY <1>1, <2>2 DEF Op
  <2>5. next = [op EXCEPT !.errors = Tail(@)]
    BY <1>1 DEF Op
  <2>6. HandleError(error.run, error.code, next)
    BY <1>4, <2>5, Zenon DEF HandleErrors
  <2> QED
    BY <1>2, <2>3, <2>4, <2>6
<1> QED
  BY <1>3, <1>4

(* The errors of a loop are all handled: the next loop, or the end.        *)
LEMMA ErrorsDoneKeeps ==
    ASSUME Inv, ErrorsDone
    PROVE  Inv'
<1>1. op' = [NoOp EXCEPT !.pc = "load_builds"] \/ op' = NoOp
  BY DEF ErrorsDone
<1>2. op' \in Op /\ CallInv'
  <2>1. CASE op' = [NoOp EXCEPT !.pc = "load_builds"]
    <3>1. op' \in Op
      BY <2>1, NoOpType DEF Op, Points
    <3>2. CallInv'
      BY <2>1 DEF CallInv, NoOp, Phase, ReturnPoints, ErrorPoints
    <3> QED
      BY <3>1, <3>2
  <2>2. CASE op' = NoOp
    BY <2>2, NoOpKeeps
  <2> QED
    BY <1>1, <2>1, <2>2
<1>3. Forward
  BY <1>2, SameRowsForward DEF ErrorsDone, Inv, ActiveRunsTracked
<1> QED
  BY <1>3, ForwardKeepsInv DEF ErrorsDone, OthersOK, Inv, TypeOK

(* The results loaded from the Builder are those of tracked runs in their  *)
(* build phase.                                                            *)
LEMMA LoadBuilderStatesKeeps ==
    ASSUME Inv, LoadBuilderStates
    PROVE  Inv'
<1> USE ModelRunsAssumption
<1> DEFINE seen == [r \in Runs |->
                      IF r \in ModelsInBuildPhase /\ BuildNews(r)
                      THEN [status |-> cloud[r].image, ip |-> 0]
                      ELSE Unseen[r]]
           Status == [status : RunnerStatus \cup BuilderStatus \cup {NONE}, ip : 0..MaxAddr]
<1>1. op \in Op /\ op' = [op EXCEPT !.pc = "builders", !.seen = seen]
  BY DEF LoadBuilderStates, Inv, TypeOK
<1>2. \A r \in Runs : /\ cloud[r].image \in BuilderStatus \cup {NONE}
                      /\ Unseen[r] \in Status /\ Unseen[r].status = NONE
  BY DEF Unseen, Inv, TypeOK
<1>3. seen \in [Runs -> Status]
  BY <1>2
<1>4. \A r \in Runs : seen[r].status # NONE =>
                      seen[r].status \in BuilderStatus /\ r \in cluster
  BY <1>2 DEF ModelsInBuildPhase
<1> HIDE DEF seen
<1>5. op' \in Op
  BY <1>1, <1>3 DEF Op, Points
<1>6. op'.pc = "builders" /\ op'.ret = op.ret /\ op'.seen = seen
  BY <1>1 DEF Op
<1>7. CallInv'
  BY <1>4, <1>6 DEF LoadBuilderStates, Inv, CallInv, Phase, Processing
<1>8. Forward
  BY <1>5, <1>7, SameRowsForward DEF LoadBuilderStates, Inv, ActiveRunsTracked
<1> QED
  BY <1>8, ForwardKeepsInv DEF LoadBuilderStates, OthersOK, Inv, TypeOK

(* load_statuses of the Builder raises: the update ends.                   *)
LEMMA LoadBuilderStatesRaisesKeeps ==
    ASSUME Inv, LoadBuilderStatesRaises
    PROVE  Inv'
<1>1. Forward
  BY NoOpKeeps, SameRowsForward DEF LoadBuilderStatesRaises, Inv, ActiveRunsTracked
<1> QED
  BY <1>1, ForwardKeepsInv DEF LoadBuilderStatesRaises, OthersOK, Inv, TypeOK

(* One build result is applied; on success its run, tracked, is launched.  *)
LEMMA UpdateBuilderStateKeeps ==
    ASSUME Inv, UpdateBuilderState
    PROVE  Inv'
<1> USE ModelRunsAssumption
<1> DEFINE r     == Oldest(Processing)
           s     == op.seen[r].status
           next  == [op EXCEPT !.seen[r] = Unseen[r]]
           built == [row[r] EXCEPT !.builder = s]
<1>1. r \in Processing
  <2>1. Processing \in SUBSET Runs /\ Processing # {}
    BY DEF UpdateBuilderState, Processing
  <2> QED
    BY <2>1, OldestIsMember
<1>2. /\ r \in Runs /\ r \in cluster /\ s \in BuilderStatus
      /\ op.pc = "builders" /\ op \in Op /\ op.ret \in ReturnPoints /\ row[r] \in ModelRun
  BY <1>1 DEF UpdateBuilderState, Inv, CallInv, Phase, Processing, TypeOK
<1>3. next \in Op /\ next.pc = "builders" /\ next.ret = op.ret /\ next.seen = [op.seen EXCEPT ![r] = Unseen[r]]
  <2>1. Unseen[r] \in [status : RunnerStatus \cup BuilderStatus \cup {NONE}, ip : 0..MaxAddr]
    BY <1>2 DEF Unseen
  <2>2. [op.seen EXCEPT ![r] = Unseen[r]] \in [Runs ->
            [status : RunnerStatus \cup BuilderStatus \cup {NONE}, ip : 0..MaxAddr]]
    BY <1>2, <2>1 DEF Op
  <2>3. next = [op EXCEPT !.seen = [op.seen EXCEPT ![r] = Unseen[r]]]
    BY <1>2 DEF Op
  <2> QED
    BY <1>2, <2>2, <2>3 DEF Op
<1>4. /\ built \in ModelRun /\ built.model = row[r].model /\ built.desired = row[r].desired
      /\ built.runner = row[r].runner
  BY <1>2 DEF ModelRun
<1>5. \/ RunModel(r, built, next)
      \/ row' = [row EXCEPT ![r] = built] /\ op' = AfterBuild(r, s, next)
  BY Zenon DEF UpdateBuilderState
<1>6. cluster' = cluster
  BY DEF UpdateBuilderState
<1> HIDE DEF r, s, next, built
<1>7. CASE RunModel(r, built, next)
  <2>1. \A x \in Runs : next.seen[x] \in {op.seen[x], Unseen[x]}
    BY <1>2, <1>3 DEF Op
  <2>2. Forward
    BY <1>2, <1>3, <1>4, <1>6, <1>7, <2>1, RunModelKeeps
  <2> QED
    BY <2>2, ForwardKeepsInv DEF UpdateBuilderState, OthersOK, Inv, TypeOK
<1>8. CASE row' = [row EXCEPT ![r] = built] /\ op' = AfterBuild(r, s, next)
  <2>1. row' \in [Runs -> ModelRun] /\ OnlyForward
    BY <1>2, <1>4, <1>6, <1>8 DEF Inv, TypeOK, OnlyForward
  <2>2. op' \in Op /\ op'.pc = "builders" /\ op'.ret = op.ret /\ op'.seen = next.seen
    <3>1. "BUILD_FAILED" \in ErrorType
      BY DEF ErrorType, OrchestratorErrorType
    <3> QED
      BY <1>2, <1>3, <1>8, <3>1, RaiseType DEF AfterBuild
  <2>3. Processing' \subseteq Processing /\ \A x \in Processing' : op'.seen[x] = op.seen[x]
    <3>1. op.seen \in [Runs -> [status : RunnerStatus \cup BuilderStatus \cup {NONE}, ip : 0..MaxAddr]]
      BY <1>2 DEF Op
    <3>2. /\ op'.seen[r].status = NONE
          /\ \A x \in Runs \ {r} : op'.seen[x] = op.seen[x]
      BY <1>2, <1>3, <2>2, <3>1 DEF Unseen
    <3> QED
      BY <3>2 DEF Processing
  <2>4. CallInv'
    BY <1>2, <1>6, <2>2, <2>3 DEF Inv, CallInv, Phase
  <2>5. ActiveRunsTracked'
    BY <1>2, <1>4, <1>6, <1>8 DEF Inv, TypeOK, ActiveRunsTracked, LoadActive
  <2>6. Forward
    BY <2>1, <2>2, <2>4, <2>5 DEF Forward
  <2> QED
    BY <2>6, ForwardKeepsInv DEF UpdateBuilderState, OthersOK, Inv, TypeOK
<1> QED
  BY <1>5, <1>7, <1>8

(* The loop over runner statuses ends.                                     *)
LEMMA RunnerStatesDoneKeeps ==
    ASSUME Inv, RunnerStatesDone
    PROVE  Inv'
BY MoveOnKeeps DEF RunnerStatesDone, Inv, CallInv

(* The loop over build results ends.                                       *)
LEMMA BuilderStatesDoneKeeps ==
    ASSUME Inv, BuilderStatesDone
    PROVE  Inv'
BY MoveOnKeeps DEF BuilderStatesDone, Inv, CallInv

-----------------------------------------------------------------------------
(* The environment.                                                        *)

(* A runner job changes status in the cloud.                               *)
LEMMA TaskMoveKeeps ==
    ASSUME Inv, NEW r \in Runs, TaskMove(r)
    PROVE  Inv'
<1> USE ModelRunsAssumption
<1>1. Forward
  BY SameCallForward DEF TaskMove
<1>2. cloud' \in [Runs -> [task : RunnerStatus \cup {NONE}, addr : 1..MaxAddr,
                           image : BuilderStatus \cup {NONE}]]
  <2>1. PICK move \in TaskMoves :
           \/ cloud' = [cloud EXCEPT ![r].task = move[2]]
           \/ /\ cloud[r].addr < MaxAddr
              /\ cloud' = [cloud EXCEPT ![r].task = "RUNNING", ![r].addr = @ + 1]
    BY DEF TaskMove
  <2>2. move[2] \in RunnerStatus
    OBVIOUS
  <2>3. CASE cloud' = [cloud EXCEPT ![r].task = move[2]]
    BY <2>2, <2>3 DEF Inv, TypeOK
  <2>4. CASE /\ cloud[r].addr < MaxAddr
             /\ cloud' = [cloud EXCEPT ![r].task = "RUNNING", ![r].addr = @ + 1]
    <3>1. cloud[r].addr + 1 \in 1..MaxAddr
      BY <2>4 DEF Inv, TypeOK
    <3>2. cloud' = [cloud EXCEPT ![r] = [cloud[r] EXCEPT !.task = "RUNNING",
                                                        !.addr = cloud[r].addr + 1]]
      BY <2>4 DEF Inv, TypeOK
    <3> QED
      BY <3>1, <3>2 DEF Inv, TypeOK, RunnerStatus
  <2> QED
    BY <2>1, <2>3, <2>4
<1> QED
  BY <1>1, <1>2, ForwardKeepsInv DEF TaskMove, OthersOK, Inv, TypeOK

(* A build ends in the cloud.                                              *)
LEMMA ImageMoveKeeps ==
    ASSUME Inv, NEW r \in Runs, ImageMove(r)
    PROVE  Inv'
<1>1. Forward
  BY SameCallForward DEF ImageMove
<1>2. cloud' \in [Runs -> [task : RunnerStatus \cup {NONE}, addr : 1..MaxAddr,
                           image : BuilderStatus \cup {NONE}]]
  <2>1. PICK status \in {"SUCCESS", "FAILED"} : cloud' = [cloud EXCEPT ![r].image = status]
    BY DEF ImageMove
  <2> QED
    BY <2>1 DEF Inv, TypeOK, BuilderStatus
<1> QED
  BY <1>1, <1>2, ForwardKeepsInv DEF ImageMove, OthersOK, Inv, TypeOK

(* A coordinator reports a failure.                                        *)
LEMMA ReportKeeps ==
    ASSUME Inv, NEW r \in Runs, NEW code \in ModelRunnerErrorType,
           ReportModelRunnerFailure(r, code)
    PROVE  Inv'
<1> USE ModelRunsAssumption
<1> DEFINE rep == [run |-> r, ip |-> row[r].ip, code |-> code]
<1>1. Forward
  BY SameCallForward DEF ReportModelRunnerFailure
<1>2. row[r].ip \in 1..MaxAddr
  BY DEF ReportModelRunnerFailure, Inv, TypeOK, ModelRun
<1>3. rep \in Report /\ reports \in Seq(Report)
  BY <1>2 DEF Report, Inv, TypeOK
<1>4. reports' \in Seq(Report)
  BY <1>3 DEF ReportModelRunnerFailure
<1> QED
  BY <1>1, <1>4, ForwardKeepsInv DEF ReportModelRunnerFailure, OthersOK, Inv, TypeOK

(* A restart tracks no run that was not tracked: load_active selects only  *)
(* runs that the cluster held.                                             *)
LEMMA CrashKeeps ==
    ASSUME Inv, Crash
    PROVE  Inv'
<1> USE ModelRunsAssumption
<1>1. row' = row /\ cluster' = LoadActive /\ op' = NoOp
  BY DEF Crash
<1>2. Forward
  BY <1>1, NoOpKeeps, SameRowsForward DEF Inv, ActiveRunsTracked
<1>3. /\ reports' \in Seq(Report) /\ crashes' \in 0..MaxCrashes
      /\ told' \in [Runs -> RunnerStatus \cup {NONE}]
  BY DEF Crash, Inv, TypeOK, RunnerStatus
<1> QED
  BY <1>2, <1>3, ForwardKeepsInv DEF Crash, OthersOK, Inv, TypeOK

(* A step that changes nothing.                                            *)
LEMMA StutterKeeps ==
    ASSUME Inv, UNCHANGED vars
    PROVE  Inv'
<1>1. Forward
  BY SameCallForward DEF vars
<1> QED
  BY <1>1, ForwardKeepsInv DEF vars, OthersOK, Inv, TypeOK

-----------------------------------------------------------------------------
(* The next step of the call that holds the lock, step by step.            *)
LEMMA ProceedKeeps ==
    ASSUME Inv, Proceed
    PROVE  Inv'
<1>1. CASE IsBuilt \/ Build \/ BuildRaises \/ Run \/ RunRaises \/ Launched
  BY <1>1, IsBuiltKeeps, BuildKeeps, BuildRaisesKeeps, RunKeeps, RunRaisesKeeps, LaunchedKeeps
<1>2. CASE Halt \/ Stop \/ StopRaises \/ HandleReport \/ UpdateModelsInfo
  BY <1>2, HaltKeeps, StopKeeps, StopRaisesKeeps, HandleReportKeeps, UpdateModelsInfoKeeps
<1>3. CASE \/ LoadRunnerStates \/ LoadRunnerStatesRaises
           \/ UpdateRunnerState \/ StopReplaced \/ RunnerStatesDone
  BY <1>3, LoadRunnerStatesKeeps, LoadRunnerStatesRaisesKeeps, UpdateRunnerStateKeeps,
     StopReplacedKeeps, RunnerStatesDoneKeeps
<1>4. CASE \/ HandleErrors \/ ErrorsDone \/ LoadBuilderStates \/ LoadBuilderStatesRaises
           \/ UpdateBuilderState \/ BuilderStatesDone
  BY <1>4, HandleErrorsKeeps, ErrorsDoneKeeps, LoadBuilderStatesKeeps,
     LoadBuilderStatesRaisesKeeps, UpdateBuilderStateKeeps, BuilderStatesDoneKeeps
<1> QED
  BY <1>1, <1>2, <1>3, <1>4 DEF Proceed

(* Every step keeps the invariant.                                         *)
LEMMA NextKeeps ==
    ASSUME Inv, [Next]_vars
    PROVE  Inv'
<1>1. CASE \E m \in Models, c \in Configs : StartModel(m, c)
  BY <1>1, StartModelKeeps
<1>2. CASE \E m \in Models : StopModel(m)
  BY <1>2, StopModelKeeps
<1>3. CASE UpdatesStates \/ GetAllModels \/ Proceed
  BY <1>3, UpdatesStatesKeeps, GetAllModelsKeeps, ProceedKeeps
<1>4. CASE Environment
  BY <1>4, TaskMoveKeeps, ImageMoveKeeps, ReportKeeps, CrashKeeps DEF Environment
<1>5. CASE UNCHANGED vars
  BY <1>5, StutterKeeps
<1> QED
  BY <1>1, <1>2, <1>3, <1>4, <1>5 DEF Next

(* The inductive invariant holds in every reachable state, whichever calls *)
(* raise and whenever the process restarts.                                *)
THEOREM Invariance == Spec => []Inv
<1>1. Init => Inv
  BY InitInv
<1>2. Inv /\ [Next]_vars => Inv'
  BY NextKeeps
<1> QED
  BY <1>1, <1>2, PTL DEF Spec

(* Every variable keeps its type.                                          *)
THEOREM TypeCorrect == Spec => []TypeOK
<1>1. Inv => TypeOK
  BY DEF Inv
<1> QED
  BY <1>1, Invariance, PTL

(* update_runner_states and update_builder_states only apply a result to a *)
(* run that is tracked and in the phase of the result.                     *)
THEOREM CallConsistent == Spec => []CallInv
<1>1. Inv => CallInv
  BY DEF Inv
<1> QED
  BY <1>1, Invariance, PTL

(* A model never has two wanted runs.                                      *)
THEOREM AtMostOneWantedRun == Spec => []OneWantedRun
<1>1. Inv => OneWantedRun
  BY DEF Inv
<1> QED
  BY <1>1, Invariance, PTL

(* A restart revives no run that the service had let go of.                *)
THEOREM NothingRevived == Spec => []ActiveRunsTracked
<1>1. Inv => ActiveRunsTracked
  BY DEF Inv
<1> QED
  BY <1>1, Invariance, PTL

-----------------------------------------------------------------------------
(* How runs end, as long as no stop raises.                                *)

(* The runs of the errors an update has collected: they will be cleaned up.*)
OwedOf(o) == o.lost \cup {o.errors[i].run : i \in 1..Len(o.errors)}
Owed == OwedOf(op)

(* The run in hand is tracked.  Until it is launched it has not been up.   *)
InHand ==
    /\ op.pc \in {"is_built", "build", "run", "launched", "halt"} => op.cur \in cluster
    /\ op.pc \in {"is_built", "build"} => row[op.cur].runner = NONE
    /\ op.pc \in {"run", "launched"} => row[op.cur].runner = "INITIALIZING"

(* A run to be stopped is tracked; a run whose status is still to be       *)
(* applied has no error yet; a build ends once.                            *)
Loops ==
    /\ Phase = "replace" => op.stops \subseteq cluster
    /\ Phase \in {"runners", "replace"} => \A r \in Processing : row[r].job /\ r \notin Owed
    /\ Phase = "builders" => \A r \in Processing : row[r].runner = NONE
    /\ Phase \in {"reports", "load"} => op.errors = <<>>

(* A run with an error is not up, nor has it left the cluster as STOPPED.  *)
OwedEnds ==
    \A r \in Owed : /\ r <= nruns
                    /\ row[r].runner \notin {"RUNNING", "RECOVERING"}
                    /\ row[r].runner = "STOPPED" => r \in cluster

(* A run that is not tracked yet has no status, a run whose status came    *)
(* from the Runner has a job, and a run announced to be up is.             *)
Known ==
    \A r \in Runs :
        /\ r \in cluster \/ row[r].runner # NONE => r <= nruns
        /\ r \in cluster /\ row[r].runner \notin {NONE, "INITIALIZING"} => row[r].job
        /\ told[r] \in {"RUNNING", "RECOVERING"} => row[r].runner = told[r]

EndInv == InHand /\ Loops /\ OwedEnds /\ Known

(* What SettledForever says of a step.                                     *)
SettledKept ==
    \A r \in 1..nruns :
        r \notin cluster /\ row[r].runner \in {"STOPPED", "FAILED"} =>
            /\ r \notin cluster'
            /\ row'[r].desired = row[r].desired
            /\ row'[r].runner = row[r].runner

(* The runs that are owed a clean-up are runs.                             *)
LEMMA OwedTypes ==
    ASSUME NEW o \in Op
    PROVE  /\ OwedOf(o) \in SUBSET Runs
           /\ o.errors # <<>> => Head(o.errors) \in Error /\ Head(o.errors).run \in OwedOf(o)
<1>1. o.errors \in Seq(Error) /\ o.lost \in SUBSET Runs
  BY DEF Op
<1>2. \A i \in 1..Len(o.errors) : o.errors[i] \in Error
  BY <1>1
<1>3. \A i \in 1..Len(o.errors) : o.errors[i].run \in Runs
  BY <1>2 DEF Error
<1>4. ASSUME o.errors # <<>>
      PROVE  Head(o.errors) \in Error /\ Head(o.errors).run \in OwedOf(o)
  <2>1. 1 \in 1..Len(o.errors) /\ Head(o.errors) = o.errors[1]
    BY <1>1, <1>4
  <2> QED
    BY <1>2, <2>1 DEF OwedOf
<1> QED
  BY <1>1, <1>3, <1>4 DEF OwedOf

(* One error more, one error less.                                         *)
LEMMA OwedRaise ==
    ASSUME NEW o \in Op, NEW r \in Runs, NEW code \in ErrorType
    PROVE  OwedOf(Raise(o, r, code)) = OwedOf(o) \cup {r}
<1> DEFINE error == [run |-> r, code |-> code]
           errors == Append(o.errors, error)
<1>1. o.errors \in Seq(Error) /\ error \in Error
  BY DEF Op, Error
<1>2. Raise(o, r, code).errors = errors /\ Raise(o, r, code).lost = o.lost
  BY DEF Raise, Op
<1>3. /\ Len(errors) = Len(o.errors) + 1
      /\ errors[Len(errors)] = error
      /\ \A i \in 1..Len(o.errors) : errors[i] = o.errors[i]
      /\ Len(o.errors) \in Nat
  BY <1>1
<1>4. error.run = r
  OBVIOUS
<1> HIDE DEF error, errors
<1>5. {errors[i].run : i \in 1..Len(errors)} = {o.errors[i].run : i \in 1..Len(o.errors)} \cup {r}
  <2>1. 1..Len(errors) = 1..Len(o.errors) \cup {Len(errors)}
    BY <1>3
  <2> QED
    BY <1>3, <1>4, <2>1
<1> DEFINE raised == Raise(o, r, code)
<1>6. raised.errors = errors /\ raised.lost = o.lost
  BY <1>2
<1> HIDE DEF raised
<1>7. OwedOf(raised) = o.lost \cup {errors[i].run : i \in 1..Len(errors)}
  BY <1>6 DEF OwedOf
<1>8. OwedOf(o) \cup {r} = o.lost \cup {errors[i].run : i \in 1..Len(errors)}
  BY <1>5 DEF OwedOf
<1> QED
  BY <1>7, <1>8 DEF raised

(* Handling an error owes nothing more.                                    *)
LEMMA OwedTail ==
    ASSUME NEW o \in Op, o.errors # <<>>
    PROVE  OwedOf([o EXCEPT !.errors = Tail(@)]) \subseteq OwedOf(o)
<1> DEFINE next == [o EXCEPT !.errors = Tail(@)]
<1>1. o.errors \in Seq(Error)
  BY DEF Op
<1>2. next.errors = Tail(o.errors) /\ next.lost = o.lost
  BY DEF Op
<1>3. \A i \in 1..Len(Tail(o.errors)) : i + 1 \in 1..Len(o.errors) /\ Tail(o.errors)[i] = o.errors[i + 1]
  BY <1>1
<1> HIDE DEF next
<1> QED
  BY <1>2, <1>3 DEF OwedOf, next

(* A step that leaves runs and cluster alone and owes nothing new that is  *)
(* up.                                                                     *)
LEMMA SameRowsEnds ==
    ASSUME Inv, EndInv, row' = row, cluster' = cluster, nruns' = nruns,
           \A r \in Owed' : r \in Owed \/ (r \in cluster /\ row[r].runner \notin {"RUNNING", "RECOVERING"}),
           \A r \in Runs : \/ told'[r] = told[r]
                           \/ told'[r] = row[r].runner
                           \/ told'[r] \notin {"RUNNING", "RECOVERING"}
    PROVE  OwedEnds' /\ Known' /\ SettledKept
<1>1. cluster \subseteq Runs
  BY DEF Inv, TypeOK
<1>2. \A r \in cluster : r <= nruns
  BY <1>1 DEF EndInv, Known
<1>3. OwedEnds'
  BY <1>2 DEF EndInv, OwedEnds
<1>4. Known'
  BY DEF EndInv, Known
<1> QED
  BY <1>3, <1>4 DEF SettledKept

(* The value op takes when a call returns.                                 *)
LEMMA NoOpEnds ==
    ASSUME op' = NoOp
    PROVE  InHand' /\ Loops' /\ Owed' = {}
<1>1. op'.pc = "idle" /\ op'.ret = "idle" /\ op'.lost = {} /\ op'.errors = <<>>
  BY DEF NoOp
<1>2. Owed' = {}
  BY <1>1 DEF Owed, OwedOf
<1> QED
  BY <1>1, <1>2 DEF InHand, Loops, Phase

(* A step inside a loop.                                                   *)
LEMMA SameLoopEnds ==
    ASSUME Inv, EndInv, Phase' = Phase, cluster' = cluster,
           op'.seen = op.seen, op'.errors = op.errors, op'.lost = op.lost, op'.stops = op.stops,
           \A r \in Runs : /\ row[r].job => row'[r].job
                           /\ row[r].runner = NONE => row'[r].runner = NONE
    PROVE  Loops' /\ Owed' = Owed
<1>1. Owed' = Owed
  BY DEF Owed, OwedOf
<1>2. Processing' = Processing /\ Processing \subseteq Runs
  BY DEF Processing
<1> QED
  BY <1>1, <1>2 DEF EndInv, Loops

(* handle_error, of a tracked run or of one that is owed it.               *)
LEMMA HandleErrorEnds ==
    ASSUME Inv, EndInv, NEW r \in Runs, NEW code \in ErrorType, NEW next \in Op,
           next.pc \in ErrorPoints, OwedOf(next) \subseteq Owed,
           next.pc = "reports" => next.errors = <<>>,
           r \in cluster \cup Owed,
           row[r].runner \in {"RUNNING", "RECOVERING"}
                => r \in cluster /\ code \notin CloudProviderErrorType \cup {"STOP_BEFORE_CLEANUP"},
           HandleError(r, code, next), nruns' = nruns, told' = told
    PROVE  EndInv' /\ SettledKept
<1>1. /\ row \in [Runs -> ModelRun] /\ cluster \subseteq Runs
      /\ WithFailure(row[r], code) \in ModelRun
  BY WithFailureType DEF Inv, TypeOK
<1>2. /\ WithFailure(row[r], code).desired = row[r].desired
      /\ WithFailure(row[r], code).runner = row[r].runner
      /\ WithFailure(row[r], code).job = row[r].job
  BY <1>1 DEF WithFailure, ModelRun
<1>3. r <= nruns /\ (r \notin cluster => row[r].runner # "STOPPED")
  BY <1>1 DEF EndInv, OwedEnds, Known
<1>4. ASSUME NEW run \in ModelRun, run.desired = row[r].desired, FinalizeModelCleanup(r, run, next),
             row[r].runner \notin {"RUNNING", "RECOVERING"}
      PROVE  EndInv' /\ SettledKept
  <2>1. /\ row'[r].runner = "FAILED" /\ row'[r].desired = row[r].desired
        /\ \A q \in Runs \ {r} : row'[q] = row[q]
        /\ cluster' = cluster \ {r} /\ op' = next
    BY <1>1, <1>4 DEF FinalizeModelCleanup, ModelRun
  <2>2. InHand' /\ Loops'
    BY <2>1 DEF InHand, Loops, Phase, ErrorPoints
  <2>3. Owed' \subseteq Owed /\ Owed \subseteq Runs
    BY <2>1, OwedTypes DEF Owed, Inv, TypeOK
  <2>4. OwedEnds'
    BY <2>1, <2>3, <1>4 DEF EndInv, OwedEnds
  <2>5. Known'
    BY <1>3, <1>4, <2>1 DEF EndInv, Known
  <2>6. SettledKept
    <3> SUFFICES ASSUME NEW q \in 1..nruns, q \notin cluster, row[q].runner \in {"STOPPED", "FAILED"}
                 PROVE  /\ q \notin cluster' /\ row'[q].desired = row[q].desired
                        /\ row'[q].runner = row[q].runner
      BY DEF SettledKept
    <3>1. q \in Runs
      BY ModelRunsAssumption DEF Inv, TypeOK, Runs
    <3> QED
      BY <3>1, <1>3, <2>1
  <2> QED
    BY <2>2, <2>4, <2>5, <2>6 DEF EndInv
<1>5. ASSUME row' = [row EXCEPT ![r] = WithFailure(row[r], code)],
             op' = [next EXCEPT !.pc = "halt", !.ret = next.pc, !.cur = r],
             cluster' = cluster, IsRunActive(row[r])
      PROVE  EndInv' /\ SettledKept
  <2>1. r \in cluster
    BY <1>5 DEF IsRunActive, Inv, ActiveRunsTracked, LoadActive, NONE
  <2>2. \A q \in Runs : /\ row'[q].runner = row[q].runner /\ row'[q].desired = row[q].desired
                        /\ row'[q].job = row[q].job
    BY <1>1, <1>2, <1>5
  <2>3. /\ op'.pc = "halt" /\ op'.ret = next.pc /\ op'.cur = r
        /\ op'.errors = next.errors /\ op'.lost = next.lost
    BY <1>5 DEF Op
  <2>4. InHand' /\ Loops'
    BY <1>5, <2>1, <2>3 DEF InHand, Loops, Phase, ErrorPoints
  <2>5. Owed' \subseteq Owed /\ Owed \subseteq Runs
    <3>1. Owed \subseteq Runs
      <4>1. op \in Op
        BY DEF Inv, TypeOK
      <4> QED
        BY <4>1, OwedTypes DEF Owed
    <3>2. Owed' = OwedOf(next)
      BY <2>3 DEF Owed, OwedOf
    <3> QED
      BY <3>1, <3>2
  <2>6. OwedEnds'
    BY <1>5, <2>2, <2>5 DEF EndInv, OwedEnds
  <2>7. Known'
    BY <1>5, <2>2 DEF EndInv, Known
  <2>8. SettledKept
    BY <1>5, <2>2, ModelRunsAssumption DEF SettledKept, Inv, TypeOK, Runs
  <2> QED
    BY <2>4, <2>6, <2>7, <2>8 DEF EndInv
<1>6. row[r].runner \in {"RUNNING", "RECOVERING"} => IsRunActive(row[r])
  BY DEF EndInv, Known, IsRunActive, NONE
<1>7. CASE code = "STOP_BEFORE_CLEANUP"
  BY <1>1, <1>4, <1>7 DEF HandleError
<1>8. CASE code # "STOP_BEFORE_CLEANUP" /\ IsRunActive(row[r]) /\ code \notin CloudProviderErrorType
  BY <1>5, <1>8 DEF HandleError
<1>9. CASE /\ code # "STOP_BEFORE_CLEANUP"
           /\ ~(IsRunActive(row[r]) /\ code \notin CloudProviderErrorType)
  <2>1. FinalizeModelCleanup(r, WithFailure(row[r], code), next)
    BY <1>9 DEF HandleError
  <2>2. row[r].runner \notin {"RUNNING", "RECOVERING"}
    BY <1>6, <1>9
  <2> QED
    BY <2>1, <2>2, <1>1, <1>2, <1>4
<1> QED
  BY <1>7, <1>8, <1>9

(* _RunService.stop_model, of a tracked run. *)
LEMMA StopRunEnds ==
    ASSUME Inv, EndInv, NEW r \in cluster, NEW next \in Op, OwedOf(next) \subseteq Owed,
           next.pc = "reports" => next.errors = <<>>,
           \/ next.pc \in ErrorPoints
           \/ /\ next.pc = "replace" /\ op.pc = "replace" /\ next.seen = op.seen
              /\ next.stops = op.stops \ {r},
           StopRun(r, next), nruns' = nruns
    PROVE  EndInv' /\ SettledKept
<1>1. /\ row \in [Runs -> ModelRun] /\ cluster \subseteq Runs /\ r \in Runs
  BY DEF Inv, TypeOK
<1>2. \A q \in Runs : /\ row'[q].runner = row[q].runner
                      /\ row[q].job => row'[q].job
                      /\ q # r => row'[q].desired = row[q].desired
  BY <1>1 DEF StopRun, ModelRun
<1>3. \/ cluster' = cluster
      \/ cluster' = cluster \ {r} /\ row[r].runner = NONE
  BY DEF StopRun, InRunPhase
<1>4. /\ op'.pc \in {"stop", next.pc} /\ op'.errors = next.errors /\ op'.lost = next.lost
      /\ op'.stops = next.stops /\ op'.seen = next.seen
      /\ op'.pc = "stop" => op'.ret = next.pc
  <2>1. CASE op' = next
    BY <2>1 DEF ErrorPoints
  <2>2. CASE op' = [next EXCEPT !.pc = "stop", !.ret = next.pc, !.cur = r]
    BY <2>2 DEF Op
  <2> QED
    BY <2>1, <2>2 DEF StopRun
<1>5. Phase' = next.pc
  BY <1>4 DEF Phase, ErrorPoints
<1>6. /\ \A q \in Runs \ {r} : told'[q] = told[q]
      /\ told'[r] = "STOPPED"
  BY <1>1 DEF StopRun, Tell, Inv, TypeOK
<1>7. Owed' \subseteq Owed /\ Owed \subseteq Runs
  <2>1. Owed \subseteq Runs
    <3>1. op \in Op
      BY DEF Inv, TypeOK
    <3> QED
      BY <3>1, OwedTypes DEF Owed
  <2>2. Owed' = OwedOf(next)
    BY <1>4 DEF Owed, OwedOf
  <2> QED
    BY <2>1, <2>2
<1>8. InHand'
  BY <1>4 DEF InHand, ErrorPoints
<1>9. Loops'
  <2>1. CASE next.pc \in ErrorPoints
    BY <1>4, <1>5, <2>1 DEF Loops, ErrorPoints
  <2>2. CASE /\ next.pc = "replace" /\ op.pc = "replace" /\ next.seen = op.seen
             /\ next.stops = op.stops \ {r}
    <3>1. Processing' = Processing /\ Phase = "replace" /\ Processing \subseteq Runs
      BY <1>4, <2>2 DEF Processing, Phase
    <3>2. op'.stops = op.stops \ {r} /\ op.stops \subseteq cluster
      BY <1>4, <2>2, <3>1 DEF EndInv, Loops
    <3>3. \A q \in Processing : row[q].job /\ q \notin Owed
      BY <3>1 DEF EndInv, Loops
    <3>4. op'.stops \subseteq cluster'
      BY <1>3, <3>2
    <3>5. \A q \in Processing' : row'[q].job /\ q \notin Owed'
      BY <1>2, <1>7, <3>1, <3>3
    <3> QED
      BY <1>5, <2>2, <3>4, <3>5 DEF Loops
  <2> QED
    BY <2>1, <2>2
<1>10. OwedEnds'
  BY <1>2, <1>3, <1>7 DEF EndInv, OwedEnds, NONE
<1>11. Known'
  BY <1>1, <1>2, <1>3, <1>6 DEF EndInv, Known, NONE
<1>12. SettledKept
  <2>1. 1..nruns \subseteq Runs
    BY ModelRunsAssumption DEF Inv, TypeOK, Runs
  <2>2. cluster' \subseteq cluster
    BY <1>3
  <2> QED
    BY <1>2, <2>1, <2>2 DEF SettledKept
<1> QED
  BY <1>8, <1>9, <1>10, <1>11, <1>12 DEF EndInv

(* run_model, of a tracked run without a status. *)
LEMMA RunModelEnds ==
    ASSUME Inv, EndInv, NEW r \in cluster, NEW run \in ModelRun, row[r].runner = NONE,
           run.desired = row[r].desired,
           NEW next \in Op, OwedOf(next) \subseteq Owed,
           \/ next.pc = "idle"
           \/ /\ next.pc = "builders" /\ op.pc = "builders"
              /\ next.seen[r] = Unseen[r]
              /\ \A s \in Runs : next.seen[s] \in {op.seen[s], Unseen[s]},
           RunModel(r, run, next), cluster' = cluster, nruns' = nruns, told' = told
    PROVE  EndInv' /\ SettledKept
<1>1. /\ row \in [Runs -> ModelRun] /\ cluster \subseteq Runs /\ r \in Runs
  BY DEF Inv, TypeOK
<1>2. /\ row'[r].runner = "INITIALIZING" /\ row'[r].desired = row[r].desired
      /\ \A q \in Runs \ {r} : row'[q] = row[q]
  BY <1>1 DEF RunModel, ModelRun
<1>3. /\ op'.pc = "run" /\ op'.ret = next.pc /\ op'.cur = r /\ op'.seen = next.seen
      /\ op'.errors = next.errors /\ op'.lost = next.lost
  BY DEF RunModel, Op
<1>4. Owed' \subseteq Owed /\ Owed \subseteq Runs
  BY <1>3, OwedTypes DEF Owed, OwedOf, Inv, TypeOK
<1>5. InHand'
  BY <1>2, <1>3 DEF InHand
<1>6. Loops'
  <2>1. Phase' = next.pc
    BY <1>3 DEF Phase
  <2>2. CASE next.pc = "idle"
    BY <2>1, <2>2 DEF Loops
  <2>3. CASE /\ next.pc = "builders" /\ op.pc = "builders"
             /\ next.seen[r] = Unseen[r]
             /\ \A s \in Runs : next.seen[s] \in {op.seen[s], Unseen[s]}
    <3>1. \A q \in Processing' : q \in Processing /\ q \in Runs \ {r}
      BY <1>3, <2>3, <1>1 DEF Processing, Unseen
    <3>2. \A q \in Processing : row[q].runner = NONE
      BY <2>3 DEF EndInv, Loops, Phase
    <3> QED
      BY <1>2, <2>1, <2>3, <3>1, <3>2 DEF Loops
  <2> QED
    BY <2>2, <2>3
<1>7. OwedEnds'
  BY <1>2, <1>4 DEF EndInv, OwedEnds
<1>8. Known'
  BY <1>1, <1>2 DEF EndInv, Known, NONE
<1>9. SettledKept
  <2>1. 1..nruns \subseteq Runs
    BY ModelRunsAssumption DEF Inv, TypeOK, Runs
  <2> QED
    BY <1>2, <2>1 DEF SettledKept
<1> QED
  BY <1>5, <1>6, <1>7, <1>8, <1>9 DEF EndInv

(* Nothing has been created yet.                                           *)
LEMMA InitEnds ==
    ASSUME Init
    PROVE  EndInv
<1>1. op.pc = "idle" /\ op.ret = "idle" /\ Owed = {}
  BY DEF Init, NoOp, Owed, OwedOf
<1>2. \A r \in Runs : r \notin cluster /\ row[r].runner = NONE /\ told[r] = NONE
  BY DEF Init, Blank
<1> QED
  BY <1>1, <1>2 DEF EndInv, InHand, Loops, OwedEnds, Known, Phase, NONE

(* A new run has no past, and only tracked runs are replaced.              *)
LEMMA StartModelEnds ==
    ASSUME Inv, EndInv, NEW m \in Models, NEW c \in Configs, StartModel(m, c)
    PROVE  EndInv' /\ SettledKept
<1> USE ModelRunsAssumption
<1> DEFINE new  == nruns + 1
           rows == [r \in Runs |-> IF r \in Replaced(m)
                                   THEN [row[r] EXCEPT !.desired = "REPLACING"]
                                   ELSE row[r]]
           refused == [NewRun(m, c) EXCEPT !.failure = "IN_QUARANTINE", !.runner = "FAILED"]
<1>1. new \in Runs /\ new \in Nat /\ nruns \in Nat /\ new \notin 1..nruns /\ op.pc = "idle"
  BY DEF StartModel, Inv, TypeOK, Runs
<1>2. cluster \subseteq Runs /\ row \in [Runs -> ModelRun] /\ 1..nruns \subseteq Runs
  BY DEF Inv, TypeOK, Runs
<1>3. new \notin cluster /\ row[new].runner = NONE /\ told[new] \notin {"RUNNING", "RECOVERING"}
  BY <1>1 DEF EndInv, Known, NONE
<1>4. Replaced(m) \subseteq cluster
  <2>1. ModelsByIdAndDesired(m, {"RUNNING"}) \in SUBSET Runs
    BY <1>2 DEF ModelsByIdAndDesired
  <2>2. ModelsByIdAndDesired(m, {"RUNNING"}) # {} =>
            Oldest(ModelsByIdAndDesired(m, {"RUNNING"})) \in ModelsByIdAndDesired(m, {"RUNNING"})
    BY <2>1, OldestIsMember
  <2> QED
    BY <2>2 DEF Replaced, ModelsByIdAndDesired
<1>5. \A r \in Runs : /\ rows[r].runner = row[r].runner /\ rows[r].job = row[r].job
                      /\ r \notin cluster => rows[r] = row[r]
  BY <1>2, <1>4 DEF ModelRun
<1>6. DOMAIN rows = Runs /\ NewRun(m, c).runner = NONE /\ refused.runner = "FAILED"
  BY DEF NewRun, Blank
<1>7. nruns' = new /\ told' = told
  BY DEF StartModel
<1> HIDE DEF new, rows, refused
<1>8. CASE row' = [rows EXCEPT ![new] = refused] /\ cluster' = cluster /\ op' = op
  <2>1. /\ \A r \in Runs \ {new} : row'[r] = rows[r]
        /\ row'[new].runner = "FAILED"
    BY <1>1, <1>6, <1>8
  <2>2. InHand' /\ Loops' /\ Owed' = Owed
    BY <1>1, <1>8 DEF InHand, Loops, Phase, Owed, OwedOf
  <2>3. Owed \subseteq Runs
    BY OwedTypes DEF Owed, Inv, TypeOK
  <2>4. OwedEnds'
    <3> SUFFICES ASSUME NEW r \in Owed
                 PROVE  /\ r <= new
                        /\ row'[r].runner \notin {"RUNNING", "RECOVERING"}
                        /\ row'[r].runner = "STOPPED" => r \in cluster
      BY <1>7, <1>8, <2>2 DEF OwedEnds
    <3>1. r \in Runs /\ r <= nruns
      BY <2>3 DEF EndInv, OwedEnds
    <3>2. r # new /\ r <= new
      BY <3>1, <1>1 DEF new, Runs
    <3> QED
      BY <1>5, <2>1, <3>1, <3>2 DEF EndInv, OwedEnds
  <2>5. Known'
    <3> SUFFICES ASSUME NEW r \in Runs
                 PROVE  /\ r \in cluster \/ row'[r].runner # NONE => r <= new
                        /\ r \in cluster /\ row'[r].runner \notin {NONE, "INITIALIZING"} => row'[r].job
                        /\ told[r] \in {"RUNNING", "RECOVERING"} => row'[r].runner = told[r]
      BY <1>7, <1>8 DEF Known
    <3>1. CASE r = new
      BY <1>1, <1>3, <3>1
    <3>2. CASE r # new
      <4>1. row'[r].runner = row[r].runner /\ row'[r].job = row[r].job
        BY <1>5, <2>1, <3>2
      <4>2. r <= nruns => r <= new
        BY <1>1 DEF new, Runs
      <4> QED
        BY <4>1, <4>2 DEF EndInv, Known
    <3> QED
      BY <3>1, <3>2
  <2>6. SettledKept
    BY <1>1, <1>2, <1>5, <1>8, <2>1 DEF SettledKept
  <2> QED
    BY <2>2, <2>4, <2>5, <2>6 DEF EndInv
<1>9. CASE /\ row' = [rows EXCEPT ![new] = NewRun(m, c)]
           /\ cluster' = cluster \cup {new}
           /\ op' = [NoOp EXCEPT !.pc = "is_built", !.cur = new]
  <2>1. /\ \A r \in Runs \ {new} : row'[r] = rows[r]
        /\ row'[new].runner = NONE
    BY <1>1, <1>6, <1>9
  <2>2. op'.pc = "is_built" /\ op'.ret = "idle" /\ op'.cur = new /\ Owed' = {}
    BY <1>9 DEF NoOp, Owed, OwedOf
  <2>3. InHand' /\ Loops' /\ OwedEnds'
    BY <1>9, <2>1, <2>2 DEF InHand, Loops, Phase, OwedEnds
  <2>4. Known'
    <3> SUFFICES ASSUME NEW r \in Runs
                 PROVE  /\ r \in cluster' \/ row'[r].runner # NONE => r <= new
                        /\ r \in cluster' /\ row'[r].runner \notin {NONE, "INITIALIZING"} => row'[r].job
                        /\ told[r] \in {"RUNNING", "RECOVERING"} => row'[r].runner = told[r]
      BY <1>7 DEF Known
    <3>1. CASE r = new
      BY <1>1, <1>3, <2>1, <3>1
    <3>2. CASE r # new
      <4>1. row'[r].runner = row[r].runner /\ row'[r].job = row[r].job
        BY <1>5, <2>1, <3>2
      <4>2. r <= nruns => r <= new
        BY <1>1 DEF new, Runs
      <4>3. r \in cluster' => r \in cluster
        BY <1>9, <3>2
      <4> QED
        BY <4>1, <4>2, <4>3 DEF EndInv, Known
    <3> QED
      BY <3>1, <3>2
  <2>5. SettledKept
    BY <1>1, <1>2, <1>5, <1>9, <2>1 DEF SettledKept
  <2> QED
    BY <2>3, <2>4, <2>5 DEF EndInv
<1> QED
  BY <1>8, <1>9 DEF StartModel, new, rows, refused

(* A step that keeps the statuses, the desired statuses and the cluster    *)
(* and moves the call on.                                                  *)
LEMMA SameStatusEnds ==
    ASSUME Inv, EndInv, cluster' = cluster, nruns' = nruns,
           \A r \in Runs : /\ row'[r].runner = row[r].runner /\ row'[r].desired = row[r].desired
                           /\ row[r].job => row'[r].job,
           Owed' \subseteq Owed,
           \A r \in Runs : told'[r] = told[r] \/ told'[r] \notin {"RUNNING", "RECOVERING"}
    PROVE  OwedEnds' /\ Known' /\ SettledKept
<1>1. Owed \subseteq Runs /\ 1..nruns \subseteq Runs
  BY OwedTypes, ModelRunsAssumption DEF Owed, Inv, TypeOK, Runs
<1>2. OwedEnds'
  BY <1>1 DEF EndInv, OwedEnds
<1>3. Known'
  BY DEF EndInv, Known
<1> QED
  BY <1>1, <1>2, <1>3 DEF SettledKept

(* The step that ends a call to the Runner comes back to its loop.         *)
LEMMA BackEnds ==
    ASSUME Inv, EndInv, op.pc \in {"run", "launched", "halt", "stop"}, op' = Back,
           cluster' = cluster, nruns' = nruns,
           \A r \in Runs : /\ row'[r].runner = row[r].runner /\ row'[r].desired = row[r].desired
                           /\ row[r].job => row'[r].job,
           \A r \in Runs : told'[r] = told[r] \/ told'[r] \notin {"RUNNING", "RECOVERING"}
    PROVE  EndInv' /\ SettledKept
<1>1. op \in Op /\ op.ret \in ReturnPoints
  BY DEF Inv, TypeOK, CallInv
<1>2. /\ op'.pc = op.ret /\ op'.ret = "idle" /\ op'.seen = op.seen /\ op'.errors = op.errors
      /\ op'.lost = op.lost /\ op'.stops = op.stops
  BY <1>1 DEF Back, Op
<1>3. Phase' = Phase
  BY <1>1, <1>2 DEF Phase, ReturnPoints, ErrorPoints
<1>4. InHand'
  BY <1>1, <1>2 DEF InHand, ReturnPoints, ErrorPoints
<1>5. Loops' /\ Owed' = Owed
  BY <1>2, <1>3, SameLoopEnds
<1>6. OwedEnds' /\ Known' /\ SettledKept
  BY <1>5, SameStatusEnds
<1> QED
  BY <1>4, <1>5, <1>6 DEF EndInv

-----------------------------------------------------------------------------
(* The steps of the calls, in the order of Proceed.                        *)

(* start_model, once the Builder has said whether the image exists.        *)
LEMMA IsBuiltEnds ==
    ASSUME Inv, EndInv, IsBuilt
    PROVE  EndInv' /\ SettledKept
<1> USE ModelRunsAssumption
<1>1. /\ op.cur \in cluster /\ op.cur \in Runs /\ op \in Op /\ row[op.cur] \in ModelRun
      /\ row[op.cur].runner = NONE /\ op.pc = "is_built"
  BY DEF IsBuilt, Inv, CallInv, TypeOK, EndInv, InHand
<1>2. cluster' = cluster /\ nruns' = nruns /\ told' = told
  BY DEF IsBuilt
<1>3. CASE RunModel(op.cur, row[op.cur], At(op, "idle"))
  <2>1. At(op, "idle") \in Op /\ At(op, "idle").pc = "idle"
    BY <1>1 DEF At, Op, Points
  <2>2. OwedOf(At(op, "idle")) \subseteq Owed
    BY <1>1 DEF At, Op, OwedOf, Owed
  <2> QED
    BY <1>1, <1>2, <1>3, <2>1, <2>2, RunModelEnds
<1>4. CASE /\ row' = [row EXCEPT ![op.cur].builder = "BUILDING"]
           /\ op' = At(op, "build")
  <2>1. /\ op'.pc = "build" /\ op'.ret = op.ret /\ op'.cur = op.cur /\ op'.seen = op.seen
        /\ op'.errors = op.errors /\ op'.lost = op.lost /\ op'.stops = op.stops
    BY <1>1, <1>4 DEF At, Op
  <2>2. \A r \in Runs : /\ row'[r].runner = row[r].runner /\ row'[r].desired = row[r].desired
                        /\ row'[r].job = row[r].job
    BY <1>1, <1>4 DEF Inv, TypeOK, ModelRun
  <2>3. InHand'
    BY <1>1, <1>2, <2>1, <2>2 DEF InHand
  <2>4. Phase' = Phase
    BY <1>1, <2>1 DEF Phase
  <2>5. Loops' /\ Owed' = Owed
    BY <1>2, <2>1, <2>2, <2>4, SameLoopEnds
  <2>6. OwedEnds' /\ Known' /\ SettledKept
    BY <1>2, <2>2, <2>5, SameStatusEnds
  <2> QED
    BY <2>3, <2>5, <2>6 DEF EndInv
<1> QED
  BY <1>3, <1>4 DEF IsBuilt

(* A call returns and leaves the runs alone.                               *)
LEMMA ReturnEnds ==
    ASSUME Inv, EndInv, op' = NoOp, UNCHANGED <<row, cluster, nruns, told>>
    PROVE  EndInv' /\ SettledKept
<1>1. InHand' /\ Loops' /\ Owed' = {}
  BY NoOpEnds
<1>2. OwedEnds' /\ Known' /\ SettledKept
  BY <1>1, SameRowsEnds
<1> QED
  BY <1>1, <1>2 DEF EndInv

(* Builder.build raises: the run was never up.                             *)
LEMMA BuildRaisesEnds ==
    ASSUME Inv, EndInv, BuildRaises
    PROVE  EndInv' /\ SettledKept
<1>1. op.cur \in Runs /\ op.cur \in cluster /\ row[op.cur].runner = NONE
  BY DEF BuildRaises, Inv, CallInv, EndInv, InHand
<1>2. "BUILD_EXCEPTION" \in ErrorType
  BY DEF ErrorType, CloudProviderErrorType
<1>3. NoOp \in Op /\ NoOp.pc = "idle" /\ OwedOf(NoOp) \subseteq Owed
  BY NoOpType DEF NoOp, OwedOf
<1> QED
  BY <1>1, <1>2, <1>3, HandleErrorEnds DEF BuildRaises, ErrorPoints, NONE

(* Runner.run creates the job.                                             *)
LEMMA RunEnds ==
    ASSUME Inv, EndInv, Run
    PROVE  EndInv' /\ SettledKept
<1>1. op \in Op /\ op.pc = "run"
  BY DEF Run, Inv, TypeOK
<1>2. /\ op'.pc = "launched" /\ op'.ret = op.ret /\ op'.cur = op.cur /\ op'.seen = op.seen
      /\ op'.errors = op.errors /\ op'.lost = op.lost /\ op'.stops = op.stops
  BY <1>1 DEF Run, At, Op
<1>3. row' = row /\ cluster' = cluster /\ nruns' = nruns /\ told' = told
  BY DEF Run
<1>4. Phase' = Phase
  BY <1>1, <1>2 DEF Phase
<1>5. InHand'
  BY <1>1, <1>2, <1>3 DEF EndInv, InHand
<1>6. Loops' /\ Owed' = Owed
  BY <1>2, <1>3, <1>4, SameLoopEnds
<1>7. OwedEnds' /\ Known' /\ SettledKept
  BY <1>3, <1>6, SameRowsEnds
<1> QED
  BY <1>5, <1>6, <1>7 DEF EndInv

(* Runner.run returns.                                                     *)
LEMMA LaunchedEnds ==
    ASSUME Inv, EndInv, Launched
    PROVE  EndInv' /\ SettledKept
<1>1. op.cur \in Runs /\ row \in [Runs -> ModelRun] /\ told \in [Runs -> RunnerStatus \cup {NONE}]
  BY DEF Launched, Inv, CallInv, TypeOK
<1>2. /\ row' = [row EXCEPT ![op.cur].job = TRUE] /\ told' = [told EXCEPT ![op.cur] = "INITIALIZING"]
      /\ cluster' = cluster /\ nruns' = nruns /\ op' = Back /\ op.pc = "launched"
  BY DEF Launched, Tell
<1>3. \A r \in Runs : /\ row'[r].runner = row[r].runner /\ row'[r].desired = row[r].desired
                      /\ row[r].job => row'[r].job
                      /\ told'[r] = told[r] \/ told'[r] \notin {"RUNNING", "RECOVERING"}
  BY <1>1, <1>2 DEF ModelRun
<1> QED
  BY <1>2, <1>3, BackEnds

(* Runner.run raises: the run was never up.                                *)
LEMMA RunRaisesEnds ==
    ASSUME Inv, EndInv, RunRaises
    PROVE  EndInv' /\ SettledKept
<1>1. op.cur \in Runs /\ op.cur \in cluster /\ row[op.cur].runner = "INITIALIZING"
  BY DEF RunRaises, Inv, CallInv, EndInv, InHand
<1>2. "RUN_EXCEPTION" \in ErrorType
  BY DEF ErrorType, CloudProviderErrorType
<1>3. NoOp \in Op /\ NoOp.pc = "idle" /\ OwedOf(NoOp) \subseteq Owed
  BY NoOpType DEF NoOp, OwedOf
<1>4. CASE op.ret = "idle"
  BY <1>1, <1>2, <1>3, <1>4, HandleErrorEnds DEF RunRaises, ErrorPoints
<1>5. CASE op.ret # "idle"
  BY <1>5, ReturnEnds DEF RunRaises
<1> QED
  BY <1>4, <1>5

(* stop_model takes a tracked run.                                         *)
LEMMA StopModelEnds ==
    ASSUME Inv, EndInv, NEW m \in Models, StopModel(m)
    PROVE  EndInv' /\ SettledKept
<1> DEFINE active == ModelsByIdAndDesired(m, {"RUNNING", "REPLACING"})
<1>1. active \in SUBSET Runs /\ active \subseteq cluster /\ active # {}
  BY DEF StopModel, ModelsByIdAndDesired, Inv, TypeOK
<1>2. Oldest(active) \in cluster
  BY <1>1, OldestIsMember
<1>3. StopRun(Oldest(active), NoOp) /\ nruns' = nruns
  BY DEF StopModel
<1>4. NoOp \in Op /\ NoOp.pc = "idle" /\ OwedOf(NoOp) \subseteq Owed
  BY NoOpType DEF NoOp, OwedOf
<1> HIDE DEF active
<1> QED
  BY <1>2, <1>3, <1>4, StopRunEnds DEF ErrorPoints

(* handle_error stops the run whose failure it has saved.                  *)
LEMMA HaltEnds ==
    ASSUME Inv, EndInv, Halt
    PROVE  EndInv' /\ SettledKept
<1> USE ModelRunsAssumption
<1>1. op.cur \in cluster /\ op \in Op /\ op.ret \in ErrorPoints /\ op.pc = "halt"
  BY DEF Halt, Inv, CallInv, TypeOK, EndInv, InHand
<1>2. "idle" \in Points /\ 0 \in 0..MaxRuns
  BY DEF Points
<1>3. /\ Back \in Op /\ Back.pc = op.ret /\ Back.errors = op.errors /\ Back.lost = op.lost
  BY <1>1, <1>2 DEF Back, Op
<1>4. OwedOf(Back) \subseteq Owed
  BY <1>3 DEF OwedOf, Owed
<1>5. Back.pc = "reports" => Back.errors = <<>>
  BY <1>1, <1>3 DEF EndInv, Loops, Phase
<1> QED
  BY <1>1, <1>3, <1>4, <1>5, StopRunEnds DEF Halt

(* Runner.stop returns.                                                    *)
LEMMA StopEnds ==
    ASSUME Inv, EndInv, Stop
    PROVE  EndInv' /\ SettledKept
BY BackEnds DEF Stop

(* A report ends, or starts to end, a run that is tracked.                 *)
LEMMA HandleReportEnds ==
    ASSUME Inv, EndInv, HandleReport
    PROVE  EndInv' /\ SettledKept
<1> DEFINE rep  == Head(op.pending)
           next == [op EXCEPT !.pending = Tail(@)]
<1>1. op \in Op /\ op.pc = "reports" /\ op.errors = <<>>
  BY DEF HandleReport, Inv, TypeOK, EndInv, Loops, Phase
<1>2. rep \in Report /\ Tail(op.pending) \in Seq(Report)
  BY <1>1 DEF HandleReport, Op
<1>3. /\ next \in Op /\ next.pc = "reports" /\ next.errors = op.errors /\ next.lost = op.lost
  BY <1>1, <1>2 DEF Op
<1>4. OwedOf(next) \subseteq Owed
  BY <1>3 DEF OwedOf, Owed
<1>5. rep.code \in ModelRunnerErrorType
  BY <1>2 DEF Report
<1>6. rep.code \in ErrorType /\ rep.code \notin CloudProviderErrorType \cup {"STOP_BEFORE_CLEANUP"}
  BY <1>5 DEF ErrorType, ModelRunnerErrorType, CloudProviderErrorType
<1>7. nruns' = nruns /\ told' = told
  BY DEF HandleReport
<1>8. CASE \E r \in HeldFailed(rep) : HandleError(r, rep.code, next)
  <2>1. PICK r \in cluster : HandleError(r, rep.code, next)
    BY <1>8 DEF HeldFailed
  <2>2. r \in Runs
    BY TrackedAreRuns
  <2> HIDE DEF rep, next
  <2> QED
    BY <1>1, <1>3, <1>4, <1>6, <1>7, <2>1, <2>2, HandleErrorEnds DEF ErrorPoints
<1>9. CASE op' = NoOp /\ UNCHANGED <<row, cluster>>
  BY <1>7, <1>9, ReturnEnds
<1> QED
  BY <1>8, <1>9 DEF HandleReport

(* The observers are told that a run is up when it is.                     *)
LEMMA TellRunningEnds ==
    ASSUME Inv, NEW renamed, TellRunning(renamed), NEW r \in Runs
    PROVE  told'[r] = told[r] \/ told'[r] = row[r].runner
BY DEF TellRunning, IsRunning, Inv, TypeOK

(* UpdateModelsInfo keeps the invariant.                                   *)
LEMMA UpdateModelsInfoEnds ==
    ASSUME Inv, EndInv, UpdateModelsInfo
    PROVE  EndInv' /\ SettledKept
<1>1. op \in Op /\ op.pc = "reports" /\ op' = At(op, "load")
  BY DEF UpdateModelsInfo, Inv, TypeOK
<1>2. op'.pc = "load" /\ op'.errors = op.errors /\ op'.lost = op.lost
  BY <1>1 DEF At, Op
<1>3. row' = row /\ cluster' = cluster /\ nruns' = nruns
  BY DEF UpdateModelsInfo
<1>4. InHand' /\ Owed' = Owed
  BY <1>2 DEF InHand, Owed, OwedOf
<1>5. Loops'
  BY <1>1, <1>2 DEF EndInv, Loops, Phase
<1>6. \A r \in Runs : told'[r] = told[r] \/ told'[r] = row[r].runner
  BY TellRunningEnds DEF UpdateModelsInfo
<1>7. OwedEnds' /\ Known' /\ SettledKept
  BY <1>3, <1>4, <1>6, SameRowsEnds
<1> QED
  BY <1>4, <1>5, <1>7 DEF EndInv

(* A step that leaves the call and the runs alone.                         *)
LEMMA SameCallEnds ==
    ASSUME Inv, EndInv, UNCHANGED <<row, cluster, op, nruns>>,
           \A r \in Runs : told'[r] = told[r] \/ told'[r] = row[r].runner
    PROVE  EndInv' /\ SettledKept
<1>1. InHand' /\ Loops' /\ Owed' = Owed
  BY DEF EndInv, InHand, Loops, Phase, Processing, Owed, OwedOf
<1>2. OwedEnds' /\ Known' /\ SettledKept
  BY <1>1, SameRowsEnds
<1> QED
  BY <1>1, <1>2 DEF EndInv

(* What is loaded from the Runner concerns runs with a job; a tracked run  *)
(* without one, which is still INITIALIZING, is owed a clean-up.           *)
LEMMA LoadEnds ==
    ASSUME Inv, EndInv, op.pc = "load", NEW seen,
           op' = [op EXCEPT !.pc = "runners", !.lost = {r \in ModelsInRunPhase : JobUnknown(r)},
                            !.seen = seen],
           \A r \in Runs : seen[r].status # NONE => r \in ModelsInRunPhase /\ ~JobUnknown(r),
           UNCHANGED <<row, cluster, nruns, told>>
    PROVE  EndInv' /\ SettledKept
<1> DEFINE lost == {r \in ModelsInRunPhase : JobUnknown(r)}
<1>1. op \in Op /\ op.errors = <<>> /\ cluster \subseteq Runs
  BY DEF Inv, TypeOK, EndInv, Loops, Phase
<1>2. op'.pc = "runners" /\ op'.errors = <<>> /\ op'.lost = lost /\ op'.seen = seen
  BY <1>1 DEF Op
<1>3. \A r \in lost : r \in cluster /\ row[r].runner = "INITIALIZING" /\ ~row[r].job
  BY DEF ModelsInRunPhase, JobUnknown
<1> HIDE DEF lost
<1>4. Owed' = lost
  BY <1>2 DEF Owed, OwedOf
<1>5. \A r \in Processing' : row[r].job
  BY <1>2 DEF Processing, ModelsInRunPhase, JobUnknown, InRunPhase, EndInv, Known
<1>6. InHand' /\ Loops'
  BY <1>2, <1>3, <1>4, <1>5 DEF InHand, Loops, Phase
<1>7. OwedEnds' /\ Known' /\ SettledKept
  BY <1>3, <1>4, SameRowsEnds
<1> QED
  BY <1>6, <1>7 DEF EndInv

(* LoadRunnerStates keeps the invariant.                                   *)
LEMMA LoadRunnerStatesEnds ==
    ASSUME Inv, EndInv, LoadRunnerStates
    PROVE  EndInv' /\ SettledKept
<1> DEFINE seen == [r \in Runs |->
                      IF r \in ModelsInRunPhase /\ ~JobUnknown(r) /\ News(r)
                      THEN Loaded(r) ELSE Unseen[r]]
<1>1. \A r \in Runs : Unseen[r].status = NONE
  BY DEF Unseen
<1>2. \A r \in Runs : seen[r].status # NONE => r \in ModelsInRunPhase /\ ~JobUnknown(r)
  BY <1>1
<1>3. op' = [op EXCEPT !.pc = "runners", !.lost = {r \in ModelsInRunPhase : JobUnknown(r)},
                       !.seen = seen]
  BY Zenon DEF LoadRunnerStates
<1>4. op.pc = "load" /\ UNCHANGED <<row, cluster, nruns, told>>
  BY DEF LoadRunnerStates
<1> HIDE DEF seen
<1> QED
  BY <1>2, <1>3, <1>4, LoadEnds

(* LoadRunnerStatesRaises keeps the invariant.                             *)
LEMMA LoadRunnerStatesRaisesEnds ==
    ASSUME Inv, EndInv, LoadRunnerStatesRaises
    PROVE  EndInv' /\ SettledKept
<1>1. \A r \in Runs : Unseen[r].status = NONE
  BY DEF Unseen
<1> QED
  BY <1>1, LoadEnds DEF LoadRunnerStatesRaises

(* What a status leads to: an error if it is final, unless the run leaves  *)
(* the cluster, or the stop of tracked runs.                               *)
LEMMA AfterStatusEnds ==
    ASSUME NEW r \in Runs, NEW status, NEW next \in Op, next.pc = "runners"
    PROVE  LET after == AfterStatus(r, status, next)
           IN  /\ \/ OwedOf(after) = OwedOf(next)
                  \/ /\ OwedOf(after) = OwedOf(next) \cup {r}
                     /\ status \in {"FAILED", "STOPPED"} /\ ~Leaves(r, status)
               /\ \/ after.pc = "runners"
                  \/ /\ after.pc = "replace" /\ status = "RUNNING"
                     /\ after.stops \subseteq cluster
<1> DEFINE after == AfterStatus(r, status, next)
           stops == ModelsByIdAndDesired(row[r].model, {"REPLACING"})
<1>1. {"RUN_FAILED", "STOP_BEFORE_CLEANUP", "STOP_UNEXPECTED"} \subseteq ErrorType
  BY DEF ErrorType, OrchestratorErrorType
<1>2. CASE status = "RUNNING"
  <2>1. after = [next EXCEPT !.pc = "replace", !.stops = stops]
    BY <1>2 DEF AfterStatus
  <2>2. stops \subseteq cluster
    BY DEF ModelsByIdAndDesired
  <2> HIDE DEF stops
  <2>3. after.pc = "replace" /\ after.stops = stops /\ after.errors = next.errors
        /\ after.lost = next.lost
    BY <2>1 DEF Op
  <2> QED
    BY <1>2, <2>2, <2>3 DEF OwedOf
<1>3. CASE /\ status \in {"FAILED", "STOPPED"} /\ ~Leaves(r, status)
           /\ \E code \in ErrorType : after = Raise(next, r, code)
  BY <1>3, OwedRaise, RaiseType
<1>4. CASE after = next
  BY <1>4
<1>5. \/ status = "RUNNING"
      \/ after = next
      \/ /\ status \in {"FAILED", "STOPPED"} /\ ~Leaves(r, status)
         /\ \E code \in ErrorType : after = Raise(next, r, code)
  <2>1. CASE status = "FAILED"
    BY <1>1, <2>1 DEF AfterStatus, Leaves
  <2>2. CASE status = "STOPPED" /\ HasFailed(row[r])
    BY <1>1, <2>2 DEF AfterStatus, Leaves
  <2>3. CASE status = "STOPPED" /\ ~HasFailed(row[r]) /\ row[r].desired # "STOPPED"
    BY <1>1, <2>3 DEF AfterStatus, Leaves
  <2>4. CASE status = "STOPPED" /\ ~HasFailed(row[r]) /\ row[r].desired = "STOPPED"
    BY <2>4 DEF AfterStatus
  <2>5. CASE status \notin {"RUNNING", "FAILED", "STOPPED"}
    BY <2>5 DEF AfterStatus
  <2> QED
    BY <2>1, <2>2, <2>3, <2>4, <2>5
<1> QED
  BY <1>2, <1>3, <1>4, <1>5

(* One status is applied to its run, which has no error yet.               *)
LEMMA UpdateRunnerStateEnds ==
    ASSUME Inv, EndInv, UpdateRunnerState
    PROVE  EndInv' /\ SettledKept
<1> USE ModelRunsAssumption
<1> DEFINE r     == Oldest(Processing)
           s     == op.seen[r]
           next  == [op EXCEPT !.seen[r] = Unseen[r]]
           after == AfterStatus(r, s.status, next)
<1>1. r \in Processing
  <2>1. Processing \in SUBSET Runs /\ Processing # {}
    BY DEF UpdateRunnerState, Processing
  <2> QED
    BY <2>1, OldestIsMember
<1>2. /\ r \in Runs /\ r \in cluster /\ row[r].runner # NONE /\ s.status \in RunnerStatus
      /\ op.pc = "runners" /\ op \in Op
      /\ row[r].job /\ r \notin Owed
  BY <1>1 DEF UpdateRunnerState, Inv, CallInv, Phase, Processing, TypeOK, InRunPhase, EndInv, Loops
<1>3. /\ next \in Op /\ next.pc = "runners" /\ next.seen = [op.seen EXCEPT ![r] = Unseen[r]]
      /\ next.errors = op.errors /\ next.lost = op.lost
  <2>1. Unseen[r] \in [status : RunnerStatus \cup BuilderStatus \cup {NONE}, ip : 0..MaxAddr]
    BY <1>2 DEF Unseen
  <2>2. [op.seen EXCEPT ![r] = Unseen[r]] \in [Runs ->
            [status : RunnerStatus \cup BuilderStatus \cup {NONE}, ip : 0..MaxAddr]]
    BY <1>2, <2>1 DEF Op
  <2>3. next = [op EXCEPT !.seen = [op.seen EXCEPT ![r] = Unseen[r]]]
    BY <1>2 DEF Op
  <2> QED
    BY <1>2, <2>2, <2>3 DEF Op
<1>4. row' = [row EXCEPT ![r].runner = s.status, ![r].ip = s.ip]
  BY Zenon DEF UpdateRunnerState
<1>5. told' = [told EXCEPT ![r] = s.status]
  BY Zenon DEF UpdateRunnerState, Tell
<1>6. \/ op' = next /\ cluster' = cluster
      \/ /\ op' = after
         /\ cluster' = IF Leaves(r, s.status) THEN cluster \ {r} ELSE cluster
  <2>1. /\ op' = IF s.status # row[r].runner THEN after ELSE next
        /\ cluster' = IF s.status # row[r].runner /\ Leaves(r, s.status)
                      THEN cluster \ {r} ELSE cluster
    BY Zenon DEF UpdateRunnerState
  <2> HIDE DEF r, s, next, after
  <2> QED
    BY <2>1
<1>7. nruns' = nruns
  BY DEF UpdateRunnerState
<1>8. /\ OwedOf(next) = Owed
      /\ next.pc = "runners"
  BY <1>3 DEF OwedOf, Owed
<1>9. /\ \/ OwedOf(after) = Owed
         \/ /\ OwedOf(after) = Owed \cup {r}
            /\ s.status \in {"FAILED", "STOPPED"} /\ ~Leaves(r, s.status)
      /\ \/ after.pc = "runners"
         \/ after.pc = "replace" /\ s.status = "RUNNING" /\ after.stops \subseteq cluster
      /\ after.seen = next.seen
  <2> HIDE DEF r, s, next
  <2>1. after.seen = next.seen
    BY <1>2, <1>3, AfterStatusType DEF Inv
  <2> QED
    BY <1>2, <1>3, <1>8, <2>1, AfterStatusEnds
<1> HIDE DEF r, s, next, after
<1>10. Leaves(r, s.status) => s.status = "STOPPED"
  BY DEF Leaves
<1>11. /\ row'[r].runner = s.status /\ row'[r].job = row[r].job /\ row'[r].desired = row[r].desired
       /\ \A q \in Runs \ {r} : row'[q] = row[q]
  BY <1>2, <1>4 DEF Inv, TypeOK, ModelRun
<1>12. /\ \/ Owed' = Owed
          \/ Owed' = Owed \cup {r} /\ s.status \in {"FAILED", "STOPPED"} /\ cluster' = cluster
       /\ op'.pc \in {"runners", "replace"}
       /\ op'.pc = "replace" => op'.stops \subseteq cluster'
       /\ op'.seen = next.seen
       /\ cluster' \in {cluster, cluster \ {r}}
  <2>1. CASE op' = next /\ cluster' = cluster
    BY <1>8, <2>1 DEF Owed, OwedOf
  <2>2. CASE op' = after /\ cluster' = IF Leaves(r, s.status) THEN cluster \ {r} ELSE cluster
    <3>1. Owed' = OwedOf(after)
      BY <2>2 DEF Owed, OwedOf
    <3> QED
      BY <1>9, <1>10, <2>2, <3>1
  <2> QED
    BY <1>6, <2>1, <2>2
<1>13. Owed \subseteq Runs /\ 1..nruns \subseteq Runs
  BY OwedTypes DEF Owed, Inv, TypeOK, Runs
<1>14. InHand'
  BY <1>12 DEF InHand
<1>15. Loops'
  <2>1. Processing' = Processing \ {r} /\ Processing \subseteq Runs
    BY <1>2, <1>3, <1>12 DEF Processing, Unseen, Op
  <2>2. \A q \in Processing : row[q].job /\ q \notin Owed
    BY <1>2 DEF EndInv, Loops, Phase
  <2>3. \A q \in Processing' : row'[q].job /\ q \notin Owed'
    BY <1>11, <1>12, <2>1, <2>2
  <2>4. Phase' = op'.pc
    BY <1>12 DEF Phase
  <2> QED
    BY <1>12, <2>3, <2>4 DEF Loops
<1>16. OwedEnds'
  <2> SUFFICES ASSUME NEW q \in Owed'
               PROVE  /\ q <= nruns
                      /\ row'[q].runner \notin {"RUNNING", "RECOVERING"}
                      /\ row'[q].runner = "STOPPED" => q \in cluster'
    BY <1>7 DEF OwedEnds
  <2>1. CASE q \in Owed
    BY <1>2, <1>11, <1>12, <1>13, <2>1 DEF EndInv, OwedEnds
  <2>2. CASE q \notin Owed
    <3>1. q = r /\ s.status \in {"FAILED", "STOPPED"} /\ cluster' = cluster
      BY <1>12, <2>2
    <3>2. r <= nruns
      BY <1>2 DEF EndInv, Known
    <3> QED
      BY <1>2, <1>11, <3>1, <3>2
  <2> QED
    BY <2>1, <2>2
<1>17. Known'
  <2> SUFFICES ASSUME NEW q \in Runs
               PROVE  /\ q \in cluster' \/ row'[q].runner # NONE => q <= nruns
                      /\ q \in cluster' /\ row'[q].runner \notin {NONE, "INITIALIZING"} => row'[q].job
                      /\ told'[q] \in {"RUNNING", "RECOVERING"} => row'[q].runner = told'[q]
    BY <1>7 DEF Known
  <2>1. CASE q = r
    BY <1>2, <1>5, <1>11, <2>1 DEF EndInv, Known, Inv, TypeOK
  <2>2. CASE q # r
    <3>1. row'[q] = row[q] /\ told'[q] = told[q] /\ (q \in cluster' => q \in cluster)
      BY <1>2, <1>5, <1>11, <1>12, <2>2 DEF Inv, TypeOK
    <3> QED
      BY <3>1 DEF EndInv, Known
  <2> QED
    BY <2>1, <2>2
<1>18. SettledKept
  BY <1>2, <1>11, <1>12, <1>13 DEF SettledKept
<1> QED
  BY <1>14, <1>15, <1>16, <1>17, <1>18 DEF EndInv

(* The replaced runs are tracked until they are stopped.                   *)
LEMMA StopReplacedEnds ==
    ASSUME Inv, EndInv, StopReplaced
    PROVE  EndInv' /\ SettledKept
<1> USE ModelRunsAssumption
<1>1. op \in Op /\ op.pc = "replace" /\ op.stops \subseteq cluster /\ nruns' = nruns
  BY DEF StopReplaced, Inv, TypeOK, EndInv, Loops, Phase
<1>2. CASE op.stops = {}
  <2>1. /\ op'.pc = "runners" /\ op'.seen = op.seen /\ op'.errors = op.errors
        /\ op'.lost = op.lost
    BY <1>1, <1>2 DEF StopReplaced, At, Op
  <2>2. row' = row /\ cluster' = cluster /\ told' = told
    BY <1>2 DEF StopReplaced
  <2>3. Owed' = Owed /\ Processing' = Processing
    BY <2>1 DEF Owed, OwedOf, Processing
  <2>4. InHand' /\ Loops'
    BY <1>1, <2>1, <2>2, <2>3 DEF EndInv, InHand, Loops, Phase
  <2>5. OwedEnds' /\ Known' /\ SettledKept
    BY <1>1, <2>2, <2>3, SameRowsEnds
  <2> QED
    BY <2>4, <2>5 DEF EndInv
<1>3. CASE op.stops # {}
  <2> DEFINE r    == Oldest(op.stops)
             next == [op EXCEPT !.stops = op.stops \ {r}]
  <2>1. op.stops \in SUBSET Runs
    BY <1>1 DEF Op
  <2>2. r \in cluster
    BY <1>1, <1>3, <2>1, OldestIsMember
  <2>3. /\ next \in Op /\ next.pc = "replace" /\ next.seen = op.seen
        /\ next.errors = op.errors /\ next.lost = op.lost /\ next.stops = op.stops \ {r}
    BY <1>1, <2>1 DEF Op
  <2>4. next = [op EXCEPT !.stops = @ \ {r}]
    BY <1>1 DEF Op
  <2>5. StopRun(r, next)
    BY <1>3, <2>4, Zenon DEF StopReplaced
  <2>6. OwedOf(next) \subseteq Owed
    BY <2>3 DEF OwedOf, Owed
  <2> HIDE DEF r, next
  <2> QED
    BY <1>1, <2>2, <2>3, <2>5, <2>6, StopRunEnds
<1> QED
  BY <1>2, <1>3

(* A loop ends.                                                            *)
LEMMA MoveOnEnds ==
    ASSUME Inv, EndInv, NEW point \in {"runner_errors", "builder_errors"},
           op' = At(op, point), UNCHANGED <<row, nruns, cluster, told>>
    PROVE  EndInv' /\ SettledKept
<1>1. op \in Op
  BY DEF Inv, TypeOK
<1>2. op'.pc = point /\ op'.errors = op.errors /\ op'.lost = op.lost
  BY <1>1 DEF At, Op
<1>3. InHand' /\ Loops' /\ Owed' = Owed
  BY <1>2 DEF InHand, Loops, Phase, Owed, OwedOf
<1>4. OwedEnds' /\ Known' /\ SettledKept
  BY <1>3, SameRowsEnds
<1> QED
  BY <1>3, <1>4 DEF EndInv

(* The clean-up of a run that is owed it.                                  *)
LEMMA HandleErrorsEnds ==
    ASSUME Inv, EndInv, HandleErrors
    PROVE  EndInv' /\ SettledKept
<1>1. op \in Op /\ op.pc \in {"runner_errors", "builder_errors"} /\ op.pc \in ErrorPoints
  BY DEF HandleErrors, Inv, TypeOK, ErrorPoints
<1>2. ASSUME NEW r \in Runs, NEW code \in ErrorType, NEW next \in Op, r \in Owed,
             next.pc = op.pc, OwedOf(next) \subseteq Owed, HandleError(r, code, next)
      PROVE  EndInv' /\ SettledKept
  <2>1. row[r].runner \notin {"RUNNING", "RECOVERING"}
    BY <1>2 DEF EndInv, OwedEnds
  <2>2. next.pc \in ErrorPoints /\ next.pc # "reports"
    BY <1>1, <1>2
  <2>3. nruns' = nruns /\ told' = told
    BY DEF HandleErrors
  <2> QED
    BY <1>2, <2>1, <2>2, <2>3, HandleErrorEnds
<1>3. CASE op.lost # {}
  <2> DEFINE r    == Oldest(op.lost)
             next == [op EXCEPT !.lost = op.lost \ {r}]
  <2>1. op.lost \in SUBSET Runs /\ "UNKNOWN" \in ErrorType
    BY <1>1 DEF Op, ErrorType, OrchestratorErrorType
  <2>2. r \in op.lost /\ r \in Runs
    BY <1>3, <2>1, OldestIsMember
  <2>3. next \in Op /\ next.pc = op.pc /\ next.errors = op.errors /\ next.lost = op.lost \ {r}
    BY <1>1, <2>1 DEF Op
  <2>4. next = [op EXCEPT !.lost = @ \ {Oldest(@)}]
    BY <1>1 DEF Op
  <2>5. HandleError(r, "UNKNOWN", next)
    BY <1>3, <2>4, Zenon DEF HandleErrors
  <2> HIDE DEF r, next
  <2>6. r \in Owed /\ OwedOf(next) \subseteq Owed
    BY <2>2, <2>3 DEF Owed, OwedOf
  <2> QED
    BY <1>2, <2>1, <2>2, <2>3, <2>5, <2>6
<1>4. CASE op.lost = {}
  <2> DEFINE error == Head(op.errors)
             next  == [op EXCEPT !.errors = Tail(op.errors)]
  <2>1. op.errors \in Seq(Error) /\ op.errors # <<>>
    BY <1>1, <1>4 DEF HandleErrors, Op
  <2>2. error \in Error /\ error.run \in Owed /\ Tail(op.errors) \in Seq(Error)
    BY <1>1, <2>1, OwedTypes DEF Owed
  <2>3. error.run \in Runs /\ error.code \in ErrorType
    BY <2>2 DEF Error
  <2>4. next \in Op /\ next.pc = op.pc
    BY <1>1, <2>2 DEF Op
  <2>5. next = [op EXCEPT !.errors = Tail(@)]
    BY <1>1 DEF Op
  <2>6. HandleError(error.run, error.code, next)
    BY <1>4, <2>5, Zenon DEF HandleErrors
  <2>7. OwedOf(next) \subseteq Owed
    BY <1>1, <2>1, <2>5, OwedTail DEF Owed
  <2> HIDE DEF error, next
  <2> QED
    BY <1>2, <2>2, <2>3, <2>4, <2>6, <2>7
<1> QED
  BY <1>3, <1>4

(* Nothing is owed any more.                                               *)
LEMMA ErrorsDoneEnds ==
    ASSUME Inv, EndInv, ErrorsDone
    PROVE  EndInv' /\ SettledKept
<1>1. CASE op' = [NoOp EXCEPT !.pc = "load_builds"]
  <2>1. op'.pc = "load_builds" /\ op'.lost = {} /\ op'.errors = <<>>
    BY <1>1 DEF NoOp
  <2>2. InHand' /\ Loops' /\ Owed' = {}
    BY <2>1 DEF InHand, Loops, Phase, Owed, OwedOf
  <2>3. OwedEnds' /\ Known' /\ SettledKept
    BY <2>2, SameRowsEnds DEF ErrorsDone
  <2> QED
    BY <2>2, <2>3 DEF EndInv
<1>2. CASE op' = NoOp
  BY <1>2, ReturnEnds DEF ErrorsDone
<1> QED
  BY <1>1, <1>2 DEF ErrorsDone

(* What is loaded from the Builder concerns runs without a status.         *)
LEMMA LoadBuilderStatesEnds ==
    ASSUME Inv, EndInv, LoadBuilderStates
    PROVE  EndInv' /\ SettledKept
<1> DEFINE seen == [r \in Runs |->
                      IF r \in ModelsInBuildPhase /\ BuildNews(r)
                      THEN [status |-> cloud[r].image, ip |-> 0]
                      ELSE Unseen[r]]
<1>1. op \in Op /\ op' = [op EXCEPT !.pc = "builders", !.seen = seen]
  BY DEF LoadBuilderStates, Inv, TypeOK
<1>2. \A r \in Runs : seen[r].status # NONE => row[r].runner = NONE
  BY DEF Unseen, ModelsInBuildPhase, InBuildPhase
<1> HIDE DEF seen
<1>3. /\ op'.pc = "builders" /\ op'.errors = op.errors /\ op'.lost = op.lost /\ op'.seen = seen
  BY <1>1 DEF Op
<1>4. row' = row /\ cluster' = cluster /\ nruns' = nruns /\ told' = told
  BY DEF LoadBuilderStates
<1>5. InHand' /\ Loops' /\ Owed' = Owed
  BY <1>2, <1>3, <1>4 DEF InHand, Loops, Phase, Processing, Owed, OwedOf
<1>6. OwedEnds' /\ Known' /\ SettledKept
  BY <1>4, <1>5, SameRowsEnds
<1> QED
  BY <1>5, <1>6 DEF EndInv

(* One build result is applied to its run, which has no status yet.        *)
LEMMA UpdateBuilderStateEnds ==
    ASSUME Inv, EndInv, UpdateBuilderState
    PROVE  EndInv' /\ SettledKept
<1> USE ModelRunsAssumption
<1> DEFINE r     == Oldest(Processing)
           s     == op.seen[r].status
           next  == [op EXCEPT !.seen[r] = Unseen[r]]
           built == [row[r] EXCEPT !.builder = s]
<1>1. r \in Processing
  <2>1. Processing \in SUBSET Runs /\ Processing # {}
    BY DEF UpdateBuilderState, Processing
  <2> QED
    BY <2>1, OldestIsMember
<1>2. /\ r \in Runs /\ r \in cluster /\ s \in BuilderStatus
      /\ op.pc = "builders" /\ op \in Op /\ row[r] \in ModelRun /\ row[r].runner = NONE
  BY <1>1 DEF UpdateBuilderState, Inv, CallInv, Phase, Processing, TypeOK, EndInv, Loops
<1>3. /\ next \in Op /\ next.pc = "builders" /\ next.seen = [op.seen EXCEPT ![r] = Unseen[r]]
      /\ next.errors = op.errors /\ next.lost = op.lost
  <2>1. Unseen[r] \in [status : RunnerStatus \cup BuilderStatus \cup {NONE}, ip : 0..MaxAddr]
    BY <1>2 DEF Unseen
  <2>2. [op.seen EXCEPT ![r] = Unseen[r]] \in [Runs ->
            [status : RunnerStatus \cup BuilderStatus \cup {NONE}, ip : 0..MaxAddr]]
    BY <1>2, <2>1 DEF Op
  <2>3. next = [op EXCEPT !.seen = [op.seen EXCEPT ![r] = Unseen[r]]]
    BY <1>2 DEF Op
  <2> QED
    BY <1>2, <2>2, <2>3 DEF Op
<1>4. /\ built \in ModelRun /\ built.desired = row[r].desired /\ built.runner = row[r].runner
      /\ built.job = row[r].job
  BY <1>2 DEF ModelRun
<1>5. \/ RunModel(r, built, next)
      \/ row' = [row EXCEPT ![r] = built] /\ op' = AfterBuild(r, s, next)
  BY Zenon DEF UpdateBuilderState
<1>6. cluster' = cluster /\ nruns' = nruns /\ told' = told
  BY DEF UpdateBuilderState
<1>7. OwedOf(next) = Owed
  BY <1>3 DEF OwedOf, Owed
<1> HIDE DEF r, s, next, built
<1>8. CASE RunModel(r, built, next)
  <2>1. next.seen[r] = Unseen[r] /\ \A x \in Runs : next.seen[x] \in {op.seen[x], Unseen[x]}
    BY <1>2, <1>3 DEF Op
  <2> QED
    BY <1>2, <1>3, <1>4, <1>6, <1>7, <1>8, <2>1, RunModelEnds
<1>9. CASE row' = [row EXCEPT ![r] = built] /\ op' = AfterBuild(r, s, next)
  <2>1. \A q \in Runs : /\ row'[q].runner = row[q].runner /\ row'[q].desired = row[q].desired
                        /\ row'[q].job = row[q].job
    BY <1>2, <1>4, <1>9 DEF Inv, TypeOK
  <2>2. /\ op'.pc = "builders" /\ op'.seen = next.seen
        /\ OwedOf(op') \subseteq Owed \cup {r}
    <3>1. "BUILD_FAILED" \in ErrorType
      BY DEF ErrorType, OrchestratorErrorType
    <3> QED
      BY <1>2, <1>3, <1>7, <1>9, <3>1, RaiseType, OwedRaise DEF AfterBuild
  <2>3. Owed' \subseteq Owed \cup {r} /\ Owed \subseteq Runs /\ 1..nruns \subseteq Runs
    <3>1. Owed' \subseteq Owed \cup {r}
      BY <2>2 DEF Owed, OwedOf
    <3>2. Owed \subseteq Runs /\ 1..nruns \subseteq Runs
      BY OwedTypes DEF Owed, Inv, TypeOK, Runs
    <3> QED
      BY <3>1, <3>2
  <2>4. InHand'
    BY <2>2 DEF InHand
  <2>5. Loops'
    <3>1. Processing' \subseteq Processing /\ Processing \subseteq Runs
      BY <1>2, <1>3, <2>2 DEF Processing, Unseen, Op
    <3>2. \A q \in Processing : row[q].runner = NONE
      BY <1>2 DEF EndInv, Loops, Phase
    <3> QED
      BY <2>1, <2>2, <3>1, <3>2 DEF Loops, Phase
  <2>6. r <= nruns
    BY <1>2 DEF EndInv, Known
  <2>7. OwedEnds'
    BY <1>2, <1>6, <2>1, <2>3, <2>6 DEF EndInv, OwedEnds, NONE
  <2>8. Known' /\ SettledKept
    BY <1>6, <2>1, <2>3 DEF EndInv, Known, SettledKept
  <2> QED
    BY <2>4, <2>5, <2>7, <2>8 DEF EndInv
<1> QED
  BY <1>5, <1>8, <1>9

(* A restart tracks no run that was not, and forgets what was owed.        *)
LEMMA CrashEnds ==
    ASSUME Inv, EndInv, Crash
    PROVE  EndInv' /\ SettledKept
<1>1. row' = row /\ nruns' = nruns /\ cluster' \subseteq cluster /\ op' = NoOp
  BY DEF Crash, Inv, ActiveRunsTracked
<1>2. \A r \in Runs : told'[r] \in {"RUNNING", "RECOVERING"} => row[r].runner = told'[r]
  BY DEF Crash, RunningModels, NONE
<1>3. InHand' /\ Loops' /\ Owed' = {}
  BY <1>1, NoOpEnds
<1>4. OwedEnds' /\ Known' /\ SettledKept
  BY <1>1, <1>2, <1>3 DEF EndInv, OwedEnds, Known, SettledKept
<1> QED
  BY <1>3, <1>4 DEF EndInv

-----------------------------------------------------------------------------
(* The next step of the call that holds the lock, when no stop raises.     *)
LEMMA ProceedEnds ==
    ASSUME Inv, EndInv, Proceed, "stop" \notin Faults
    PROVE  EndInv' /\ SettledKept
<1>1. CASE IsBuilt \/ Build \/ BuildRaises \/ Run \/ RunRaises \/ Launched
  <2>1. Build => EndInv' /\ SettledKept
    BY ReturnEnds DEF Build
  <2> QED
    BY <1>1, <2>1, IsBuiltEnds, BuildRaisesEnds, RunEnds, RunRaisesEnds, LaunchedEnds
<1>2. CASE Halt \/ Stop \/ StopRaises \/ HandleReport \/ UpdateModelsInfo
  <2>1. ~StopRaises
    BY DEF StopRaises
  <2> QED
    BY <1>2, <2>1, HaltEnds, StopEnds, HandleReportEnds, UpdateModelsInfoEnds
<1>3. CASE \/ LoadRunnerStates \/ LoadRunnerStatesRaises
           \/ UpdateRunnerState \/ StopReplaced \/ RunnerStatesDone
  <2>1. RunnerStatesDone => EndInv' /\ SettledKept
    BY MoveOnEnds DEF RunnerStatesDone
  <2> QED
    BY <1>3, <2>1, LoadRunnerStatesEnds, LoadRunnerStatesRaisesEnds, UpdateRunnerStateEnds,
       StopReplacedEnds
<1>4. CASE \/ HandleErrors \/ ErrorsDone \/ LoadBuilderStates \/ LoadBuilderStatesRaises
           \/ UpdateBuilderState \/ BuilderStatesDone
  <2>1. LoadBuilderStatesRaises => EndInv' /\ SettledKept
    BY ReturnEnds DEF LoadBuilderStatesRaises
  <2>2. BuilderStatesDone => EndInv' /\ SettledKept
    BY MoveOnEnds DEF BuilderStatesDone
  <2> QED
    BY <1>4, <2>1, <2>2, HandleErrorsEnds, ErrorsDoneEnds, LoadBuilderStatesEnds,
       UpdateBuilderStateEnds
<1> QED
  BY <1>1, <1>2, <1>3, <1>4 DEF Proceed

(* Every step keeps the invariant and leaves settled runs alone.           *)
LEMMA NextEnds ==
    ASSUME Inv, EndInv, [Next]_vars, "stop" \notin Faults
    PROVE  EndInv' /\ SettledKept
<1>1. CASE \E m \in Models, c \in Configs : StartModel(m, c)
  BY <1>1, StartModelEnds
<1>2. CASE \E m \in Models : StopModel(m)
  BY <1>2, StopModelEnds
<1>3. CASE UpdatesStates
  <2>1. op'.pc = "reports" /\ op'.lost = {} /\ op'.errors = <<>>
    BY <1>3 DEF UpdatesStates, NoOp
  <2>2. InHand' /\ Loops' /\ Owed' = {}
    BY <2>1 DEF InHand, Loops, Phase, Owed, OwedOf
  <2>3. OwedEnds' /\ Known' /\ SettledKept
    BY <1>3, <2>2, SameRowsEnds DEF UpdatesStates
  <2> QED
    BY <2>2, <2>3 DEF EndInv
<1>4. CASE GetAllModels
  <2>1. \A r \in Runs : told'[r] = told[r] \/ told'[r] = row[r].runner
    BY <1>4, TellRunningEnds DEF GetAllModels
  <2> QED
    BY <1>4, <2>1, SameCallEnds DEF GetAllModels
<1>5. CASE Proceed
  BY <1>5, ProceedEnds
<1>6. CASE Environment
  <2>1. CASE Crash
    BY <2>1, CrashEnds
  <2>2. CASE ~Crash
    <3>1. UNCHANGED <<row, cluster, op, nruns, told>>
      BY <1>6, <2>2 DEF Environment, TaskMove, ImageMove, ReportModelRunnerFailure
    <3> QED
      BY <3>1, SameCallEnds
  <2> QED
    BY <2>1, <2>2
<1>7. CASE UNCHANGED vars
  BY <1>7, SameCallEnds DEF vars
<1> QED
  BY <1>1, <1>2, <1>3, <1>4, <1>5, <1>6, <1>7 DEF Next

(* When no stop raises, only tracked runs are in hand, to be stopped or    *)
(* announced as up, and a run with an error is not up.                     *)
THEOREM EndInvariance ==
    ASSUME "stop" \notin Faults
    PROVE  Spec => []EndInv
<1>1. Init => EndInv
  BY InitEnds
<1>2. Inv /\ EndInv /\ [Next]_vars => EndInv'
  BY NextEnds
<1> QED
  BY <1>1, <1>2, Invariance, PTL DEF Spec

(* When no stop raises, a run that has left the cluster as STOPPED or      *)
(* FAILED is never tracked, stopped or given a status again, whatever is   *)
(* reported late, whichever other calls raise and whenever the process     *)
(* restarts.                                                               *)
THEOREM NothingTouchedAgain ==
    ASSUME "stop" \notin Faults
    PROVE  Spec => SettledForever
<1>1. Inv /\ EndInv /\ [Next]_vars =>
        [\A r \in 1..nruns :
            r \notin cluster /\ row[r].runner \in {"STOPPED", "FAILED"} =>
                /\ r \notin cluster'
                /\ row'[r].desired = row[r].desired
                /\ row'[r].runner = row[r].runner]_vars
  BY NextEnds DEF SettledKept
<1> QED
  BY <1>1, Invariance, EndInvariance, PTL DEF Spec, SettledForever

(* When no stop raises, no run that is not tracked was last announced as   *)
(* up or coming up: what is announced as up is active, and what is active  *)
(* is tracked.                                                             *)
THEOREM NoGhosts ==
    ASSUME "stop" \notin Faults
    PROVE  Spec => []NoGhostAnnounced
<1>1. Inv /\ EndInv => NoGhostAnnounced
  <2> SUFFICES ASSUME Inv, EndInv, NEW r \in (1..nruns) \ cluster,
                      told[r] \in {"RUNNING", "RECOVERING"}
               PROVE  FALSE
    BY DEF NoGhostAnnounced
  <2>1. r \in Runs
    BY ModelRunsAssumption DEF Inv, TypeOK, Runs
  <2>2. row[r].runner \in {"RUNNING", "RECOVERING"}
    BY <2>1 DEF EndInv, Known
  <2>3. r \in LoadActive
    BY <2>1, <2>2 DEF LoadActive, NONE
  <2> QED
    BY <2>3 DEF Inv, ActiveRunsTracked
<1> QED
  BY <1>1, Invariance, EndInvariance, PTL

-----------------------------------------------------------------------------
(* What a call has done by the time it returns, as long as the process     *)
(* does not restart in the middle of it.                                   *)

(* Only runs that were created are tracked.                                *)
CreatedOnly == cluster \subseteq 1..nruns

(* A launch belongs to start_model or to the loop over builds.             *)
Launching ==
    /\ op.pc \in {"is_built", "build"} => op.ret = "idle"
    /\ op.pc \in {"run", "launched"} =>
            /\ op.ret \in {"idle", "builders"}
            /\ row[op.cur].runner = "INITIALIZING"

(* A run is FAILED before it has a failure only as long as it is tracked.  *)
Explained == \A r \in Runs : row[r].runner = "FAILED" => HasFailed(row[r]) \/ r \in cluster

(* Only a run with a failure is cleaned up without one.                    *)
RecordedIn(o, rows) ==
    \A i \in 1..Len(o.errors) :
        o.errors[i].code = "STOP_BEFORE_CLEANUP" => HasFailed(rows[o.errors[i].run])
Recorded == RecordedIn(op, row)

(* A tracked run with a failure is to be stopped, or the next to be.       *)
Halted ==
    \A r \in cluster :
        HasFailed(row[r]) => row[r].desired = "STOPPED" \/ (op.pc = "halt" /\ op.cur = r)

(* A run that is wanted and not settled is tracked.                        *)
Kept ==
    \A r \in 1..nruns :
        r \in cluster \/ row[r].desired = "STOPPED" \/ row[r].runner \in {"STOPPED", "FAILED"}

(* A run that is replaced by one that is RUNNING is among the next to be   *)
(* stopped.                                                                *)
Retiring ==
    \A r, s \in cluster :
        SameModel(r, s) /\ row[r].desired = "REPLACING" /\ row[s].desired = "RUNNING"
            => row[s].runner # "RUNNING" \/ (Phase = "replace" /\ r \in op.stops)

(* Unless a launch may raise, the observers know the status of every       *)
(* tracked run that is not being stopped, but for the one being launched.  *)
Announced ==
    "run" \notin Faults =>
        \A r \in cluster :
            InRunPhase(row[r]) /\ row[r].desired # "STOPPED" =>
                told[r] = row[r].runner \/ (op.pc \in {"run", "launched"} /\ op.cur = r)

FollowInv ==
    /\ CreatedOnly /\ Launching /\ Explained /\ Recorded
    /\ Halted /\ Kept /\ Retiring /\ Announced

(* The list of errors gets shorter, and failures are not erased.           *)
LEMMA RecordedKept ==
    ASSUME NEW o \in Op, NEW p \in Op, NEW rows, NEW later, RecordedIn(o, rows),
           \/ p.errors = o.errors
           \/ p.errors = <<>>
           \/ o.errors # <<>> /\ p.errors = Tail(o.errors),
           \A r \in Runs : HasFailed(rows[r]) => HasFailed(later[r])
    PROVE  RecordedIn(p, later)
<1>1. o.errors \in Seq(Error)
  BY DEF Op
<1>2. \A i \in 1..Len(o.errors) : o.errors[i] \in Error
  BY <1>1
<1>3. \A i \in 1..Len(o.errors) : o.errors[i].run \in Runs
  BY <1>2 DEF Error
<1>4. CASE p.errors = o.errors
  BY <1>3, <1>4 DEF RecordedIn
<1>5. CASE p.errors = <<>>
  BY <1>5 DEF RecordedIn
<1>6. CASE o.errors # <<>> /\ p.errors = Tail(o.errors)
  <2>1. \A i \in 1..Len(p.errors) : i + 1 \in 1..Len(o.errors) /\ p.errors[i] = o.errors[i + 1]
    BY <1>1, <1>6
  <2> QED
    BY <1>3, <2>1 DEF RecordedIn
<1> QED
  BY <1>4, <1>5, <1>6

(* One error more.                                                         *)
LEMMA RecordedRaise ==
    ASSUME NEW o \in Op, NEW r \in Runs, NEW code \in ErrorType, NEW rows,
           RecordedIn(o, rows), code = "STOP_BEFORE_CLEANUP" => HasFailed(rows[r])
    PROVE  RecordedIn(Raise(o, r, code), rows)
<1> DEFINE error  == [run |-> r, code |-> code]
           errors == Append(o.errors, error)
           raised == Raise(o, r, code)
<1>1. o.errors \in Seq(Error) /\ error \in Error
  BY DEF Op, Error
<1>2. raised.errors = errors
  BY DEF Raise, Op
<1>3. /\ Len(errors) = Len(o.errors) + 1 /\ Len(o.errors) \in Nat
      /\ errors[Len(errors)] = error
      /\ \A i \in 1..Len(o.errors) : errors[i] = o.errors[i]
  BY <1>1
<1>4. error.run = r /\ error.code = code
  OBVIOUS
<1> HIDE DEF error, errors, raised
<1>5. \A i \in 1..Len(errors) : errors[i] = error \/ (i \in 1..Len(o.errors) /\ errors[i] = o.errors[i])
  BY <1>3
<1>6. RecordedIn(raised, rows)
  BY <1>2, <1>4, <1>5 DEF RecordedIn
<1> QED
  BY <1>6 DEF raised

(* A step that touches one run and takes it forward.                       *)
LEMMA OneRunFollows ==
    ASSUME Inv, FollowInv, NEW r \in Runs, nruns' = nruns,
           \A q \in Runs \ {r} : row'[q] = row[q],
           cluster' \in {cluster, cluster \ {r}},
           HasFailed(row[r]) => HasFailed(row'[r]),
           row'[r].runner = "FAILED" => HasFailed(row'[r]) \/ r \in cluster',
           r \in cluster' \/ row'[r].desired = "STOPPED" \/ row'[r].runner \in {"STOPPED", "FAILED"},
           r \in cluster' /\ HasFailed(row'[r]) =>
                row'[r].desired = "STOPPED" \/ (op'.pc = "halt" /\ op'.cur = r),
           op.pc = "halt" => op.cur = r
    PROVE  CreatedOnly' /\ Explained' /\ Halted' /\ Kept'
<1>1. cluster \subseteq Runs /\ 1..nruns \subseteq Runs
  BY ModelRunsAssumption DEF Inv, TypeOK, Runs
<1>2. CreatedOnly'
  BY DEF FollowInv, CreatedOnly
<1>3. Explained'
  BY DEF FollowInv, Explained
<1>4. Halted'
  BY <1>1 DEF FollowInv, Halted
<1>5. Kept'
  BY <1>1 DEF FollowInv, Kept
<1> QED
  BY <1>2, <1>3, <1>4, <1>5

(* No run becomes RUNNING, and no run that is to be retired is dropped.    *)
LEMMA RetiringKept ==
    ASSUME Inv, Retiring, cluster' \subseteq cluster,
           \A q \in cluster' : /\ row'[q].model = row[q].model
                               /\ row'[q].desired \in {row[q].desired, "STOPPED"}
                               /\ row'[q].runner = "RUNNING" => row[q].runner = "RUNNING",
           \A q \in cluster' : Phase = "replace" /\ q \in op.stops =>
                                  \/ Phase' = "replace" /\ q \in op'.stops
                                  \/ row'[q].desired = "STOPPED"
    PROVE  Retiring'
BY DEF Retiring, SameModel

(* The observers are told what the status is, or the status is the same.   *)
LEMMA AnnouncedKept ==
    ASSUME Inv, Announced, cluster' \subseteq cluster,
           op.pc \in {"run", "launched"} =>
                \/ "run" \in Faults
                \/ op'.pc \in {"run", "launched"} /\ op'.cur = op.cur
                \/ told'[op.cur] = row'[op.cur].runner,
           \A q \in cluster' :
                \/ /\ row'[q].runner = row[q].runner
                   /\ row'[q].desired = row[q].desired
                   /\ told'[q] = told[q] \/ told'[q] = row[q].runner
                \/ row'[q].desired = "STOPPED"
                \/ told'[q] = row'[q].runner
                \/ op'.pc \in {"run", "launched"} /\ op'.cur = q
    PROVE  Announced'
BY DEF Announced, InRunPhase

(* handle_error.                                                           *)
LEMMA HandleErrorFollows ==
    ASSUME Inv, Inv', FollowInv, NEW r \in Runs, NEW code \in ErrorType, NEW next \in Op,
           next.pc \in ErrorPoints,
           \/ next.errors = op.errors
           \/ next.errors = <<>>
           \/ op.errors # <<>> /\ next.errors = Tail(op.errors),
           code = "STOP_BEFORE_CLEANUP" => HasFailed(row[r]),
           Phase # "replace", op.pc # "halt",
           op.pc \in {"run", "launched"} => "run" \in Faults,
           HandleError(r, code, next), nruns' = nruns, told' = told
    PROVE  FollowInv'
<1>1. /\ row \in [Runs -> ModelRun] /\ cluster \subseteq Runs /\ op \in Op /\ op' \in Op
      /\ WithFailure(row[r], code) \in ModelRun
  BY WithFailureType DEF Inv, TypeOK
<1>2. code # NONE
  BY DEF ErrorType, CloudProviderErrorType, ModelRunnerErrorType, OrchestratorErrorType, NONE
<1>3. /\ WithFailure(row[r], code).desired = row[r].desired
      /\ WithFailure(row[r], code).runner = row[r].runner
      /\ WithFailure(row[r], code).model = row[r].model
      /\ HasFailed(WithFailure(row[r], code))
  BY <1>1, <1>2 DEF WithFailure, ModelRun, HasFailed
<1>4. ASSUME NEW run \in ModelRun, run.desired = row[r].desired, run.model = row[r].model,
             HasFailed(run), FinalizeModelCleanup(r, run, next)
      PROVE  FollowInv'
  <2>1. /\ row'[r].runner = "FAILED" /\ row'[r].desired = row[r].desired
        /\ row'[r].model = row[r].model /\ HasFailed(row'[r])
        /\ \A q \in Runs \ {r} : row'[q] = row[q]
        /\ cluster' = cluster \ {r} /\ op' = next
    BY <1>1, <1>4 DEF FinalizeModelCleanup, ModelRun, HasFailed
  <2>2. CreatedOnly' /\ Explained' /\ Halted' /\ Kept'
    BY <2>1, OneRunFollows
  <2>3. Launching'
    BY <2>1 DEF Launching, ErrorPoints
  <2>4. Recorded'
    BY <1>1, <2>1, RecordedKept DEF FollowInv, Recorded
  <2>5. Retiring'
    BY <1>1, <2>1, RetiringKept DEF FollowInv
  <2>6. Announced'
    BY <1>1, <2>1, AnnouncedKept DEF FollowInv
  <2> QED
    BY <2>2, <2>3, <2>4, <2>5, <2>6 DEF FollowInv
<1>5. ASSUME row' = [row EXCEPT ![r] = WithFailure(row[r], code)],
             op' = [next EXCEPT !.pc = "halt", !.ret = next.pc, !.cur = r],
             cluster' = cluster, IsRunActive(row[r])
      PROVE  FollowInv'
  <2>1. r \in cluster
    BY <1>5 DEF IsRunActive, Inv, ActiveRunsTracked, LoadActive, NONE
  <2>2. /\ \A q \in Runs \ {r} : row'[q] = row[q]
        /\ row'[r] = WithFailure(row[r], code)
    BY <1>1, <1>5
  <2>3. op'.pc = "halt" /\ op'.cur = r /\ op'.errors = next.errors
    BY <1>5 DEF Op
  <2>4. CreatedOnly' /\ Explained' /\ Halted' /\ Kept'
    BY <1>3, <1>5, <2>1, <2>2, <2>3, OneRunFollows
  <2>5. Launching'
    BY <2>3 DEF Launching
  <2>6. Recorded'
    BY <1>1, <1>3, <2>2, <2>3, RecordedKept DEF FollowInv, Recorded
  <2>7. Retiring'
    BY <1>1, <1>3, <1>5, <2>2, RetiringKept DEF FollowInv
  <2>8. Announced'
    BY <1>1, <1>3, <1>5, <2>2, AnnouncedKept DEF FollowInv
  <2> QED
    BY <2>4, <2>5, <2>6, <2>7, <2>8 DEF FollowInv
<1>6. CASE code = "STOP_BEFORE_CLEANUP"
  BY <1>1, <1>4, <1>6 DEF HandleError
<1>7. CASE code # "STOP_BEFORE_CLEANUP" /\ IsRunActive(row[r]) /\ code \notin CloudProviderErrorType
  BY <1>5, <1>7 DEF HandleError
<1>8. CASE /\ code # "STOP_BEFORE_CLEANUP"
           /\ ~(IsRunActive(row[r]) /\ code \notin CloudProviderErrorType)
  <2>1. FinalizeModelCleanup(r, WithFailure(row[r], code), next)
    BY <1>8 DEF HandleError
  <2> QED
    BY <2>1, <1>1, <1>3, <1>4
<1> QED
  BY <1>6, <1>7, <1>8

(* _RunService.stop_model.                                                 *)
LEMMA StopRunFollows ==
    ASSUME Inv, Inv', FollowInv, NEW r \in Runs, NEW next \in Op, next.errors = op.errors \/ next.errors = <<>>,
           op.pc \notin {"run", "launched"}, op.pc = "halt" => op.cur = r,
           \/ next.pc \in ErrorPoints /\ Phase # "replace"
           \/ next.pc = "replace" /\ op.pc = "replace" /\ next.stops = op.stops \ {r},
           StopRun(r, next), nruns' = nruns
    PROVE  FollowInv'
<1>1. row \in [Runs -> ModelRun] /\ cluster \subseteq Runs /\ op \in Op /\ op' \in Op
  BY DEF Inv, TypeOK
<1>2. /\ row'[r].desired = "STOPPED" /\ row'[r].runner = row[r].runner
      /\ row'[r].model = row[r].model /\ row'[r].failure = row[r].failure
      /\ \A q \in Runs \ {r} : row'[q] = row[q]
  BY <1>1 DEF StopRun, ModelRun
<1>3. \/ cluster' = cluster
      \/ cluster' = cluster \ {r} /\ row[r].runner = NONE
  BY DEF StopRun, InRunPhase
<1>4. /\ op'.pc \in {"stop", next.pc} /\ op'.errors = next.errors /\ op'.stops = next.stops
      /\ op'.pc = "stop" => op'.ret = next.pc
  <2>1. CASE op' = next
    BY <2>1 DEF ErrorPoints
  <2>2. CASE op' = [next EXCEPT !.pc = "stop", !.ret = next.pc, !.cur = r]
    BY <2>2 DEF Op
  <2> QED
    BY <2>1, <2>2 DEF StopRun
<1>5. Phase' = next.pc
  BY <1>4 DEF Phase, ErrorPoints
<1>6. \A q \in Runs \ {r} : told'[q] = told[q]
  BY <1>1 DEF StopRun, Tell, Inv, TypeOK
<1>7. CreatedOnly' /\ Explained' /\ Halted' /\ Kept'
  <2>1. row[r].runner = "FAILED" => HasFailed(row[r]) \/ r \in cluster
    BY DEF FollowInv, Explained
  <2> QED
    BY <1>2, <1>3, <2>1, OneRunFollows DEF HasFailed, NONE
<1>8. Launching'
  BY <1>4 DEF Launching, ErrorPoints
<1>9. Recorded'
  BY <1>1, <1>2, <1>4, RecordedKept DEF FollowInv, Recorded, HasFailed
<1>10. Retiring'
  <2>1. \A q \in cluster' : Phase = "replace" /\ q \in op.stops =>
                               \/ Phase' = "replace" /\ q \in op'.stops
                               \/ row'[q].desired = "STOPPED"
    BY <1>2, <1>4, <1>5
  <2> QED
    BY <1>1, <1>2, <1>3, <2>1, RetiringKept DEF FollowInv
<1>11. Announced'
  BY <1>1, <1>2, <1>3, <1>6, AnnouncedKept DEF FollowInv
<1> QED
  BY <1>7, <1>8, <1>9, <1>10, <1>11 DEF FollowInv

(* run_model.                                                              *)
LEMMA RunModelFollows ==
    ASSUME Inv, Inv', FollowInv, NEW r \in cluster, NEW run \in ModelRun,
           run.model = row[r].model, run.desired = row[r].desired, run.failure = row[r].failure,
           NEW next \in Op, next.pc \in {"idle", "builders"}, next.errors = op.errors,
           op.pc \in {"is_built", "builders"}, Phase # "replace",
           RunModel(r, run, next), cluster' = cluster, nruns' = nruns, told' = told
    PROVE  FollowInv'
<1>1. row \in [Runs -> ModelRun] /\ cluster \subseteq Runs /\ r \in Runs /\ op \in Op /\ op' \in Op
  BY DEF Inv, TypeOK
<1>2. /\ row'[r].runner = "INITIALIZING" /\ row'[r].desired = row[r].desired
      /\ row'[r].model = row[r].model /\ row'[r].failure = row[r].failure
      /\ \A q \in Runs \ {r} : row'[q] = row[q]
  BY <1>1 DEF RunModel, ModelRun
<1>3. op'.pc = "run" /\ op'.ret = next.pc /\ op'.cur = r /\ op'.errors = next.errors
  BY DEF RunModel, Op
<1>4. CreatedOnly' /\ Explained' /\ Halted' /\ Kept'
  <2>1. HasFailed(row[r]) => row[r].desired = "STOPPED"
    BY DEF FollowInv, Halted
  <2> QED
    BY <1>1, <1>2, <1>3, <2>1, OneRunFollows DEF HasFailed
<1>5. Launching'
  BY <1>2, <1>3 DEF Launching
<1>6. Recorded'
  BY <1>1, <1>2, <1>3, RecordedKept DEF FollowInv, Recorded, HasFailed
<1>7. Retiring'
  BY <1>1, <1>2, RetiringKept DEF FollowInv
<1>8. Announced'
  BY <1>1, <1>2, <1>3, AnnouncedKept DEF FollowInv
<1> QED
  BY <1>4, <1>5, <1>6, <1>7, <1>8 DEF FollowInv

(* A step that only moves the call on.                                     *)
LEMMA SameRunsFollows ==
    ASSUME Inv, Inv', FollowInv, cluster' = cluster, nruns' = nruns,
           \A r \in Runs : /\ row'[r].model = row[r].model /\ row'[r].desired = row[r].desired
                           /\ row'[r].runner = row[r].runner /\ row'[r].failure = row[r].failure,
           Launching', Recorded', op.pc # "halt" \/ op' = op,
           Phase = "replace" => op.stops = {} \/ (Phase' = "replace" /\ op'.stops = op.stops),
           \A r \in Runs : told'[r] = told[r] \/ told'[r] = row[r].runner,
           op.pc \in {"run", "launched"} =>
                \/ "run" \in Faults
                \/ op'.pc \in {"run", "launched"} /\ op'.cur = op.cur
                \/ told'[op.cur] = row'[op.cur].runner
    PROVE  FollowInv'
<1>1. cluster \subseteq Runs /\ 1..nruns \subseteq Runs
  BY ModelRunsAssumption DEF Inv, TypeOK, Runs
<1>2. CreatedOnly' /\ Explained' /\ Kept'
  BY <1>1 DEF FollowInv, CreatedOnly, Explained, Kept, HasFailed
<1>3. Halted'
  BY <1>1 DEF FollowInv, Halted, HasFailed
<1>4. Retiring'
  BY <1>1, RetiringKept DEF FollowInv
<1>5. Announced'
  BY <1>1, AnnouncedKept DEF FollowInv
<1> QED
  BY <1>2, <1>3, <1>4, <1>5 DEF FollowInv

(* Nothing has been created yet.                                           *)
LEMMA InitFollows ==
    ASSUME Init
    PROVE  FollowInv
<1>1. /\ op.pc = "idle" /\ op.errors = <<>> /\ cluster = {} /\ nruns = 0
      /\ \A r \in Runs : row[r].runner = NONE
  BY DEF Init, NoOp, Blank
<1>2. CreatedOnly /\ Launching /\ Halted /\ Retiring /\ Announced
  BY <1>1 DEF CreatedOnly, Launching, Halted, Retiring, Announced
<1>3. Explained /\ Recorded /\ Kept
  BY <1>1 DEF Explained, Recorded, RecordedIn, Kept, NONE
<1> QED
  BY <1>2, <1>3 DEF FollowInv

(* A new run has no failure and no status, unless it is refused; it takes  *)
(* the place of the only wanted run.                                       *)
LEMMA StartModelFollows ==
    ASSUME Inv, Inv', FollowInv, NEW m \in Models, NEW c \in Configs, StartModel(m, c)
    PROVE  FollowInv'
<1> USE ModelRunsAssumption
<1> DEFINE new  == nruns + 1
           rows == [r \in Runs |-> IF r \in Replaced(m)
                                   THEN [row[r] EXCEPT !.desired = "REPLACING"]
                                   ELSE row[r]]
           first   == NewRun(m, c)
           refused == [first EXCEPT !.failure = "IN_QUARANTINE", !.runner = "FAILED"]
<1>1. new \in Runs /\ nruns \in Nat /\ new \notin 1..nruns /\ op.pc = "idle"
      /\ 1..new = 1..nruns \cup {new} /\ 1..nruns \subseteq Runs
  BY DEF StartModel, Inv, TypeOK, Runs
<1>2. cluster \subseteq Runs /\ row \in [Runs -> ModelRun] /\ new \notin cluster
  BY <1>1 DEF Inv, TypeOK, FollowInv, CreatedOnly
<1>3. \A r \in Replaced(m) : r \in cluster /\ row[r].model = m /\ row[r].desired = "RUNNING"
  <2>1. ModelsByIdAndDesired(m, {"RUNNING"}) \in SUBSET Runs
    BY <1>2 DEF ModelsByIdAndDesired
  <2>2. ModelsByIdAndDesired(m, {"RUNNING"}) # {} =>
            Oldest(ModelsByIdAndDesired(m, {"RUNNING"})) \in ModelsByIdAndDesired(m, {"RUNNING"})
    BY <2>1, OldestIsMember
  <2> QED
    BY <2>2 DEF Replaced, ModelsByIdAndDesired
<1>4. \A r \in Runs : /\ rows[r].runner = row[r].runner /\ rows[r].model = row[r].model
                      /\ rows[r].failure = row[r].failure
                      /\ rows[r].desired = IF r \in Replaced(m) THEN "REPLACING" ELSE row[r].desired
  BY <1>2 DEF ModelRun
(* Of the runs of the model, only the one that is replaced was wanted.     *)
<1>5. ASSUME NEW s \in cluster, rows[s].model = m, rows[s].desired = "RUNNING"
      PROVE  FALSE
  <2>1. s \in Runs /\ row[s].model = m /\ row[s].desired = "RUNNING" /\ s \notin Replaced(m)
    BY <1>2, <1>4, <1>5
  <2>2. ModelsByIdAndDesired(m, {"RUNNING"}) = {s}
    BY <2>1 DEF ModelsByIdAndDesired, Inv, OneWantedRun, SameModel
  <2>3. Oldest({s}) = s
    BY <2>1, OldestIsMember
  <2> QED
    BY <2>1, <2>2, <2>3, Zenon DEF Replaced
<1>6. /\ DOMAIN rows = Runs
      /\ first.model = m /\ first.desired = "RUNNING" /\ first.runner = NONE /\ first.failure = NONE
      /\ refused.runner = "FAILED" /\ refused.failure = "IN_QUARANTINE"
  BY DEF NewRun, Blank
<1>7. nruns' = new /\ told' = told
  BY DEF StartModel
<1> DEFINE last == row'[new]
<1>8. /\ \A r \in Runs \ {new} : row'[r] = rows[r]
      /\ \/ last = refused /\ cluster' = cluster /\ op' = op
         \/ /\ last = first /\ cluster' = cluster \cup {new}
            /\ op' = [NoOp EXCEPT !.pc = "is_built", !.cur = new]
  <2> HIDE DEF new, rows, refused
  <2>1. \/ row' = [rows EXCEPT ![new] = refused] /\ cluster' = cluster /\ op' = op
        \/ /\ row' = [rows EXCEPT ![new] = first] /\ cluster' = cluster \cup {new}
           /\ op' = [NoOp EXCEPT !.pc = "is_built", !.cur = new]
    BY Zenon DEF StartModel, new, rows, first, refused
  <2> HIDE DEF first
  <2> QED
    BY <1>1, <1>6, <2>1
<1> HIDE DEF new, rows, first, refused, last
<1>9. CreatedOnly'
  BY <1>1, <1>7, <1>8 DEF FollowInv, CreatedOnly
<1>10. /\ op'.pc \in {"idle", "is_built"} /\ (op'.pc = "is_built" => op'.ret = "idle")
       /\ op'.errors = op.errors \/ op'.errors = <<>>
  BY <1>1, <1>8 DEF NoOp
<1>11. Launching'
  BY <1>10 DEF Launching
<1>12. Explained'
  <2> SUFFICES ASSUME NEW r \in Runs, row'[r].runner = "FAILED"
               PROVE  HasFailed(row'[r]) \/ r \in cluster'
    BY DEF Explained
  <2>1. CASE r = new
    BY <1>6, <1>8, <2>1 DEF last, HasFailed, NONE
  <2>2. CASE r # new
    BY <1>4, <1>8, <2>2 DEF FollowInv, Explained, HasFailed
  <2> QED
    BY <2>1, <2>2
<1>13. Recorded'
  <2>1. op \in Op /\ op' \in Op
    BY DEF Inv, TypeOK
  <2>2. CASE op'.errors = <<>>
    BY <2>2 DEF Recorded, RecordedIn
  <2>3. CASE op' = op /\ last = refused
    <3>1. \A i \in 1..Len(op.errors) : op.errors[i].run \in Runs
      <4>1. op.errors \in Seq(Error)
        BY <2>1 DEF Op
      <4>2. \A i \in 1..Len(op.errors) : op.errors[i] \in Error
        BY <4>1
      <4> QED
        BY <4>2 DEF Error
    <3>2. ASSUME NEW r \in Runs, HasFailed(row[r])
          PROVE  HasFailed(row'[r])
      <4>1. CASE r = new
        BY <1>6, <2>3, <4>1 DEF last, HasFailed, NONE
      <4>2. CASE r # new
        BY <1>4, <1>8, <3>2, <4>2 DEF HasFailed
      <4> QED
        BY <4>1, <4>2
    <3> QED
      BY <2>3, <3>1, <3>2 DEF FollowInv, Recorded, RecordedIn
  <2> QED
    BY <1>8, <2>2, <2>3 DEF NoOp
<1>14. Halted'
  <2> SUFFICES ASSUME NEW r \in cluster', HasFailed(row'[r])
               PROVE  row'[r].desired = "STOPPED"
    BY DEF Halted
  <2>1. CASE r = new
    BY <1>2, <1>6, <1>8, <2>1 DEF last, HasFailed
  <2>2. CASE r # new
    <3>1. r \in cluster /\ r \in Runs
      BY <1>2, <1>8, <2>2
    <3>2. row[r].desired = "STOPPED"
      BY <1>1, <1>4, <1>8, <2>2, <3>1 DEF FollowInv, Halted, HasFailed
    <3> QED
      BY <1>3, <1>4, <1>8, <2>2, <3>1, <3>2
  <2> QED
    BY <2>1, <2>2
<1>15. Kept'
  <2> SUFFICES ASSUME NEW r \in 1..new
               PROVE  \/ r \in cluster' \/ row'[r].desired = "STOPPED"
                      \/ row'[r].runner \in {"STOPPED", "FAILED"}
    BY <1>7 DEF Kept
  <2>1. CASE r = new
    BY <1>6, <1>8, <2>1 DEF last
  <2>2. CASE r # new
    <3>1. r \in 1..nruns /\ r \in Runs
      BY <1>1, <2>2
    <3> QED
      BY <1>3, <1>4, <1>8, <2>2, <3>1 DEF FollowInv, Kept
  <2> QED
    BY <2>1, <2>2
<1>16. Retiring'
  <2> SUFFICES ASSUME NEW r \in cluster', NEW s \in cluster', row'[r].model = row'[s].model,
                      row'[r].desired = "REPLACING", row'[s].desired = "RUNNING",
                      row'[s].runner = "RUNNING"
               PROVE  FALSE
    BY DEF Retiring, SameModel
  <2>1. s # new
    BY <1>2, <1>6, <1>8 DEF last, NONE
  <2>2. s \in cluster /\ s \in Runs /\ rows[s] = row'[s] /\ s \notin Replaced(m)
    BY <1>2, <1>4, <1>8, <2>1
  <2>3. rows[s].model # m
    BY <1>5, <2>2
  <2>4. r # new
    BY <1>2, <1>6, <1>8, <2>2, <2>3 DEF last
  <2>5. r \in cluster /\ r \in Runs /\ rows[r] = row'[r]
    BY <1>2, <1>8, <2>4
  <2>6. r \notin Replaced(m)
    BY <1>3, <1>4, <2>2, <2>3, <2>5
  <2> QED
    BY <1>1, <1>4, <2>2, <2>5, <2>6 DEF FollowInv, Retiring, SameModel, Phase
<1>17. Announced'
  <2> SUFFICES ASSUME "run" \notin Faults, NEW r \in cluster', InRunPhase(row'[r]),
                      row'[r].desired # "STOPPED"
               PROVE  told[r] = row'[r].runner
    BY <1>7 DEF Announced
  <2>1. r # new
    BY <1>2, <1>6, <1>8 DEF last, InRunPhase
  <2>2. r \in cluster /\ r \in Runs
    BY <1>2, <1>8, <2>1
  <2> QED
    BY <1>1, <1>3, <1>4, <1>8, <2>1, <2>2 DEF FollowInv, Announced, InRunPhase
<1> QED
  BY <1>9, <1>11, <1>12, <1>13, <1>14, <1>15, <1>16, <1>17 DEF FollowInv

-----------------------------------------------------------------------------
(* The steps of the calls, in the order of Proceed.                        *)

(* Only op moves, and its list of errors does not grow.                    *)
LEMMA MoveFollows ==
    ASSUME Inv, Inv', FollowInv, UNCHANGED <<row, cluster, nruns>>, Launching',
           op'.errors = op.errors \/ op'.errors = <<>>,
           op.pc # "halt" \/ op' = op,
           Phase = "replace" => op.stops = {} \/ (Phase' = "replace" /\ op'.stops = op.stops),
           \A r \in Runs : told'[r] = told[r] \/ told'[r] = row[r].runner,
           op.pc \in {"run", "launched"} =>
                "run" \in Faults \/ (op'.pc \in {"run", "launched"} /\ op'.cur = op.cur)
    PROVE  FollowInv'
<1>1. op \in Op /\ op' \in Op
  BY DEF Inv, TypeOK
<1>2. Recorded'
  BY <1>1, RecordedKept DEF FollowInv, Recorded
<1> QED
  BY <1>2, SameRunsFollows

(* start_model, once the Builder has said whether the image exists.        *)
LEMMA IsBuiltFollows ==
    ASSUME Inv, Inv', FollowInv, IsBuilt
    PROVE  FollowInv'
<1>1. /\ op.cur \in cluster /\ op.cur \in Runs /\ op \in Op /\ op' \in Op
      /\ row \in [Runs -> ModelRun] /\ op.pc = "is_built" /\ op.ret = "idle"
  BY DEF IsBuilt, Inv, CallInv, TypeOK, FollowInv, Launching
<1>2. cluster' = cluster /\ nruns' = nruns /\ told' = told
  BY DEF IsBuilt
<1>3. CASE RunModel(op.cur, row[op.cur], At(op, "idle"))
  <2>1. At(op, "idle") \in Op /\ At(op, "idle").pc = "idle" /\ At(op, "idle").errors = op.errors
    BY <1>1 DEF At, Op, Points
  <2>2. Phase # "replace"
    BY <1>1 DEF Phase
  <2> QED
    BY <1>1, <1>2, <1>3, <2>1, <2>2, RunModelFollows
<1>4. CASE /\ row' = [row EXCEPT ![op.cur].builder = "BUILDING"]
           /\ op' = At(op, "build")
  <2>1. op'.pc = "build" /\ op'.ret = op.ret /\ op'.errors = op.errors
    BY <1>1, <1>4 DEF At, Op
  <2>2. \A r \in Runs : /\ row'[r].model = row[r].model /\ row'[r].desired = row[r].desired
                        /\ row'[r].runner = row[r].runner /\ row'[r].failure = row[r].failure
    BY <1>1, <1>4 DEF ModelRun
  <2>3. Launching'
    BY <1>1, <2>1 DEF Launching
  <2>4. Recorded'
    <3>1. \A r \in Runs : HasFailed(row[r]) => HasFailed(row'[r])
      BY <2>2 DEF HasFailed
    <3>2. RecordedIn(op, row)
      BY DEF FollowInv, Recorded
    <3>3. RecordedIn(op', row')
      BY <1>1, <2>1, <3>1, <3>2, RecordedKept
    <3> QED
      BY <3>3 DEF Recorded
  <2>5. Phase # "replace"
    BY <1>1 DEF Phase
  <2> QED
    BY <1>1, <1>2, <2>2, <2>3, <2>4, <2>5, SameRunsFollows
<1> QED
  BY <1>3, <1>4 DEF IsBuilt

(* A call returns, outside of the loop over replaced runs.                 *)
LEMMA ReturnFollows ==
    ASSUME Inv, Inv', FollowInv, op' = NoOp, UNCHANGED <<row, cluster, nruns, told>>,
           op.pc # "halt", Phase # "replace",
           op.pc \in {"run", "launched"} => "run" \in Faults
    PROVE  FollowInv'
<1>1. op'.pc = "idle" /\ op'.errors = <<>>
  BY DEF NoOp
<1>2. Launching'
  BY <1>1 DEF Launching
<1> QED
  BY <1>1, <1>2, MoveFollows

(* Build keeps the invariant.                                              *)
LEMMA BuildFollows ==
    ASSUME Inv, Inv', FollowInv, Build
    PROVE  FollowInv'
<1>1. op.pc = "build" /\ Phase # "replace"
  BY DEF Build, FollowInv, Launching, Phase
<1> QED
  BY <1>1, ReturnFollows DEF Build

(* BuildRaises keeps the invariant.                                        *)
LEMMA BuildRaisesFollows ==
    ASSUME Inv, Inv', FollowInv, BuildRaises
    PROVE  FollowInv'
<1>1. op.cur \in Runs /\ op.pc = "build" /\ Phase # "replace"
  BY DEF BuildRaises, Inv, CallInv, FollowInv, Launching, Phase
<1>2. "BUILD_EXCEPTION" \in ErrorType
  BY DEF ErrorType, CloudProviderErrorType
<1>3. NoOp \in Op /\ NoOp.pc \in ErrorPoints /\ NoOp.errors = <<>>
  BY NoOpType DEF NoOp
<1> QED
  BY <1>1, <1>2, <1>3, HandleErrorFollows DEF BuildRaises

(* Runner.run creates the job.                                             *)
LEMMA RunFollows ==
    ASSUME Inv, Inv', FollowInv, Run
    PROVE  FollowInv'
<1>1. op \in Op /\ op.pc = "run" /\ Phase # "replace"
  BY DEF Run, Inv, TypeOK, FollowInv, Launching, Phase
<1>2. op'.pc = "launched" /\ op'.ret = op.ret /\ op'.cur = op.cur /\ op'.errors = op.errors
  BY <1>1 DEF Run, At, Op
<1>3. UNCHANGED <<row, cluster, nruns, told>>
  BY DEF Run
<1>4. Launching'
  BY <1>1, <1>2, <1>3 DEF FollowInv, Launching
<1> QED
  BY <1>1, <1>2, <1>3, <1>4, MoveFollows

(* Runner.run returns: the observers are told.                             *)
LEMMA LaunchedFollows ==
    ASSUME Inv, Inv', FollowInv, Launched
    PROVE  FollowInv'
<1>1. /\ op.cur \in Runs /\ row \in [Runs -> ModelRun] /\ told \in [Runs -> RunnerStatus \cup {NONE}]
      /\ op \in Op /\ op' \in Op /\ op.pc = "launched" /\ op.ret \in {"idle", "builders"}
      /\ row[op.cur].runner = "INITIALIZING"
  BY DEF Launched, Inv, CallInv, TypeOK, FollowInv, Launching
<1>2. /\ row' = [row EXCEPT ![op.cur].job = TRUE] /\ told' = [told EXCEPT ![op.cur] = "INITIALIZING"]
      /\ cluster' = cluster /\ nruns' = nruns /\ op' = Back
  BY DEF Launched, Tell
<1>3. op'.pc = op.ret /\ op'.errors = op.errors
  BY <1>1, <1>2 DEF Back, Op
<1>4. \A r \in Runs : /\ row'[r].model = row[r].model /\ row'[r].desired = row[r].desired
                      /\ row'[r].runner = row[r].runner /\ row'[r].failure = row[r].failure
  BY <1>1, <1>2 DEF ModelRun
<1>5. Launching'
  BY <1>1, <1>3 DEF Launching
<1>6. Recorded'
  BY <1>1, <1>3, <1>4, RecordedKept DEF FollowInv, Recorded, HasFailed
<1>7. Phase # "replace"
  BY <1>1 DEF Phase
<1>8. /\ told'[op.cur] = row'[op.cur].runner
      /\ \A r \in Runs : told'[r] = told[r] \/ told'[r] = row[r].runner
  BY <1>1, <1>2, <1>4
<1> QED
  BY <1>1, <1>2, <1>4, <1>5, <1>6, <1>7, <1>8, SameRunsFollows

(* RunRaises keeps the invariant.                                          *)
LEMMA RunRaisesFollows ==
    ASSUME Inv, Inv', FollowInv, RunRaises
    PROVE  FollowInv'
<1>1. op.cur \in Runs /\ op.pc = "run" /\ Phase # "replace" /\ "run" \in Faults
  BY DEF RunRaises, Inv, CallInv, FollowInv, Launching, Phase
<1>2. "RUN_EXCEPTION" \in ErrorType
  BY DEF ErrorType, CloudProviderErrorType
<1>3. NoOp \in Op /\ NoOp.pc \in ErrorPoints /\ NoOp.errors = <<>>
  BY NoOpType DEF NoOp
<1>4. CASE op.ret = "idle"
  BY <1>1, <1>2, <1>3, <1>4, HandleErrorFollows DEF RunRaises
<1>5. CASE op.ret # "idle"
  BY <1>1, <1>5, ReturnFollows DEF RunRaises
<1> QED
  BY <1>4, <1>5

(* StopModel keeps the invariant.                                          *)
LEMMA StopModelFollows ==
    ASSUME Inv, Inv', FollowInv, NEW m \in Models, StopModel(m)
    PROVE  FollowInv'
<1> DEFINE active == ModelsByIdAndDesired(m, {"RUNNING", "REPLACING"})
<1>1. active \in SUBSET Runs /\ active # {}
  BY DEF StopModel, ModelsByIdAndDesired, Inv, TypeOK
<1>2. Oldest(active) \in Runs
  BY <1>1, OldestIsMember
<1>3. StopRun(Oldest(active), NoOp) /\ nruns' = nruns /\ op.pc = "idle" /\ Phase # "replace"
  BY DEF StopModel, Phase
<1>4. NoOp \in Op /\ NoOp.pc \in ErrorPoints /\ NoOp.errors = <<>>
  BY NoOpType DEF NoOp
<1> HIDE DEF active
<1> QED
  BY <1>2, <1>3, <1>4, StopRunFollows

(* Halt keeps the invariant.                                               *)
LEMMA HaltFollows ==
    ASSUME Inv, Inv', FollowInv, Halt
    PROVE  FollowInv'
<1> USE ModelRunsAssumption
<1>1. /\ op.cur \in Runs /\ op \in Op /\ op.ret \in ErrorPoints /\ op.pc = "halt"
      /\ Phase # "replace"
  BY DEF Halt, Inv, CallInv, TypeOK, Phase, ErrorPoints
<1>2. "idle" \in Points /\ 0 \in 0..MaxRuns
  BY DEF Points
<1>3. Back \in Op /\ Back.pc = op.ret /\ Back.errors = op.errors
  BY <1>1, <1>2 DEF Back, Op
<1> QED
  BY <1>1, <1>3, StopRunFollows DEF Halt

(* Runner.stop returns to its loop.                                        *)
LEMMA StopFollows ==
    ASSUME Inv, Inv', FollowInv, Stop
    PROVE  FollowInv'
<1>1. op \in Op /\ op.ret \in ReturnPoints /\ op.pc = "stop"
  BY DEF Stop, Inv, TypeOK, CallInv
<1>2. op'.pc = op.ret /\ op'.errors = op.errors /\ op'.stops = op.stops
  BY <1>1 DEF Stop, Back, Op
<1>3. Launching'
  BY <1>1, <1>2 DEF Launching, ReturnPoints, ErrorPoints
<1>4. Phase' = Phase
  BY <1>1, <1>2 DEF Phase, ReturnPoints, ErrorPoints
<1> QED
  BY <1>1, <1>2, <1>3, <1>4, MoveFollows DEF Stop

(* Runner.stop raises: the run is to be stopped already.                   *)
LEMMA StopRaisesFollows ==
    ASSUME Inv, Inv', FollowInv, StopRaises
    PROVE  FollowInv'
<1>1. op.cur \in Runs /\ op \in Op /\ op' \in Op /\ op.pc = "stop"
  BY DEF StopRaises, Inv, CallInv, TypeOK
<1>2. "RUN_EXCEPTION" \in ErrorType
  BY DEF ErrorType, CloudProviderErrorType
<1>3. CASE op.ret = "idle"
  <2>1. HandleError(op.cur, "RUN_EXCEPTION", NoOp) /\ nruns' = nruns /\ told' = told
    BY <1>3 DEF StopRaises
  <2>2. NoOp \in Op /\ NoOp.pc \in ErrorPoints /\ NoOp.errors = <<>> /\ Phase # "replace"
    BY <1>1, <1>3, NoOpType DEF NoOp, Phase
  <2> QED
    BY <1>1, <1>2, <2>1, <2>2, HandleErrorFollows
<1>4. CASE op.ret = "replace"
  <2>1. op' = Raise(Back, op.cur, "RUN_EXCEPTION") /\ UNCHANGED <<row, cluster, nruns, told>>
    BY <1>4 DEF StopRaises
  <2>2. Back \in Op /\ Back.pc = "replace" /\ Back.errors = op.errors /\ Back.stops = op.stops
    <3>1. "idle" \in Points /\ 0 \in 0..MaxRuns
      BY ModelRunsAssumption DEF Points
    <3> QED
      BY <1>1, <1>4, <3>1 DEF Back, Op
  <2>3. op'.pc = "replace" /\ op'.stops = op.stops
    BY <2>1, <2>2 DEF Raise, Op
  <2>4. RecordedIn(op', row)
    <3>1. RecordedIn(Back, row)
      BY <1>1, <2>2, RecordedKept DEF FollowInv, Recorded
    <3> QED
      BY <1>1, <1>2, <2>1, <2>2, <3>1, RecordedRaise
  <2>5. Recorded'
    BY <2>1, <2>4 DEF Recorded
  <2>6. Launching' /\ Phase' = "replace"
    BY <2>3 DEF Launching, Phase
  <2> QED
    BY <1>1, <2>1, <2>3, <2>5, <2>6, SameRunsFollows
<1>5. CASE op.ret \notin {"idle", "replace"}
  <2>1. op' = NoOp /\ UNCHANGED <<row, cluster, nruns, told>>
    BY <1>5 DEF StopRaises
  <2>2. Phase # "replace"
    BY <1>1, <1>5 DEF Phase
  <2> QED
    BY <1>1, <2>1, <2>2, ReturnFollows
<1> QED
  BY <1>3, <1>4, <1>5

(* HandleReport keeps the invariant.                                       *)
LEMMA HandleReportFollows ==
    ASSUME Inv, Inv', FollowInv, HandleReport
    PROVE  FollowInv'
<1> DEFINE rep  == Head(op.pending)
           next == [op EXCEPT !.pending = Tail(@)]
<1>1. op \in Op /\ op.pc = "reports" /\ Phase # "replace"
  BY DEF HandleReport, Inv, TypeOK, Phase
<1>2. rep \in Report /\ Tail(op.pending) \in Seq(Report)
  BY <1>1 DEF HandleReport, Op
<1>3. next \in Op /\ next.pc \in ErrorPoints /\ next.errors = op.errors
  BY <1>1, <1>2 DEF Op, ErrorPoints
<1>4. rep.code \in ErrorType /\ rep.code # "STOP_BEFORE_CLEANUP"
  BY <1>2 DEF Report, ErrorType, ModelRunnerErrorType
<1>5. nruns' = nruns /\ told' = told
  BY DEF HandleReport
<1>6. CASE \E r \in HeldFailed(rep) : HandleError(r, rep.code, next)
  <2>1. PICK r \in cluster : HandleError(r, rep.code, next)
    BY <1>6 DEF HeldFailed
  <2>2. r \in Runs
    BY TrackedAreRuns
  <2> HIDE DEF rep, next
  <2> QED
    BY <1>1, <1>3, <1>4, <1>5, <2>1, <2>2, HandleErrorFollows
<1>7. CASE op' = NoOp /\ UNCHANGED <<row, cluster>>
  BY <1>1, <1>5, <1>7, ReturnFollows
<1> QED
  BY <1>6, <1>7 DEF HandleReport

(* UpdateModelsInfo keeps the invariant.                                   *)
LEMMA UpdateModelsInfoFollows ==
    ASSUME Inv, Inv', FollowInv, UpdateModelsInfo
    PROVE  FollowInv'
<1>1. op \in Op /\ op.pc = "reports" /\ op' = At(op, "load")
  BY DEF UpdateModelsInfo, Inv, TypeOK
<1>2. op'.pc = "load" /\ op'.errors = op.errors /\ Phase # "replace"
  BY <1>1 DEF At, Op, Phase
<1>3. Launching'
  BY <1>2 DEF Launching
<1>4. \A r \in Runs : told'[r] = told[r] \/ told'[r] = row[r].runner
  BY TellRunningEnds DEF UpdateModelsInfo
<1> QED
  BY <1>1, <1>2, <1>3, <1>4, MoveFollows DEF UpdateModelsInfo

(* The statuses and the results loaded are only read into op.              *)
LEMMA LoadFollows ==
    ASSUME Inv, Inv', FollowInv,
           LoadRunnerStates \/ LoadRunnerStatesRaises \/ LoadBuilderStates
    PROVE  FollowInv'
<1>1. op \in Op /\ op.pc \in {"load", "load_builds"} /\ UNCHANGED <<row, cluster, nruns, told>>
  BY DEF LoadRunnerStates, LoadRunnerStatesRaises, LoadBuilderStates, Inv, TypeOK
<1>2. op'.pc \in {"runners", "builders"} /\ op'.errors = op.errors
  BY <1>1 DEF LoadRunnerStates, LoadRunnerStatesRaises, LoadBuilderStates, Op
<1>3. Launching' /\ Phase # "replace"
  BY <1>1, <1>2 DEF Launching, Phase
<1> QED
  BY <1>1, <1>2, <1>3, MoveFollows

(* What a status leads to: a clean-up without a failure only for a run that*)
(* has one.                                                                *)
LEMMA AfterStatusFollows ==
    ASSUME NEW r \in Runs, NEW status, NEW next \in Op, RecordedIn(next, row)
    PROVE  LET after == AfterStatus(r, status, next)
           IN  /\ RecordedIn(after, row)
               /\ status = "RUNNING" =>
                    /\ after.pc = "replace"
                    /\ after.stops = ModelsByIdAndDesired(row[r].model, {"REPLACING"})
<1> DEFINE after == AfterStatus(r, status, next)
           stops == ModelsByIdAndDesired(row[r].model, {"REPLACING"})
<1>1. {"RUN_FAILED", "STOP_BEFORE_CLEANUP", "STOP_UNEXPECTED"} \subseteq ErrorType
  BY DEF ErrorType, OrchestratorErrorType
<1>2. CASE status = "RUNNING"
  <2>1. after = [next EXCEPT !.pc = "replace", !.stops = stops]
    BY <1>2 DEF AfterStatus
  <2> HIDE DEF stops
  <2>2. after.pc = "replace" /\ after.stops = stops /\ after.errors = next.errors
    BY <2>1 DEF Op
  <2> QED
    BY <2>2 DEF RecordedIn, stops
<1>3. CASE status = "FAILED"
  BY <1>1, <1>3, RecordedRaise DEF AfterStatus
<1>4. CASE status = "STOPPED" /\ HasFailed(row[r])
  BY <1>1, <1>4, RecordedRaise DEF AfterStatus
<1>5. CASE status = "STOPPED" /\ ~HasFailed(row[r]) /\ row[r].desired # "STOPPED"
  BY <1>1, <1>5, RecordedRaise DEF AfterStatus
<1>6. CASE status = "STOPPED" /\ ~HasFailed(row[r]) /\ row[r].desired = "STOPPED"
  BY <1>6 DEF AfterStatus
<1>7. CASE status \notin {"RUNNING", "FAILED", "STOPPED"}
  BY <1>7 DEF AfterStatus
<1> QED
  BY <1>2, <1>3, <1>4, <1>5, <1>6, <1>7

(* One status is applied; a run that has become RUNNING retires those it   *)
(* replaces.                                                               *)
LEMMA UpdateRunnerStateFollows ==
    ASSUME Inv, Inv', FollowInv, UpdateRunnerState
    PROVE  FollowInv'
<1> USE ModelRunsAssumption
<1> DEFINE r     == Oldest(Processing)
           s     == op.seen[r]
           next  == [op EXCEPT !.seen[r] = Unseen[r]]
           after == AfterStatus(r, s.status, next)
           stops == ModelsByIdAndDesired(row[r].model, {"REPLACING"})
<1>1. r \in Processing
  <2>1. Processing \in SUBSET Runs /\ Processing # {}
    BY DEF UpdateRunnerState, Processing
  <2> QED
    BY <2>1, OldestIsMember
<1>2. /\ r \in Runs /\ r \in cluster /\ s.status \in RunnerStatus
      /\ op.pc = "runners" /\ op \in Op /\ op' \in Op /\ Phase = "runners"
      /\ row \in [Runs -> ModelRun] /\ cluster \subseteq Runs
  BY <1>1 DEF UpdateRunnerState, Inv, CallInv, Phase, Processing, TypeOK
<1>3. next \in Op /\ next.pc = "runners" /\ next.errors = op.errors
  <2>1. Unseen[r] \in [status : RunnerStatus \cup BuilderStatus \cup {NONE}, ip : 0..MaxAddr]
    BY <1>2 DEF Unseen
  <2>2. [op.seen EXCEPT ![r] = Unseen[r]] \in [Runs ->
            [status : RunnerStatus \cup BuilderStatus \cup {NONE}, ip : 0..MaxAddr]]
    BY <1>2, <2>1 DEF Op
  <2>3. next = [op EXCEPT !.seen = [op.seen EXCEPT ![r] = Unseen[r]]]
    BY <1>2 DEF Op
  <2> QED
    BY <1>2, <2>2, <2>3 DEF Op
<1>4. row' = [row EXCEPT ![r].runner = s.status, ![r].ip = s.ip]
  BY Zenon DEF UpdateRunnerState
<1>5. told' = [told EXCEPT ![r] = s.status]
  BY Zenon DEF UpdateRunnerState, Tell
<1>6. /\ op' = IF s.status # row[r].runner THEN after ELSE next
      /\ cluster' = IF s.status # row[r].runner /\ Leaves(r, s.status)
                    THEN cluster \ {r} ELSE cluster
  BY Zenon DEF UpdateRunnerState
<1>7. nruns' = nruns
  BY DEF UpdateRunnerState
<1>8. RecordedIn(next, row)
  <2> HIDE DEF r, next
  <2> QED
    BY <1>2, <1>3, RecordedKept DEF FollowInv, Recorded
<1>9. /\ RecordedIn(after, row)
      /\ s.status = "RUNNING" => after.pc = "replace" /\ after.stops = stops
      /\ after.pc \in {"replace", "runners"}
  <2> HIDE DEF r, s, next
  <2>1. after.pc \in {"replace", "runners"}
    BY <1>2, <1>3, AfterStatusType DEF Inv
  <2> QED
    BY <1>2, <1>3, <1>8, <2>1, AfterStatusFollows
<1> HIDE DEF r, s, next, after, stops
<1>10. Leaves(r, s.status) => s.status = "STOPPED" /\ row[r].desired = "STOPPED"
  BY DEF Leaves
<1>11. /\ row'[r].runner = s.status /\ row'[r].desired = row[r].desired
       /\ row'[r].model = row[r].model /\ row'[r].failure = row[r].failure
       /\ \A q \in Runs \ {r} : row'[q] = row[q]
  BY <1>2, <1>4 DEF ModelRun
<1>12. cluster' \in {cluster, cluster \ {r}} /\ (s.status # "STOPPED" => cluster' = cluster)
  BY <1>6, <1>10
<1>13. op'.pc \in {"replace", "runners"}
  BY <1>3, <1>6, <1>9
<1>14. CreatedOnly' /\ Explained' /\ Halted' /\ Kept'
  <2>1. HasFailed(row[r]) => row[r].desired = "STOPPED"
    BY <1>2 DEF FollowInv, Halted
  <2>2. r \in cluster' \/ row'[r].desired = "STOPPED"
    BY <1>2, <1>6, <1>10, <1>11
  <2>3. row'[r].runner = "FAILED" => r \in cluster'
    BY <1>2, <1>11, <1>12
  <2> QED
    BY <1>2, <1>7, <1>11, <1>12, <2>1, <2>2, <2>3, OneRunFollows DEF HasFailed
<1>15. Launching'
  BY <1>13 DEF Launching
<1>16. Recorded'
  <2>1. op' = after \/ op' = next
    BY <1>6
  <2>2. RecordedIn(op', row)
    BY <1>8, <1>9, <2>1
  <2>3. RecordedIn(op', row')
    BY <1>2, <1>11, <2>2, RecordedKept DEF HasFailed
  <2> QED
    BY <2>3 DEF Recorded
<1>17. Retiring'
  <2> SUFFICES ASSUME NEW p \in cluster', NEW q \in cluster', row'[p].model = row'[q].model,
                      row'[p].desired = "REPLACING", row'[q].desired = "RUNNING",
                      row'[q].runner = "RUNNING"
               PROVE  op'.pc = "replace" /\ p \in op'.stops
    BY DEF Retiring, SameModel, Phase
  <2>1. /\ p \in cluster /\ q \in cluster /\ p \in Runs /\ q \in Runs
        /\ row[p].model = row[q].model /\ row[p].desired = "REPLACING"
        /\ row[q].desired = "RUNNING"
    BY <1>2, <1>11, <1>12
  <2>2. row[q].runner # "RUNNING"
    BY <1>2, <2>1 DEF FollowInv, Retiring, SameModel
  <2>3. q = r /\ s.status = "RUNNING" /\ s.status # row[r].runner
    BY <1>11, <2>1, <2>2
  <2>4. op' = after /\ p \in stops
    BY <1>6, <2>1, <2>3 DEF stops, ModelsByIdAndDesired
  <2> QED
    BY <1>9, <2>3, <2>4
<1>18. Announced'
  <2>1. told'[r] = row'[r].runner /\ \A q \in Runs \ {r} : told'[q] = told[q]
    BY <1>2, <1>5, <1>11 DEF Inv, TypeOK
  <2> QED
    BY <1>2, <1>11, <1>12, <2>1, AnnouncedKept DEF FollowInv
<1> QED
  BY <1>14, <1>15, <1>16, <1>17, <1>18 DEF FollowInv

(* StopReplaced keeps the invariant.                                       *)
LEMMA StopReplacedFollows ==
    ASSUME Inv, Inv', FollowInv, StopReplaced
    PROVE  FollowInv'
<1>1. op \in Op /\ op.pc = "replace" /\ Phase = "replace" /\ nruns' = nruns
  BY DEF StopReplaced, Inv, TypeOK, Phase
<1>2. CASE op.stops = {}
  <2>1. op'.pc = "runners" /\ op'.errors = op.errors
    BY <1>1, <1>2 DEF StopReplaced, At, Op
  <2>2. Launching'
    BY <2>1 DEF Launching
  <2> QED
    BY <1>1, <1>2, <2>1, <2>2, MoveFollows DEF StopReplaced
<1>3. CASE op.stops # {}
  <2> DEFINE r    == Oldest(op.stops)
             next == [op EXCEPT !.stops = op.stops \ {r}]
  <2>1. op.stops \in SUBSET Runs
    BY <1>1 DEF Op
  <2>2. r \in Runs
    BY <1>3, <2>1, OldestIsMember
  <2>3. /\ next \in Op /\ next.pc = "replace" /\ next.errors = op.errors
        /\ next.stops = op.stops \ {r}
    BY <1>1, <2>1 DEF Op
  <2>4. next = [op EXCEPT !.stops = @ \ {r}]
    BY <1>1 DEF Op
  <2>5. StopRun(r, next)
    BY <1>3, <2>4, Zenon DEF StopReplaced
  <2> HIDE DEF r, next
  <2> QED
    BY <1>1, <2>2, <2>3, <2>5, StopRunFollows
<1> QED
  BY <1>2, <1>3

(* A loop ends.                                                            *)
LEMMA MoveOnFollows ==
    ASSUME Inv, Inv', FollowInv, RunnerStatesDone \/ BuilderStatesDone
    PROVE  FollowInv'
<1>1. op \in Op /\ op.pc \in {"runners", "builders"} /\ Phase # "replace"
      /\ UNCHANGED <<row, cluster, nruns, told>>
  BY DEF RunnerStatesDone, BuilderStatesDone, Inv, TypeOK, Phase
<1>2. op'.pc \in {"runner_errors", "builder_errors"} /\ op'.errors = op.errors
  BY <1>1 DEF RunnerStatesDone, BuilderStatesDone, At, Op
<1>3. Launching'
  BY <1>2 DEF Launching
<1> QED
  BY <1>1, <1>2, <1>3, MoveFollows

(* HandleErrors keeps the invariant.                                       *)
LEMMA HandleErrorsFollows ==
    ASSUME Inv, Inv', FollowInv, HandleErrors
    PROVE  FollowInv'
<1>1. /\ op \in Op /\ op.pc \in ErrorPoints /\ op.pc \in {"runner_errors", "builder_errors"}
      /\ Phase # "replace" /\ nruns' = nruns /\ told' = told
  BY DEF HandleErrors, Inv, TypeOK, ErrorPoints, Phase
<1>2. CASE op.lost # {}
  <2> DEFINE r    == Oldest(op.lost)
             next == [op EXCEPT !.lost = op.lost \ {r}]
  <2>1. op.lost \in SUBSET Runs /\ "UNKNOWN" \in ErrorType
    BY <1>1 DEF Op, ErrorType, OrchestratorErrorType
  <2>2. r \in Runs
    BY <1>2, <2>1, OldestIsMember
  <2>3. next \in Op /\ next.pc = op.pc /\ next.errors = op.errors
    BY <1>1, <2>1 DEF Op
  <2>4. next = [op EXCEPT !.lost = @ \ {Oldest(@)}]
    BY <1>1 DEF Op
  <2>5. HandleError(r, "UNKNOWN", next)
    BY <1>2, <2>4, Zenon DEF HandleErrors
  <2> HIDE DEF r, next
  <2> QED
    BY <1>1, <2>1, <2>2, <2>3, <2>5, HandleErrorFollows
<1>3. CASE op.lost = {}
  <2> DEFINE error == Head(op.errors)
             next  == [op EXCEPT !.errors = Tail(op.errors)]
  <2>1. op.errors \in Seq(Error) /\ op.errors # <<>>
    BY <1>1, <1>3 DEF HandleErrors, Op
  <2>2. error \in Error /\ Tail(op.errors) \in Seq(Error) /\ error = op.errors[1]
        /\ 1 \in 1..Len(op.errors)
    BY <2>1
  <2>3. error.run \in Runs /\ error.code \in ErrorType
    BY <2>2 DEF Error
  <2>4. next \in Op /\ next.pc = op.pc /\ next.errors = Tail(op.errors)
    BY <1>1, <2>2 DEF Op
  <2>5. next = [op EXCEPT !.errors = Tail(@)]
    BY <1>1 DEF Op
  <2>6. HandleError(error.run, error.code, next)
    BY <1>3, <2>5, Zenon DEF HandleErrors
  <2>7. error.code = "STOP_BEFORE_CLEANUP" => HasFailed(row[error.run])
    BY <2>2 DEF FollowInv, Recorded, RecordedIn
  <2> HIDE DEF error, next
  <2> QED
    BY <1>1, <2>1, <2>3, <2>4, <2>6, <2>7, HandleErrorFollows
<1> QED
  BY <1>2, <1>3

(* ErrorsDone keeps the invariant.                                         *)
LEMMA ErrorsDoneFollows ==
    ASSUME Inv, Inv', FollowInv, ErrorsDone
    PROVE  FollowInv'
<1>1. op.pc \in {"runner_errors", "builder_errors"} /\ Phase # "replace"
      /\ UNCHANGED <<row, cluster, nruns, told>>
  BY DEF ErrorsDone, Phase
<1>2. op'.pc \in {"load_builds", "idle"} /\ op'.errors = <<>>
  BY DEF ErrorsDone, NoOp
<1>3. Launching'
  BY <1>2 DEF Launching
<1> QED
  BY <1>1, <1>2, <1>3, MoveFollows

(* UpdateBuilderState keeps the invariant.                                 *)
LEMMA UpdateBuilderStateFollows ==
    ASSUME Inv, Inv', FollowInv, UpdateBuilderState
    PROVE  FollowInv'
<1> USE ModelRunsAssumption
<1> DEFINE r     == Oldest(Processing)
           s     == op.seen[r].status
           next  == [op EXCEPT !.seen[r] = Unseen[r]]
           built == [row[r] EXCEPT !.builder = s]
<1>1. r \in Processing
  <2>1. Processing \in SUBSET Runs /\ Processing # {}
    BY DEF UpdateBuilderState, Processing
  <2> QED
    BY <2>1, OldestIsMember
<1>2. /\ r \in Runs /\ r \in cluster /\ s \in BuilderStatus
      /\ op.pc = "builders" /\ op \in Op /\ op' \in Op /\ row \in [Runs -> ModelRun]
      /\ Phase # "replace"
  BY <1>1 DEF UpdateBuilderState, Inv, CallInv, Phase, Processing, TypeOK
<1>3. next \in Op /\ next.pc = "builders" /\ next.errors = op.errors
  <2>1. Unseen[r] \in [status : RunnerStatus \cup BuilderStatus \cup {NONE}, ip : 0..MaxAddr]
    BY <1>2 DEF Unseen
  <2>2. [op.seen EXCEPT ![r] = Unseen[r]] \in [Runs ->
            [status : RunnerStatus \cup BuilderStatus \cup {NONE}, ip : 0..MaxAddr]]
    BY <1>2, <2>1 DEF Op
  <2>3. next = [op EXCEPT !.seen = [op.seen EXCEPT ![r] = Unseen[r]]]
    BY <1>2 DEF Op
  <2> QED
    BY <1>2, <2>2, <2>3 DEF Op
<1>4. /\ built \in ModelRun /\ built.model = row[r].model /\ built.desired = row[r].desired
      /\ built.runner = row[r].runner /\ built.failure = row[r].failure
  BY <1>2 DEF ModelRun
<1>5. \/ RunModel(r, built, next)
      \/ row' = [row EXCEPT ![r] = built] /\ op' = AfterBuild(r, s, next)
  BY Zenon DEF UpdateBuilderState
<1>6. cluster' = cluster /\ nruns' = nruns /\ told' = told
  BY DEF UpdateBuilderState
<1> HIDE DEF r, s, next, built
<1>7. CASE RunModel(r, built, next)
  BY <1>2, <1>3, <1>4, <1>6, <1>7, RunModelFollows
<1>8. CASE row' = [row EXCEPT ![r] = built] /\ op' = AfterBuild(r, s, next)
  <2>1. \A q \in Runs : /\ row'[q].model = row[q].model /\ row'[q].desired = row[q].desired
                        /\ row'[q].runner = row[q].runner /\ row'[q].failure = row[q].failure
    BY <1>2, <1>4, <1>8
  <2>2. RecordedIn(next, row) /\ "BUILD_FAILED" \in ErrorType
    BY <1>2, <1>3, RecordedKept DEF FollowInv, Recorded, ErrorType, OrchestratorErrorType
  <2>3. op'.pc = "builders" /\ RecordedIn(op', row)
    BY <1>2, <1>3, <1>8, <2>2, RaiseType, RecordedRaise DEF AfterBuild
  <2>4. RecordedIn(op', row')
    BY <1>2, <2>1, <2>3, RecordedKept DEF HasFailed
  <2>5. Recorded' /\ Launching'
    BY <2>3, <2>4 DEF Recorded, Launching
  <2> QED
    BY <1>2, <1>6, <2>1, <2>5, SameRunsFollows
<1> QED
  BY <1>5, <1>7, <1>8

(* A step that leaves the call and the runs alone.                         *)
LEMMA SameCallFollows ==
    ASSUME Inv, Inv', FollowInv, UNCHANGED <<row, cluster, op, nruns>>,
           \A r \in Runs : told'[r] = told[r] \/ told'[r] = row[r].runner
    PROVE  FollowInv'
<1>1. Launching' /\ Phase' = Phase
  BY DEF FollowInv, Launching, Phase
<1> QED
  BY <1>1, MoveFollows

-----------------------------------------------------------------------------
(* The next step of the call that holds the lock.                          *)
LEMMA ProceedFollows ==
    ASSUME Inv, Inv', FollowInv, Proceed
    PROVE  FollowInv'
<1>1. CASE IsBuilt \/ Build \/ BuildRaises \/ Run \/ RunRaises \/ Launched
  BY <1>1, IsBuiltFollows, BuildFollows, BuildRaisesFollows, RunFollows, RunRaisesFollows,
     LaunchedFollows
<1>2. CASE Halt \/ Stop \/ StopRaises \/ HandleReport \/ UpdateModelsInfo
  BY <1>2, HaltFollows, StopFollows, StopRaisesFollows, HandleReportFollows,
     UpdateModelsInfoFollows
<1>3. CASE \/ LoadRunnerStates \/ LoadRunnerStatesRaises
           \/ UpdateRunnerState \/ StopReplaced \/ RunnerStatesDone
  BY <1>3, LoadFollows, UpdateRunnerStateFollows, StopReplacedFollows, MoveOnFollows
<1>4. CASE \/ HandleErrors \/ ErrorsDone \/ LoadBuilderStates \/ LoadBuilderStatesRaises
           \/ UpdateBuilderState \/ BuilderStatesDone
  <2>1. LoadBuilderStatesRaises => FollowInv'
    BY ReturnFollows DEF LoadBuilderStatesRaises, Phase
  <2> QED
    BY <1>4, <2>1, LoadFollows, HandleErrorsFollows, ErrorsDoneFollows,
       UpdateBuilderStateFollows, MoveOnFollows
<1> QED
  BY <1>1, <1>2, <1>3, <1>4 DEF Proceed

(* Every step but a crash keeps the invariant.                             *)
LEMMA NextFollows ==
    ASSUME Inv, Inv', FollowInv, [Next]_vars, MaxCrashes = 0
    PROVE  FollowInv'
<1>1. CASE \E m \in Models, c \in Configs : StartModel(m, c)
  BY <1>1, StartModelFollows
<1>2. CASE \E m \in Models : StopModel(m)
  BY <1>2, StopModelFollows
<1>3. CASE UpdatesStates
  <2>1. op'.pc = "reports" /\ op'.errors = <<>> /\ op.pc = "idle"
    BY <1>3 DEF UpdatesStates, NoOp
  <2>2. Launching' /\ Phase # "replace"
    BY <2>1 DEF Launching, Phase
  <2> QED
    BY <1>3, <2>1, <2>2, MoveFollows DEF UpdatesStates
<1>4. CASE GetAllModels
  <2>1. \A r \in Runs : told'[r] = told[r] \/ told'[r] = row[r].runner
    BY <1>4, TellRunningEnds DEF GetAllModels
  <2> QED
    BY <1>4, <2>1, SameCallFollows DEF GetAllModels
<1>5. CASE Proceed
  BY <1>5, ProceedFollows
<1>6. CASE Environment
  <2>1. ~Crash
    BY DEF Crash, Inv, TypeOK
  <2>2. UNCHANGED <<row, cluster, op, nruns, told>>
    BY <1>6, <2>1 DEF Environment, TaskMove, ImageMove, ReportModelRunnerFailure
  <2> QED
    BY <2>2, SameCallFollows
<1>7. CASE UNCHANGED vars
  BY <1>7, SameCallFollows DEF vars
<1> QED
  BY <1>1, <1>2, <1>3, <1>4, <1>5, <1>6, <1>7 DEF Next

(* As long as the process does not restart, a call leaves no failed run    *)
(* unstopped, no replaced run next to its replacement, no wanted run       *)
(* forgotten, whichever calls to the Builder and the Runner raise.         *)
THEOREM FollowInvariance ==
    ASSUME MaxCrashes = 0
    PROVE  Spec => []FollowInv
<1>1. Init => FollowInv
  BY InitFollows
<1>2. Inv /\ Inv' /\ FollowInv /\ [Next]_vars => FollowInv'
  BY NextFollows
<1> QED
  BY <1>1, <1>2, Invariance, PTL DEF Spec

(* handle_error stops every tracked run whose failure it records.          *)
THEOREM FailuresStop ==
    ASSUME MaxCrashes = 0
    PROVE  Spec => []FailedRunsStopped
<1>1. FollowInv => FailedRunsStopped
  BY DEF FollowInv, Halted, FailedRunsStopped, Idle
<1> QED
  BY <1>1, FollowInvariance, PTL

(* A run that ended as FAILED has a failure recorded.                      *)
THEOREM FailuresExplained ==
    ASSUME MaxCrashes = 0
    PROVE  Spec => []FailureExplained
<1>1. Inv /\ FollowInv => FailureExplained
  BY ModelRunsAssumption DEF FollowInv, Explained, FailureExplained, Inv, TypeOK, Runs
<1> QED
  BY <1>1, Invariance, FollowInvariance, PTL

(* A run that is RUNNING has retired the runs it replaces.                 *)
THEOREM ReplacedRetire ==
    ASSUME MaxCrashes = 0
    PROVE  Spec => []ReplacedRunsRetired
<1>1. FollowInv => ReplacedRunsRetired
  BY DEF FollowInv, Retiring, ReplacedRunsRetired, Idle, Phase
<1> QED
  BY <1>1, FollowInvariance, PTL

(* A run that is wanted and not settled is tracked.                        *)
THEOREM WantedTracked ==
    ASSUME MaxCrashes = 0
    PROVE  Spec => []WantedRunsTracked
<1>1. FollowInv => WantedRunsTracked
  BY DEF FollowInv, Kept, WantedRunsTracked
<1> QED
  BY <1>1, FollowInvariance, PTL

(* The observers know the status of every tracked run that is not being    *)
(* stopped, if launches do not raise either.                               *)
THEOREM ObserversKnow ==
    ASSUME MaxCrashes = 0, "run" \notin Faults
    PROVE  Spec => []ObserversInformed
<1>1. FollowInv => ObserversInformed
  BY DEF FollowInv, Announced, ObserversInformed, Idle
<1> QED
  BY <1>1, FollowInvariance, PTL
-----------------------------------------------------------------------------
(* What becomes of the runs and of their jobs, as long as no launch and no *)
(* stop raises, the process does not restart and no job comes to life      *)
(* again by itself.                                                        *)
LiveStatus == {"INITIALIZING", "RUNNING", "RECOVERING"}
NoRevival == \A move \in TaskMoves : move[2] \in LiveStatus => move[1] \in LiveStatus
CallsReturn == "run" \notin Faults /\ "stop" \notin Faults /\ MaxCrashes = 0 /\ NoRevival

(* No runner of the service brings a job to life again: the moves of each  *)
(* of them are as CallsReturn supposes.                                    *)
LEMMA RunnersNeverRevive ==
    ASSUME TaskMoves \in {EcsMoves, RunnerMoves, PlainMoves}
    PROVE  NoRevival
BY DEF NoRevival, LiveStatus, EcsMoves, OwnMoves, StoppedMoves, DownMoves, RunnerMoves, PlainMoves

(* Where an update has no error to handle.                                 *)
Quiet == {"idle", "reports", "load", "load_builds"}

(* A run with an error has not been launched, or has ended, and its build  *)
(* is not looked at any more; a call returns with no error left to handle. *)
ErrorsOver(r) ==
    r \in Owed => /\ row[r].runner \in {NONE, "STOPPED", "FAILED"}
                  /\ Phase \notin Quiet
                  /\ Phase = "builders" => op.seen[r].status = NONE

(* A tracked run that nothing will happen to any more has an error to be   *)
(* handled; a run without a job is being launched, and is wanted.          *)
InProgress(r) ==
    /\ r \in cluster =>
        /\ row[r].runner \in {"STOPPED", "FAILED"} => r \in Owed
        /\ InBuildPhase(row[r]) => row[r].builder = "BUILDING" \/ r \in Owed
        /\ JobUnknown(r) => op.pc \in {"run", "launched"} /\ op.cur = r
        /\ row[r].runner = NONE => row[r].desired # "STOPPED"
    /\ op.pc \in {"run", "launched"} /\ op.cur = r => row[r].desired # "STOPPED"

(* The table, and what is still to be written to it, does not say of a job *)
(* that is alive that it is not.                                           *)
JobFollowed(r) ==
    TaskAlive(r) =>
        /\ row[r].runner \in LiveStatus
        /\ Phase \in {"runners", "replace"} => op.seen[r].status \in LiveStatus \cup {NONE}

(* A job that is alive belongs to a tracked run that is wanted, or is the  *)
(* next to be stopped.                                                     *)
JobWanted(r) ==
    TaskAlive(r) => \/ r \in cluster /\ row[r].desired # "STOPPED"
                    \/ op.pc = "stop" /\ op.cur = r

Sound(r) == ErrorsOver(r) /\ InProgress(r) /\ JobFollowed(r) /\ JobWanted(r)
JobInv == \A r \in Runs : Sound(r)

(* A run, and its job, that the step leaves alone.                         *)
LEMMA SameRunSound ==
    ASSUME NEW q \in Runs, Sound(q), row'[q] = row[q], cloud'[q].task = cloud[q].task,
           q \in cluster' <=> q \in cluster, q \in Owed' <=> q \in Owed,
           ~(op.pc \in {"run", "launched", "stop"} /\ op.cur = q),
           ~(op'.pc \in {"run", "launched"} /\ op'.cur = q),
           q \in Owed => /\ Phase' \notin Quiet
                         /\ Phase' = "builders" => op'.seen[q].status = NONE,
           TaskAlive(q) /\ Phase' \in {"runners", "replace"}
                => op'.seen[q].status \in LiveStatus \cup {NONE}
    PROVE  Sound(q)'
<1>1. TaskAlive(q)' = TaskAlive(q)
  BY DEF TaskAlive
<1>2. ErrorsOver(q)'
  BY DEF Sound, ErrorsOver
<1>3. InProgress(q)'
  BY DEF Sound, InProgress, InBuildPhase, JobUnknown
<1>4. JobFollowed(q)'
  BY <1>1 DEF Sound, JobFollowed
<1>5. JobWanted(q)'
  BY <1>1 DEF Sound, JobWanted
<1> QED
  BY <1>2, <1>3, <1>4, <1>5 DEF Sound

(* A step that concerns the runs of touched, and stays in its loop or      *)
(* leaves it.                                                              *)
LEMMA OthersSound ==
    ASSUME JobInv, NEW touched,
           \A q \in Runs \ touched :
                /\ row'[q] = row[q]
                /\ cloud'[q].task = cloud[q].task
                /\ q \in cluster' <=> q \in cluster
                /\ q \in Owed' <=> q \in Owed
                /\ ~(op.pc \in {"run", "launched", "stop"} /\ op.cur = q)
                /\ ~(op'.pc \in {"run", "launched"} /\ op'.cur = q)
                /\ Phase' \in {"runners", "replace", "builders"}
                        => op'.seen[q] \in {op.seen[q], Unseen[q]},
           Phase' \in Quiet => Owed' = {},
           Phase' = "builders" => Phase = "builders",
           Phase' \in {"runners", "replace"} => Phase \in {"runners", "replace"},
           \A r \in touched : r \in Runs => Sound(r)'
    PROVE  JobInv'
<1> SUFFICES ASSUME NEW q \in Runs, q \notin touched
             PROVE  Sound(q)'
  BY DEF JobInv
<1>1. Sound(q)
  BY DEF JobInv
<1>2. Unseen[q].status = NONE
  BY DEF Unseen
<1>3. q \in Owed => /\ Phase' \notin Quiet
                    /\ Phase' = "builders" => op'.seen[q].status = NONE
  BY <1>1, <1>2 DEF Sound, ErrorsOver
<1>4. TaskAlive(q) /\ Phase' \in {"runners", "replace"}
        => op'.seen[q].status \in LiveStatus \cup {NONE}
  BY <1>1, <1>2 DEF Sound, JobFollowed
<1> QED
  BY <1>1, <1>3, <1>4, SameRunSound

(* The same for a step that concerns one run.                              *)
LEMMA OneRunSound ==
    ASSUME JobInv, NEW r,
           \A q \in Runs \ {r} :
                /\ row'[q] = row[q]
                /\ cloud'[q].task = cloud[q].task
                /\ q \in cluster' <=> q \in cluster
                /\ q \in Owed' <=> q \in Owed
                /\ ~(op.pc \in {"run", "launched", "stop"} /\ op.cur = q)
                /\ ~(op'.pc \in {"run", "launched"} /\ op'.cur = q)
                /\ Phase' \in {"runners", "replace", "builders"}
                        => op'.seen[q] \in {op.seen[q], Unseen[q]},
           Phase' \in Quiet => Owed' = {},
           Phase' = "builders" => Phase = "builders",
           Phase' \in {"runners", "replace"} => Phase \in {"runners", "replace"},
           Sound(r)'
    PROVE  JobInv'
<1> DEFINE touched == {r}
<1>1. \A q \in touched : q \in Runs => Sound(q)'
  OBVIOUS
<1>2. \A q \in Runs \ touched :
          /\ row'[q] = row[q]
          /\ cloud'[q].task = cloud[q].task
          /\ q \in cluster' <=> q \in cluster
          /\ q \in Owed' <=> q \in Owed
          /\ ~(op.pc \in {"run", "launched", "stop"} /\ op.cur = q)
          /\ ~(op'.pc \in {"run", "launched"} /\ op'.cur = q)
          /\ Phase' \in {"runners", "replace", "builders"}
                  => op'.seen[q] \in {op.seen[q], Unseen[q]}
  OBVIOUS
<1> HIDE DEF touched
<1> QED
  BY <1>1, <1>2, OthersSound

(* handle_error, of a run whose job, if it is alive, is then stopped.      *)
LEMMA HandleErrorJobs ==
    ASSUME Inv, EndInv, JobInv, NEW r \in Runs, NEW code \in ErrorType, NEW next \in Op,
           next.pc \in ErrorPoints, next.pc \in Quiet => OwedOf(next) = {},
           OwedOf(next) \subseteq Owed, Owed \ {r} \subseteq OwedOf(next),
           op.pc \notin {"run", "launched", "stop"},
           row[r].runner \in LiveStatus
                => r \in cluster /\ code \notin CloudProviderErrorType \cup {"STOP_BEFORE_CLEANUP"},
           HandleError(r, code, next), cloud' = cloud
    PROVE  JobInv'
<1>1. /\ row \in [Runs -> ModelRun] /\ cluster \subseteq Runs
      /\ WithFailure(row[r], code) \in ModelRun
  BY WithFailureType DEF Inv, TypeOK
<1>2. /\ WithFailure(row[r], code).desired = row[r].desired
      /\ WithFailure(row[r], code).runner = row[r].runner
      /\ WithFailure(row[r], code).job = row[r].job
      /\ WithFailure(row[r], code).builder = row[r].builder
  BY <1>1 DEF WithFailure, ModelRun
<1>3. Sound(r)
  BY DEF JobInv
<1>4. row[r].runner \in LiveStatus => IsRunActive(row[r]) /\ r \notin Owed
  <2> SUFFICES ASSUME row[r].runner \in LiveStatus
               PROVE  IsRunActive(row[r]) /\ r \notin Owed
    OBVIOUS
  <2>1. r \in cluster /\ r \notin Owed
    BY <1>3 DEF Sound, ErrorsOver, LiveStatus, NONE
  <2>2. row[r].job
    BY <1>1, <1>3, <2>1 DEF Sound, InProgress, JobUnknown, LiveStatus, EndInv, Known, NONE, ModelRun
  <2> QED
    BY <2>1, <2>2 DEF IsRunActive, LiveStatus
<1>5. ASSUME NEW run \in ModelRun, FinalizeModelCleanup(r, run, next),
             row[r].runner \notin LiveStatus
      PROVE  JobInv'
  <2>1. /\ row'[r].runner = "FAILED" /\ \A q \in Runs \ {r} : row'[q] = row[q]
        /\ cluster' = cluster \ {r} /\ op' = next
    BY <1>1, <1>5 DEF FinalizeModelCleanup, ModelRun
  <2>2. Owed' = OwedOf(next) /\ Phase' = next.pc /\ op'.pc \in ErrorPoints
    BY <2>1 DEF Owed, Phase, ErrorPoints
  <2>3. ~TaskAlive(r)'
    BY <1>3, <1>5 DEF Sound, JobFollowed, TaskAlive
  <2>4. Sound(r)'
    BY <2>1, <2>2, <2>3
       DEF Sound, ErrorsOver, InProgress, JobFollowed, JobWanted, ErrorPoints
  <2>5. \A q \in Runs \ {r} :
            /\ row'[q] = row[q] /\ cloud'[q].task = cloud[q].task
            /\ q \in cluster' <=> q \in cluster
            /\ q \in Owed' <=> q \in Owed
    BY <2>1, <2>2
  <2> QED
    BY <2>2, <2>4, <2>5, OneRunSound DEF ErrorPoints
<1>6. ASSUME row' = [row EXCEPT ![r] = WithFailure(row[r], code)],
             op' = [next EXCEPT !.pc = "halt", !.ret = next.pc, !.cur = r],
             cluster' = cluster, IsRunActive(row[r])
      PROVE  JobInv'
  <2>1. /\ row'[r].runner = row[r].runner /\ row'[r].desired = row[r].desired
        /\ row'[r].job = row[r].job
        /\ \A q \in Runs \ {r} : row'[q] = row[q]
    BY <1>1, <1>2, <1>6
  <2>2. /\ op'.pc = "halt" /\ op'.ret = next.pc
        /\ op'.errors = next.errors /\ op'.lost = next.lost
    BY <1>6 DEF Op
  <2>3. Owed' = OwedOf(next) /\ Phase' = next.pc
    BY <2>2 DEF Owed, OwedOf, Phase
  <2>4. row[r].runner \in LiveStatus /\ row[r].job
    BY <1>6 DEF IsRunActive, LiveStatus
  <2>5. TaskAlive(r)' = TaskAlive(r)
    BY DEF TaskAlive
  <2>6. Sound(r)'
    <3>1. ErrorsOver(r)' /\ JobFollowed(r)'
      BY <1>3, <1>4, <2>1, <2>3, <2>4, <2>5 DEF ErrorsOver, Sound, JobFollowed, ErrorPoints
    <3>2. InProgress(r)' /\ JobWanted(r)'
      BY <1>3, <1>6, <2>1, <2>2, <2>4, <2>5
         DEF Sound, InProgress, JobWanted, InBuildPhase, JobUnknown, LiveStatus, NONE
    <3> QED
      BY <3>1, <3>2 DEF Sound
  <2>7. \A q \in Runs \ {r} :
            /\ row'[q] = row[q] /\ cloud'[q].task = cloud[q].task
            /\ q \in cluster' <=> q \in cluster
            /\ q \in Owed' <=> q \in Owed
    BY <1>6, <2>1, <2>3
  <2> QED
    BY <2>2, <2>3, <2>6, <2>7, OneRunSound DEF ErrorPoints
<1>7. CASE code = "STOP_BEFORE_CLEANUP"
  <2>1. row[r].runner \notin LiveStatus /\ row[r] \in ModelRun
    BY <1>1, <1>7
  <2> QED
    BY <1>5, <1>7, <2>1 DEF HandleError
<1>8. CASE code # "STOP_BEFORE_CLEANUP" /\ IsRunActive(row[r]) /\ code \notin CloudProviderErrorType
  BY <1>6, <1>8 DEF HandleError
<1>9. CASE /\ code # "STOP_BEFORE_CLEANUP"
           /\ ~(IsRunActive(row[r]) /\ code \notin CloudProviderErrorType)
  <2>1. FinalizeModelCleanup(r, WithFailure(row[r], code), next)
    BY <1>9 DEF HandleError
  <2>2. row[r].runner \notin LiveStatus
    BY <1>4, <1>9
  <2> QED
    BY <2>1, <2>2, <1>1, <1>5
<1> QED
  BY <1>7, <1>8, <1>9

(* _RunService.stop_model, of a tracked run: its job is the next stopped.  *)
LEMMA StopRunJobs ==
    ASSUME Inv, JobInv, NEW r \in cluster, NEW next \in Op, OwedOf(next) = Owed,
           next.pc \in Quiet => Owed = {},
           \/ next.pc \in ErrorPoints
           \/ next.pc = "replace" /\ op.pc = "replace" /\ next.seen = op.seen,
           op.pc \notin {"run", "launched", "stop"},
           StopRun(r, next), cloud' = cloud
    PROVE  JobInv'
<1>1. /\ row \in [Runs -> ModelRun] /\ cluster \subseteq Runs /\ r \in Runs /\ Sound(r)
  BY DEF Inv, TypeOK, JobInv
<1>2. /\ \A q \in Runs \ {r} : row'[q] = row[q]
      /\ row'[r].runner = row[r].runner /\ row'[r].job = row[r].job
  BY <1>1 DEF StopRun, ModelRun
<1>3. \/ /\ op' = [next EXCEPT !.pc = "stop", !.ret = next.pc, !.cur = r]
         /\ cluster' = cluster /\ row[r].runner # NONE
      \/ op' = next /\ cluster' = cluster \ {r} /\ row[r].runner = NONE
  BY DEF StopRun, InRunPhase
<1>4. /\ \/ op'.pc = "stop" /\ op'.ret = next.pc /\ op'.cur = r /\ cluster' = cluster /\ row[r].runner # NONE
         \/ op'.pc = next.pc /\ cluster' = cluster \ {r} /\ row[r].runner = NONE
      /\ op'.seen = next.seen /\ op'.errors = next.errors /\ op'.lost = next.lost
  <2>1. CASE op' = [next EXCEPT !.pc = "stop", !.ret = next.pc, !.cur = r]
    BY <1>3, <2>1 DEF Op
  <2>2. CASE op' = next
    BY <1>3, <2>2 DEF Op
  <2> QED
    BY <1>3, <2>1, <2>2
<1>5. Phase' = next.pc /\ Owed' = Owed
  <2>1. Phase' = next.pc
    BY <1>4 DEF Phase, ErrorPoints
  <2>2. Owed' = OwedOf(next)
    BY <1>4 DEF Owed, OwedOf
  <2> QED
    BY <2>1, <2>2
<1>6. Phase' \in {"runners", "replace"} => Phase = "replace" /\ op'.seen = op.seen
  BY <1>4, <1>5 DEF Phase, ErrorPoints
<1>7. TaskAlive(r)' = TaskAlive(r)
  BY DEF TaskAlive
<1>8. Sound(r)'
  <2>1. ErrorsOver(r)' /\ JobFollowed(r)'
    BY <1>1, <1>2, <1>5, <1>6, <1>7 DEF Sound, ErrorsOver, JobFollowed, ErrorPoints
  <2>2. InProgress(r)'
    BY <1>1, <1>2, <1>4, <1>5 DEF Sound, InProgress, InBuildPhase, JobUnknown, ErrorPoints
  <2>3. JobWanted(r)'
    BY <1>1, <1>4, <1>7 DEF Sound, JobWanted, JobFollowed, LiveStatus, NONE
  <2> QED
    BY <2>1, <2>2, <2>3 DEF Sound
<1>9. \A q \in Runs \ {r} :
          /\ row'[q] = row[q] /\ cloud'[q].task = cloud[q].task
          /\ q \in cluster' <=> q \in cluster
          /\ q \in Owed' <=> q \in Owed
          /\ ~(op'.pc \in {"run", "launched"} /\ op'.cur = q)
  BY <1>2, <1>4, <1>5 DEF ErrorPoints
<1>10. Phase' \notin {"builders"}
  BY <1>5 DEF ErrorPoints
<1> QED
  BY <1>5, <1>6, <1>8, <1>9, <1>10, OneRunSound

(* run_model, of a tracked run that is wanted, has no error and no job.    *)
LEMMA RunModelJobs ==
    ASSUME Inv, JobInv, NEW r \in cluster, NEW run \in ModelRun, row[r].runner = NONE,
           run.desired = row[r].desired, row[r].desired # "STOPPED", r \notin Owed,
           NEW next \in Op, OwedOf(next) = Owed,
           \/ next.pc = "idle" /\ Owed = {}
           \/ /\ next.pc = "builders" /\ op.pc = "builders"
              /\ \A s \in Runs : next.seen[s] \in {op.seen[s], Unseen[s]},
           op.pc \notin {"run", "launched", "stop"},
           RunModel(r, run, next), cluster' = cluster, cloud' = cloud
    PROVE  JobInv'
<1>1. /\ row \in [Runs -> ModelRun] /\ cluster \subseteq Runs /\ r \in Runs /\ Sound(r)
  BY DEF Inv, TypeOK, JobInv
<1>2. /\ row'[r].runner = "INITIALIZING" /\ row'[r].desired = row[r].desired
      /\ \A q \in Runs \ {r} : row'[q] = row[q]
  BY <1>1 DEF RunModel, ModelRun
<1>3. /\ op'.pc = "run" /\ op'.ret = next.pc /\ op'.cur = r /\ op'.seen = next.seen
      /\ op'.errors = next.errors /\ op'.lost = next.lost
  BY DEF RunModel, Op
<1>4. Phase' = next.pc /\ Owed' = Owed
  BY <1>3 DEF Phase, Owed, OwedOf
<1>5. ~TaskAlive(r)'
  BY <1>1 DEF Sound, JobFollowed, TaskAlive, LiveStatus, NONE
<1>6. Sound(r)'
  BY <1>2, <1>3, <1>4, <1>5
     DEF Sound, ErrorsOver, InProgress, JobFollowed, JobWanted, InBuildPhase, JobUnknown, NONE
<1>7. \A q \in Runs \ {r} :
          /\ row'[q] = row[q] /\ cloud'[q].task = cloud[q].task
          /\ q \in cluster' <=> q \in cluster
          /\ q \in Owed' <=> q \in Owed
          /\ ~(op'.pc \in {"run", "launched"} /\ op'.cur = q)
  BY <1>2, <1>3, <1>4
<1>8. /\ Phase' \in Quiet => Owed' = {}
      /\ Phase' \notin {"runners", "replace"}
      /\ Phase' = "builders" => /\ Phase = "builders"
                                /\ \A q \in Runs : op'.seen[q] \in {op.seen[q], Unseen[q]}
  BY <1>3, <1>4 DEF Phase, Quiet
<1> QED
  BY <1>6, <1>7, <1>8, OneRunSound

-----------------------------------------------------------------------------
(* The call moves on, and leaves the runs, the jobs and the errors alone.  *)
LEMMA MoveJobs ==
    ASSUME JobInv, UNCHANGED <<row, cluster>>, \A q \in Runs : cloud'[q].task = cloud[q].task,
           op.pc \notin {"run", "launched", "stop"}, op'.pc \notin {"run", "launched"},
           Owed' = Owed, Phase' \in Quiet => Owed = {},
           Phase' = "builders" => Phase = "builders" /\ op'.seen = op.seen,
           Phase' \in {"runners", "replace"} => Phase \in {"runners", "replace"} /\ op'.seen = op.seen
    PROVE  JobInv'
<1> DEFINE touched == {}
<1>1. \A r \in touched : r \in Runs => Sound(r)'
  OBVIOUS
<1>2. \A q \in Runs \ touched :
          /\ row'[q] = row[q]
          /\ cloud'[q].task = cloud[q].task
          /\ q \in cluster' <=> q \in cluster
          /\ q \in Owed' <=> q \in Owed
          /\ ~(op.pc \in {"run", "launched", "stop"} /\ op.cur = q)
          /\ ~(op'.pc \in {"run", "launched"} /\ op'.cur = q)
          /\ Phase' \in {"runners", "replace", "builders"}
                  => op'.seen[q] \in {op.seen[q], Unseen[q]}
  OBVIOUS
<1> HIDE DEF touched
<1> QED
  BY <1>1, <1>2, OthersSound

(* Where nothing is owed.                                                  *)
LEMMA QuietOwesNothing ==
    ASSUME Inv, JobInv, Phase \in Quiet
    PROVE  Owed = {}
<1>1. Owed \subseteq Runs
  BY OwedTypes DEF Owed, Inv, TypeOK
<1> QED
  BY <1>1 DEF JobInv, Sound, ErrorsOver

(* A call returns, or the next part of an update starts.                   *)
LEMMA FreshJobs ==
    ASSUME Inv, JobInv, NEW point \in Quiet, op'.pc = point, op'.lost = {}, op'.errors = <<>>,
           UNCHANGED <<row, cluster>>, \A q \in Runs : cloud'[q].task = cloud[q].task,
           op.pc \notin {"run", "launched", "stop"}, Owed = {}
    PROVE  JobInv'
<1>1. Owed' = {}
  BY DEF Owed, OwedOf
<1>2. Phase' = point /\ point \notin {"runners", "replace", "builders", "run", "launched"}
  BY DEF Phase, Quiet
<1> QED
  BY <1>1, <1>2, MoveJobs

(* There is no job yet.                                                    *)
LEMMA InitJobs ==
    ASSUME Init
    PROVE  JobInv
<1>1. op.pc = "idle" /\ Owed = {}
  BY DEF Init, NoOp, Owed, OwedOf
<1>2. \A r \in Runs : r \notin cluster /\ cloud[r].task = NONE
  BY DEF Init
<1> QED
  BY <1>1, <1>2 DEF JobInv, Sound, ErrorsOver, InProgress, JobFollowed, JobWanted, TaskAlive, NONE

(* A new run has no job, and the replaced one stays wanted.                *)
LEMMA StartModelJobs ==
    ASSUME Inv, EndInv, JobInv, NEW m \in Models, NEW c \in Configs, StartModel(m, c)
    PROVE  JobInv'
<1> USE ModelRunsAssumption
<1> PICK new \in Runs : new = nruns + 1
  BY DEF StartModel, Inv, TypeOK, Runs
<1> DEFINE rows == [r \in Runs |-> IF r \in Replaced(m)
                                   THEN [row[r] EXCEPT !.desired = "REPLACING"]
                                   ELSE row[r]]
           refused == [NewRun(m, c) EXCEPT !.failure = "IN_QUARANTINE", !.runner = "FAILED"]
           touched == Replaced(m) \cup {new}
<1>1. op.pc = "idle" /\ Phase = "idle"
  BY DEF StartModel, Phase
<1>2. row \in [Runs -> ModelRun] /\ cloud' = cloud /\ Owed = {}
  BY <1>1, QuietOwesNothing DEF Inv, TypeOK, StartModel, Quiet
<1>3. new \notin cluster /\ row[new].runner = NONE
  BY <1>1 DEF EndInv, Known, Inv, TypeOK
<1>4. ~TaskAlive(new)
  BY <1>1, <1>3 DEF JobInv, Sound, JobFollowed, LiveStatus, NONE
<1>5. \A r \in Runs : /\ rows[r].runner = row[r].runner /\ rows[r].job = row[r].job
                      /\ rows[r].builder = row[r].builder
                      /\ r \in Replaced(m) => rows[r].desired # "STOPPED"
                      /\ r \notin Replaced(m) => rows[r] = row[r]
  BY <1>2 DEF ModelRun
<1>6. DOMAIN rows = Runs /\ NewRun(m, c).runner = NONE /\ NewRun(m, c).builder = NONE
      /\ NewRun(m, c).desired = "RUNNING" /\ refused.runner = "FAILED"
  BY DEF NewRun, Blank
<1>7. Replaced(m) \subseteq cluster /\ cluster \subseteq Runs
  <2>1. ModelsByIdAndDesired(m, {"RUNNING"}) \in SUBSET Runs
    BY DEF ModelsByIdAndDesired, Inv, TypeOK
  <2>2. ModelsByIdAndDesired(m, {"RUNNING"}) # {} =>
            Oldest(ModelsByIdAndDesired(m, {"RUNNING"})) \in ModelsByIdAndDesired(m, {"RUNNING"})
    BY <2>1, OldestIsMember
  <2> QED
    BY <2>2 DEF Replaced, ModelsByIdAndDesired, Inv, TypeOK
<1> HIDE DEF rows, refused
<1>8. \/ /\ row' = [rows EXCEPT ![new] = refused] /\ cluster' = cluster /\ op' = op
      \/ /\ row' = [rows EXCEPT ![new] = NewRun(m, c)] /\ cluster' = cluster \cup {new}
         /\ op' = [NoOp EXCEPT !.pc = "is_built", !.cur = new]
  BY <1>1 DEF StartModel, rows, refused
<1>9. /\ \A r \in Runs \ {new} : row'[r] = rows[r] /\ (r \in cluster' <=> r \in cluster)
      /\ \/ row'[new].runner = "FAILED" /\ new \notin cluster'
         \/ row'[new].runner = NONE /\ row'[new].builder = NONE /\ row'[new].desired = "RUNNING"
  BY <1>1, <1>3, <1>6, <1>8
<1>10. op'.pc \in {"idle", "is_built"} /\ Phase' = "idle" /\ Owed' = {}
  <2>1. CASE op' = op
    BY <1>1, <1>2, <2>1 DEF Phase, Owed, OwedOf
  <2>2. CASE op' = [NoOp EXCEPT !.pc = "is_built", !.cur = new]
    BY <2>2 DEF NoOp, Phase, Owed, OwedOf
  <2> QED
    BY <1>8, <2>1, <2>2
<1>11. \A r \in Runs : TaskAlive(r)' = TaskAlive(r)
  BY <1>2 DEF TaskAlive
<1>12. Sound(new)'
  BY <1>1, <1>4, <1>9, <1>10, <1>11
     DEF Sound, ErrorsOver, InProgress, JobFollowed, JobWanted, InBuildPhase, JobUnknown, NONE
<1>13. ASSUME NEW r \in Replaced(m), r # new
       PROVE  Sound(r)'
  <2>1. /\ r \in Runs /\ r \in cluster' /\ r \in cluster /\ Sound(r)
        /\ row'[r].runner = row[r].runner /\ row'[r].job = row[r].job
        /\ row'[r].builder = row[r].builder /\ row'[r].desired # "STOPPED"
    BY <1>5, <1>7, <1>9, <1>13 DEF JobInv
  <2> QED
    BY <1>1, <1>2, <1>10, <1>11, <2>1
       DEF Sound, ErrorsOver, InProgress, JobFollowed, JobWanted, InBuildPhase, JobUnknown
<1>14. \A r \in touched : r \in Runs => Sound(r)'
  BY <1>12, <1>13
<1>15. \A q \in Runs \ touched :
           /\ row'[q] = row[q] /\ cloud'[q].task = cloud[q].task
           /\ q \in cluster' <=> q \in cluster
           /\ q \in Owed' <=> q \in Owed
  BY <1>2, <1>5, <1>9, <1>10
<1> HIDE DEF touched
<1> QED
  BY <1>1, <1>10, <1>14, <1>15, OthersSound DEF Quiet

(* The run of start_model is wanted.                                       *)
LEMMA IsBuiltJobs ==
    ASSUME Inv, EndInv, FollowInv, JobInv, IsBuilt
    PROVE  JobInv'
<1> USE ModelRunsAssumption
<1> PICK r \in Runs : r = op.cur
  BY DEF IsBuilt, Inv, CallInv
<1>1. /\ r \in cluster /\ op \in Op /\ row \in [Runs -> ModelRun] /\ row[r] \in ModelRun
      /\ row[r].runner = NONE /\ op.pc = "is_built" /\ Phase = "idle"
  BY DEF IsBuilt, Inv, CallInv, TypeOK, EndInv, InHand, FollowInv, Launching, Phase
<1>2. Owed = {}
  BY <1>1, QuietOwesNothing DEF Quiet
<1>3. row[r].desired # "STOPPED" /\ ~TaskAlive(r)
  BY <1>1 DEF JobInv, Sound, InProgress, JobFollowed, LiveStatus, NONE
<1>4. cluster' = cluster /\ cloud' = cloud
  BY DEF IsBuilt
<1>5. CASE RunModel(r, row[r], At(op, "idle"))
  <2>1. At(op, "idle") \in Op /\ At(op, "idle").pc = "idle"
    BY <1>1 DEF At, Op, Points
  <2>2. OwedOf(At(op, "idle")) = Owed
    BY <1>1 DEF At, Op, OwedOf, Owed
  <2> QED
    BY <1>1, <1>2, <1>3, <1>4, <1>5, <2>1, <2>2, RunModelJobs
<1>6. CASE row' = [row EXCEPT ![r].builder = "BUILDING"] /\ op' = At(op, "build")
  <2>1. /\ op'.pc = "build" /\ op'.ret = op.ret /\ op'.errors = op.errors /\ op'.lost = op.lost
    BY <1>1, <1>6 DEF At, Op
  <2>2. Phase' = "idle" /\ Owed' = {}
    BY <1>1, <1>2, <2>1 DEF Phase, Owed, OwedOf
  <2>3. /\ \A q \in Runs \ {r} : row'[q] = row[q]
        /\ row'[r].runner = NONE /\ row'[r].builder = "BUILDING"
        /\ row'[r].desired = row[r].desired
    BY <1>1, <1>6 DEF ModelRun
  <2>4. ~TaskAlive(r)'
    BY <1>3, <1>4 DEF TaskAlive
  <2>5. Sound(r)'
    BY <1>3, <2>1, <2>2, <2>3, <2>4
       DEF Sound, ErrorsOver, InProgress, JobFollowed, JobWanted, JobUnknown, NONE
  <2> QED
    BY <1>1, <1>2, <1>4, <2>1, <2>2, <2>3, <2>5, OneRunSound DEF Quiet
<1> QED
  BY <1>5, <1>6 DEF IsBuilt

(* Builder.build raises: the run has no job.                               *)
LEMMA BuildRaisesJobs ==
    ASSUME Inv, EndInv, FollowInv, JobInv, BuildRaises
    PROVE  JobInv'
<1>1. op.cur \in Runs /\ row[op.cur].runner = NONE /\ op.pc = "build" /\ Phase = "idle"
  BY DEF BuildRaises, Inv, CallInv, EndInv, InHand, FollowInv, Launching, Phase
<1>2. "BUILD_EXCEPTION" \in ErrorType
  BY DEF ErrorType, CloudProviderErrorType
<1>3. NoOp \in Op /\ NoOp.pc = "idle" /\ OwedOf(NoOp) = {}
  BY NoOpType DEF NoOp, OwedOf
<1>4. Owed = {}
  BY <1>1, QuietOwesNothing DEF Quiet
<1>5. NoOp.pc \in ErrorPoints /\ row[op.cur].runner \notin LiveStatus
  BY <1>1, <1>3 DEF ErrorPoints, LiveStatus, NONE
<1>6. HandleError(op.cur, "BUILD_EXCEPTION", NoOp) /\ cloud' = cloud
  BY DEF BuildRaises
<1> QED
  BY <1>1, <1>2, <1>3, <1>4, <1>5, <1>6, HandleErrorJobs

(* The build starts.                                                       *)
LEMMA BuildJobs ==
    ASSUME Inv, FollowInv, JobInv, Build
    PROVE  JobInv'
<1>1. /\ op.pc = "build" /\ Phase = "idle"
      /\ op'.pc = "idle" /\ op'.lost = {} /\ op'.errors = <<>>
  BY DEF Build, FollowInv, Launching, Phase, NoOp
<1>2. \A q \in Runs : cloud'[q].task = cloud[q].task
  BY DEF Build, Inv, TypeOK
<1>3. UNCHANGED <<row, cluster>>
  BY DEF Build
<1> QED
  BY <1>1, <1>2, <1>3, QuietOwesNothing, FreshJobs DEF Quiet

(* The run that is launched is wanted when its job comes to life.          *)
LEMMA RunJobs ==
    ASSUME Inv, EndInv, FollowInv, JobInv, Run
    PROVE  JobInv'
<1> PICK r \in Runs : r = op.cur
  BY DEF Run, Inv, CallInv
<1>1. /\ op \in Op /\ op.pc = "run" /\ op.ret \in {"idle", "builders"} /\ r \in cluster
      /\ row[r].runner = "INITIALIZING"
  BY DEF Run, Inv, TypeOK, FollowInv, Launching, EndInv, InHand
<1>2. /\ op'.pc = "launched" /\ op'.ret = op.ret /\ op'.cur = r /\ op'.seen = op.seen
      /\ op'.errors = op.errors /\ op'.lost = op.lost
  BY <1>1 DEF Run, At, Op
<1>3. row' = row /\ cluster' = cluster
  BY DEF Run
<1>4. \A q \in Runs \ {r} : cloud'[q].task = cloud[q].task
  BY DEF Run, Inv, TypeOK
<1>5. Phase' = Phase /\ Phase \in {"idle", "builders"} /\ Owed' = Owed
  BY <1>1, <1>2 DEF Phase, Owed, OwedOf
<1>6. Sound(r)
  BY DEF JobInv
<1>7. Sound(r)'
  <2>1. ErrorsOver(r)' /\ InProgress(r)'
    BY <1>1, <1>2, <1>3, <1>5, <1>6 DEF Sound, ErrorsOver, InProgress, InBuildPhase, JobUnknown
  <2>2. JobFollowed(r)' /\ JobWanted(r)'
    BY <1>1, <1>3, <1>5, <1>6 DEF Sound, InProgress, JobFollowed, JobWanted, LiveStatus
  <2> QED
    BY <2>1, <2>2 DEF Sound
<1>8. Phase' \in Quiet => Owed' = {}
  BY <1>5, QuietOwesNothing
<1> QED
  BY <1>1, <1>2, <1>3, <1>4, <1>5, <1>7, <1>8, OneRunSound

(* Its job is known from then on.                                          *)
LEMMA LaunchedJobs ==
    ASSUME Inv, EndInv, FollowInv, JobInv, Launched
    PROVE  JobInv'
<1> PICK r \in Runs : r = op.cur
  BY DEF Launched, Inv, CallInv
<1>1. /\ op \in Op /\ op.pc = "launched" /\ op.ret \in {"idle", "builders"}
      /\ row[r].runner = "INITIALIZING" /\ row \in [Runs -> ModelRun]
  BY DEF Launched, Inv, TypeOK, FollowInv, Launching
<1>2. /\ op'.pc = op.ret /\ op'.seen = op.seen /\ op'.errors = op.errors /\ op'.lost = op.lost
  BY <1>1 DEF Launched, Back, Op
<1>3. /\ \A q \in Runs \ {r} : row'[q] = row[q]
      /\ row'[r].runner = "INITIALIZING" /\ row'[r].desired = row[r].desired /\ row'[r].job
      /\ cluster' = cluster /\ cloud' = cloud
  BY <1>1 DEF Launched, ModelRun
<1>4. Phase' = Phase /\ Phase \in {"idle", "builders"} /\ Owed' = Owed
  BY <1>1, <1>2 DEF Phase, Owed, OwedOf
<1>5. Sound(r) /\ TaskAlive(r)' = TaskAlive(r)
  BY <1>3 DEF JobInv, TaskAlive
<1>6. Sound(r)'
  <2>1. ErrorsOver(r)' /\ InProgress(r)'
    BY <1>1, <1>2, <1>3, <1>4, <1>5
       DEF Sound, ErrorsOver, InProgress, InBuildPhase, JobUnknown, NONE
  <2>2. JobFollowed(r)' /\ JobWanted(r)'
    BY <1>1, <1>3, <1>4, <1>5 DEF Sound, JobFollowed, JobWanted, LiveStatus
  <2> QED
    BY <2>1, <2>2 DEF Sound
<1>7. Phase' \in Quiet => Owed' = {}
  BY <1>4, QuietOwesNothing
<1>8. op'.pc \notin {"run", "launched"}
  BY <1>1, <1>2
<1> QED
  BY <1>1, <1>2, <1>3, <1>4, <1>6, <1>7, <1>8, OneRunSound

(* stop_model takes a tracked run.                                         *)
LEMMA StopModelJobs ==
    ASSUME Inv, JobInv, NEW m \in Models, StopModel(m)
    PROVE  JobInv'
<1> DEFINE active == ModelsByIdAndDesired(m, {"RUNNING", "REPLACING"})
<1>1. active \in SUBSET Runs /\ active \subseteq cluster /\ active # {}
  BY DEF StopModel, ModelsByIdAndDesired, Inv, TypeOK
<1>2. Oldest(active) \in cluster
  BY <1>1, OldestIsMember
<1>3. StopRun(Oldest(active), NoOp) /\ cloud' = cloud /\ op.pc = "idle" /\ Phase = "idle"
  BY DEF StopModel, Phase
<1>4. Owed = {}
  BY <1>3, QuietOwesNothing DEF Quiet
<1>5. NoOp \in Op /\ NoOp.pc \in ErrorPoints /\ OwedOf(NoOp) = Owed
  BY <1>4, NoOpType DEF NoOp, OwedOf
<1> HIDE DEF active
<1> QED
  BY <1>2, <1>3, <1>4, <1>5, StopRunJobs

(* handle_error stops the run whose failure it has saved.                  *)
LEMMA HaltJobs ==
    ASSUME Inv, EndInv, JobInv, Halt
    PROVE  JobInv'
<1> USE ModelRunsAssumption
<1>1. /\ op.cur \in cluster /\ op \in Op /\ op.ret \in ErrorPoints /\ op.pc = "halt"
      /\ Phase = op.ret
  BY DEF Halt, Inv, CallInv, TypeOK, EndInv, InHand, Phase
<1>2. "idle" \in Points /\ 0 \in 0..MaxRuns
  BY DEF Points
<1>3. /\ Back \in Op /\ Back.pc = op.ret /\ Back.errors = op.errors /\ Back.lost = op.lost
  BY <1>1, <1>2 DEF Back, Op
<1>4. OwedOf(Back) = Owed
  BY <1>3 DEF OwedOf, Owed
<1>5. Back.pc \in Quiet => Owed = {}
  BY <1>1, <1>3, QuietOwesNothing
<1>6. StopRun(op.cur, Back) /\ cloud' = cloud
  BY DEF Halt
<1> QED
  BY <1>1, <1>3, <1>4, <1>5, <1>6, StopRunJobs

(* Runner.stop: the job that was to be stopped is not alive any more.      *)
LEMMA StopJobs ==
    ASSUME Inv, JobInv, Stop
    PROVE  JobInv'
<1> PICK r \in Runs : r = op.cur
  BY DEF Stop, Inv, CallInv
<1>1. /\ op \in Op /\ op.pc = "stop" /\ op.ret \in ReturnPoints /\ Phase = op.ret
      /\ row' = row /\ cluster' = cluster
  BY DEF Stop, Inv, TypeOK, CallInv, Phase
<1>2. /\ op'.pc = op.ret /\ op'.seen = op.seen /\ op'.errors = op.errors /\ op'.lost = op.lost
  BY <1>1 DEF Stop, Back, Op
<1>3. \A q \in Runs \ {r} : cloud'[q].task = cloud[q].task
  BY DEF Stop, Inv, TypeOK
<1>4. ~TaskAlive(r)'
  BY DEF Stop, Inv, TypeOK, TaskAlive
<1>5. Phase' = Phase /\ Owed' = Owed /\ op'.pc \notin {"run", "launched"}
  BY <1>1, <1>2 DEF Phase, Owed, OwedOf, ReturnPoints, ErrorPoints
<1>6. Sound(r)
  BY DEF JobInv
<1>7. Sound(r)'
  BY <1>1, <1>2, <1>4, <1>5, <1>6
     DEF Sound, ErrorsOver, InProgress, JobFollowed, JobWanted, InBuildPhase, JobUnknown
<1>8. Phase' \in Quiet => Owed' = {}
  BY <1>5, QuietOwesNothing
<1> QED
  BY <1>1, <1>2, <1>3, <1>5, <1>7, <1>8, OneRunSound

(* A report ends, or starts to end, a tracked run.                         *)
LEMMA HandleReportJobs ==
    ASSUME Inv, EndInv, JobInv, HandleReport
    PROVE  JobInv'
<1> DEFINE rep  == Head(op.pending)
           next == [op EXCEPT !.pending = Tail(@)]
<1>1. op \in Op /\ op.pc = "reports" /\ Phase = "reports"
  BY DEF HandleReport, Inv, TypeOK, Phase
<1>2. rep \in Report /\ Tail(op.pending) \in Seq(Report)
  BY <1>1 DEF HandleReport, Op
<1>3. next \in Op /\ next.pc = "reports" /\ next.errors = op.errors /\ next.lost = op.lost
  BY <1>1, <1>2 DEF Op
<1>4. Owed = {}
  BY <1>1, QuietOwesNothing DEF Quiet
<1>5. OwedOf(next) = {}
  BY <1>3, <1>4 DEF OwedOf, Owed
<1>6. rep.code \in ModelRunnerErrorType
  BY <1>2 DEF Report
<1>7. rep.code \in ErrorType /\ rep.code \notin CloudProviderErrorType \cup {"STOP_BEFORE_CLEANUP"}
  BY <1>6 DEF ErrorType, ModelRunnerErrorType, CloudProviderErrorType
<1>8. cloud' = cloud
  BY DEF HandleReport
<1>9. CASE \E r \in HeldFailed(rep) : HandleError(r, rep.code, next)
  <2>1. PICK r \in cluster : HandleError(r, rep.code, next)
    BY <1>9 DEF HeldFailed
  <2>2. r \in Runs
    BY TrackedAreRuns
  <2> HIDE DEF rep, next
  <2> QED
    BY <1>1, <1>3, <1>4, <1>5, <1>7, <1>8, <2>1, <2>2, HandleErrorJobs DEF ErrorPoints
<1>10. CASE op' = NoOp /\ UNCHANGED <<row, cluster>>
  <2>1. op'.pc = "idle" /\ op'.lost = {} /\ op'.errors = <<>>
    BY <1>10 DEF NoOp
  <2> QED
    BY <1>1, <1>4, <1>8, <1>10, <2>1, FreshJobs DEF Quiet
<1> QED
  BY <1>9, <1>10 DEF HandleReport

(* A part of the update ends, with what it owes.                           *)
LEMMA MoveOnJobs ==
    ASSUME Inv, JobInv, NEW point \in {"load", "runner_errors", "builder_errors"},
           op' = At(op, point), UNCHANGED <<row, cluster, cloud>>,
           op.pc \in {"reports", "runners", "builders"},
           point = "load" => op.pc = "reports"
    PROVE  JobInv'
<1>1. op \in Op
  BY DEF Inv, TypeOK
<1>2. op'.pc = point /\ op'.errors = op.errors /\ op'.lost = op.lost
  BY <1>1 DEF At, Op
<1>3. Phase = op.pc /\ Phase' = point /\ Owed' = Owed
  BY <1>2 DEF Phase, Owed, OwedOf
<1>4. Phase' \in Quiet => Owed = {}
  BY <1>3, QuietOwesNothing DEF Quiet
<1> QED
  BY <1>2, <1>3, <1>4, MoveJobs

(* The statuses loaded are those of the jobs; no run has lost its job.     *)
LEMMA LoadJobs ==
    ASSUME Inv, EndInv, JobInv, op.pc = "load", NEW seen,
           op' = [op EXCEPT !.pc = "runners", !.lost = {r \in ModelsInRunPhase : JobUnknown(r)},
                            !.seen = seen],
           \A r \in Runs : seen[r].status \in {cloud[r].task, NONE},
           UNCHANGED <<row, cluster, cloud>>
    PROVE  JobInv'
<1> DEFINE lost == {r \in ModelsInRunPhase : JobUnknown(r)}
<1>1. op \in Op /\ op.errors = <<>> /\ cluster \subseteq Runs /\ Phase = "load"
  BY DEF Inv, TypeOK, EndInv, Loops, Phase
<1>2. op'.pc = "runners" /\ op'.errors = <<>> /\ op'.lost = lost /\ op'.seen = seen
  BY <1>1 DEF Op
<1>3. lost = {}
  BY <1>1 DEF ModelsInRunPhase, JobInv, Sound, InProgress
<1> HIDE DEF lost
<1>4. Owed = {} /\ Owed' = {} /\ Phase' = "runners"
  BY <1>1, <1>2, <1>3, QuietOwesNothing DEF Owed, OwedOf, Phase, Quiet
<1> SUFFICES ASSUME NEW q \in Runs
             PROVE  Sound(q)'
  BY DEF JobInv
<1>5. Sound(q)
  BY DEF JobInv
<1>6. TaskAlive(q) => op'.seen[q].status \in LiveStatus \cup {NONE}
  BY <1>2 DEF TaskAlive, LiveStatus
<1> QED
  BY <1>2, <1>4, <1>5, <1>6, SameRunSound

(* LoadRunnerStates keeps the invariant.                                   *)
LEMMA LoadRunnerStatesJobs ==
    ASSUME Inv, EndInv, JobInv, LoadRunnerStates
    PROVE  JobInv'
<1> DEFINE seen == [r \in Runs |->
                      IF r \in ModelsInRunPhase /\ ~JobUnknown(r) /\ News(r)
                      THEN Loaded(r) ELSE Unseen[r]]
<1>1. \A r \in Runs : Unseen[r].status = NONE /\ Loaded(r).status = cloud[r].task
  BY DEF Unseen, Loaded
<1>2. \A r \in Runs : seen[r].status \in {cloud[r].task, NONE}
  BY <1>1
<1>3. op' = [op EXCEPT !.pc = "runners", !.lost = {r \in ModelsInRunPhase : JobUnknown(r)},
                       !.seen = seen]
  BY Zenon DEF LoadRunnerStates
<1>4. op.pc = "load" /\ UNCHANGED <<row, cluster, cloud>>
  BY DEF LoadRunnerStates
<1> HIDE DEF seen
<1> QED
  BY <1>2, <1>3, <1>4, LoadJobs

(* LoadRunnerStatesRaises keeps the invariant.                             *)
LEMMA LoadRunnerStatesRaisesJobs ==
    ASSUME Inv, EndInv, JobInv, LoadRunnerStatesRaises
    PROVE  JobInv'
<1>1. \A r \in Runs : Unseen[r].status = NONE
  BY DEF Unseen
<1> QED
  BY <1>1, LoadJobs DEF LoadRunnerStatesRaises

(* A status that is final has an error, unless the run leaves the cluster. *)
LEMMA AfterStatusOwes ==
    ASSUME NEW r \in Runs, NEW status \in {"FAILED", "STOPPED"}, NEW next \in Op,
           ~Leaves(r, status)
    PROVE  OwedOf(AfterStatus(r, status, next)) = OwedOf(next) \cup {r}
<1>1. {"RUN_FAILED", "STOP_BEFORE_CLEANUP", "STOP_UNEXPECTED"} \subseteq ErrorType
  BY DEF ErrorType, OrchestratorErrorType
<1>2. \E code \in ErrorType : AfterStatus(r, status, next) = Raise(next, r, code)
  <2>1. CASE status = "FAILED"
    BY <1>1, <2>1 DEF AfterStatus
  <2>2. CASE status = "STOPPED" /\ HasFailed(row[r])
    BY <1>1, <2>2 DEF AfterStatus
  <2>3. CASE status = "STOPPED" /\ ~HasFailed(row[r]) /\ row[r].desired # "STOPPED"
    BY <1>1, <2>3 DEF AfterStatus
  <2> QED
    BY <2>1, <2>2, <2>3 DEF Leaves
<1> QED
  BY <1>2, OwedRaise

(* One status is applied to its run, which has no error yet.               *)
LEMMA UpdateRunnerStateJobs ==
    ASSUME Inv, EndInv, JobInv, UpdateRunnerState
    PROVE  JobInv'
<1> USE ModelRunsAssumption
<1>1. Oldest(Processing) \in Processing
  <2>1. Processing \in SUBSET Runs /\ Processing # {}
    BY DEF UpdateRunnerState, Processing
  <2> QED
    BY <2>1, OldestIsMember
<1> PICK r \in Processing : r = Oldest(Processing)
  BY <1>1
<1> DEFINE s     == op.seen[r]
           next  == [op EXCEPT !.seen[r] = Unseen[r]]
           after == AfterStatus(r, s.status, next)
<1>2. /\ r \in Runs /\ r \in cluster /\ row[r].runner # NONE /\ s.status \in RunnerStatus
      /\ op.pc = "runners" /\ op \in Op /\ Phase = "runners"
      /\ row[r].job /\ r \notin Owed
  BY DEF UpdateRunnerState, Inv, CallInv, Phase, Processing, TypeOK, InRunPhase, EndInv, Loops
<1>3. /\ next \in Op /\ next.pc = "runners" /\ next.seen = [op.seen EXCEPT ![r] = Unseen[r]]
      /\ next.errors = op.errors /\ next.lost = op.lost
  <2>1. Unseen[r] \in [status : RunnerStatus \cup BuilderStatus \cup {NONE}, ip : 0..MaxAddr]
    BY <1>2 DEF Unseen
  <2>2. [op.seen EXCEPT ![r] = Unseen[r]] \in [Runs ->
            [status : RunnerStatus \cup BuilderStatus \cup {NONE}, ip : 0..MaxAddr]]
    BY <1>2, <2>1 DEF Op
  <2>3. next = [op EXCEPT !.seen = [op.seen EXCEPT ![r] = Unseen[r]]]
    BY <1>2 DEF Op
  <2> QED
    BY <1>2, <2>2, <2>3 DEF Op
<1>4. row' = [row EXCEPT ![r].runner = s.status, ![r].ip = s.ip]
  BY Zenon DEF UpdateRunnerState
<1>5. /\ op' = IF s.status # row[r].runner THEN after ELSE next
      /\ cluster' = IF s.status # row[r].runner /\ Leaves(r, s.status)
                    THEN cluster \ {r} ELSE cluster
      /\ cloud' = cloud
  BY Zenon DEF UpdateRunnerState
<1>6. OwedOf(next) = Owed
  BY <1>3 DEF OwedOf, Owed
<1>7. /\ OwedOf(after) \in {Owed, Owed \cup {r}}
      /\ r \in OwedOf(after) => s.status \in {"FAILED", "STOPPED"}
      /\ s.status \in {"FAILED", "STOPPED"} /\ ~Leaves(r, s.status) => r \in OwedOf(after)
      /\ after.pc \in {"runners", "replace"} /\ after.seen = next.seen
  <2> HIDE DEF s, next
  <2>1. after.seen = next.seen
    BY <1>2, <1>3, AfterStatusType DEF Inv
  <2> QED
    BY <1>2, <1>3, <1>6, <2>1, AfterStatusEnds, AfterStatusOwes
<1> HIDE DEF s, next, after
<1>8. Leaves(r, s.status) => s.status = "STOPPED"
  BY DEF Leaves
<1>9. /\ row'[r].runner = s.status /\ row'[r].job = row[r].job /\ row'[r].desired = row[r].desired
      /\ \A q \in Runs \ {r} : row'[q] = row[q]
  BY <1>2, <1>4 DEF Inv, TypeOK, ModelRun
<1>10. Sound(r) /\ TaskAlive(r)' = TaskAlive(r)
  BY <1>2, <1>5 DEF JobInv, TaskAlive
<1>11. row[r].runner \notin {"STOPPED", "FAILED"}
  BY <1>2, <1>10 DEF Sound, InProgress
<1>12. Owed' = IF s.status # row[r].runner THEN OwedOf(after) ELSE OwedOf(next)
  BY <1>5 DEF Owed
<1>13. /\ \A q \in Runs \ {r} : q \in Owed' <=> q \in Owed
       /\ r \in Owed' => s.status \in {"FAILED", "STOPPED"}
       /\ s.status \in {"FAILED", "STOPPED"} => r \in Owed' \/ r \notin cluster'
       /\ cluster' = cluster \/ (cluster' = cluster \ {r} /\ s.status = "STOPPED")
       /\ op'.pc \in {"runners", "replace"} /\ op'.seen = next.seen
  <2>1. CASE s.status # row[r].runner
    <3>1. /\ op' = after /\ Owed' = OwedOf(after)
          /\ cluster' = IF Leaves(r, s.status) THEN cluster \ {r} ELSE cluster
      BY <1>5, <1>12, <2>1
    <3>2. \A q \in Runs \ {r} : q \in Owed' <=> q \in Owed
      BY <1>7, <3>1
    <3> QED
      BY <1>7, <1>8, <3>1, <3>2
  <2>2. CASE s.status = row[r].runner
    <3>1. op' = next /\ Owed' = Owed /\ cluster' = cluster
      BY <1>5, <1>6, <1>12, <2>2
    <3> QED
      BY <1>2, <1>3, <1>11, <2>2, <3>1
  <2> QED
    BY <2>1, <2>2
<1>14. Phase' \in {"runners", "replace"}
  BY <1>13 DEF Phase
<1>15. /\ op'.seen[r] = Unseen[r] /\ Unseen[r].status = NONE
       /\ \A q \in Runs \ {r} : op'.seen[q] = op.seen[q]
  BY <1>2, <1>3, <1>13 DEF Op, Unseen
<1>16. TaskAlive(r) => s.status \in LiveStatus
  BY <1>2, <1>10 DEF Sound, JobFollowed, RunnerStatus, NONE, s
<1>17. Sound(r)'
  <2>1. ErrorsOver(r)' /\ JobFollowed(r)'
    BY <1>9, <1>10, <1>13, <1>14, <1>15, <1>16 DEF ErrorsOver, JobFollowed, Quiet
  <2>2. InProgress(r)'
    BY <1>2, <1>9, <1>13 DEF InProgress, InBuildPhase, JobUnknown, RunnerStatus, NONE
  <2>3. JobWanted(r)'
    BY <1>2, <1>9, <1>10, <1>13, <1>16 DEF Sound, JobWanted, LiveStatus
  <2> QED
    BY <2>1, <2>2, <2>3 DEF Sound
<1>18. \A q \in Runs \ {r} : row'[q] = row[q] /\ cloud'[q].task = cloud[q].task
                             /\ (q \in cluster' <=> q \in cluster)
  BY <1>5, <1>9, <1>13
<1> QED
  BY <1>2, <1>13, <1>14, <1>15, <1>17, <1>18, OneRunSound DEF Quiet

(* The replaced runs are stopped one after the other.                      *)
LEMMA StopReplacedJobs ==
    ASSUME Inv, EndInv, JobInv, StopReplaced
    PROVE  JobInv'
<1> USE ModelRunsAssumption
<1>1. /\ op \in Op /\ op.pc = "replace" /\ op.stops \subseteq cluster /\ cloud' = cloud
      /\ Phase = "replace"
  BY DEF StopReplaced, Inv, TypeOK, EndInv, Loops, Phase
<1>2. CASE op.stops = {}
  <2>1. /\ op'.pc = "runners" /\ op'.seen = op.seen /\ op'.errors = op.errors
        /\ op'.lost = op.lost
    BY <1>1, <1>2 DEF StopReplaced, At, Op
  <2>2. row' = row /\ cluster' = cluster
    BY <1>2 DEF StopReplaced
  <2>3. Owed' = Owed /\ Phase' = "runners"
    BY <2>1 DEF Owed, OwedOf, Phase
  <2> QED
    BY <1>1, <2>1, <2>2, <2>3, MoveJobs DEF Quiet
<1>3. CASE op.stops # {}
  <2> DEFINE r    == Oldest(op.stops)
             next == [op EXCEPT !.stops = op.stops \ {r}]
  <2>1. op.stops \in SUBSET Runs
    BY <1>1 DEF Op
  <2>2. r \in cluster
    BY <1>1, <1>3, <2>1, OldestIsMember
  <2>3. /\ next \in Op /\ next.pc = "replace" /\ next.seen = op.seen
        /\ next.errors = op.errors /\ next.lost = op.lost
    BY <1>1, <2>1 DEF Op
  <2>4. next = [op EXCEPT !.stops = @ \ {r}]
    BY <1>1 DEF Op
  <2>5. StopRun(r, next)
    BY <1>3, <2>4, Zenon DEF StopReplaced
  <2>6. OwedOf(next) = Owed
    BY <2>3 DEF OwedOf, Owed
  <2> HIDE DEF r, next
  <2> QED
    BY <1>1, <2>2, <2>3, <2>5, <2>6, StopRunJobs DEF Quiet
<1> QED
  BY <1>2, <1>3

(* One error less: the run it was about may owe another one.               *)
LEMMA OwedTailKeeps ==
    ASSUME NEW o \in Op, o.errors # <<>>
    PROVE  OwedOf(o) \ {Head(o.errors).run} \subseteq OwedOf([o EXCEPT !.errors = Tail(@)])
<1> DEFINE next == [o EXCEPT !.errors = Tail(@)]
<1>1. o.errors \in Seq(Error)
  BY DEF Op
<1>2. next.errors = Tail(o.errors) /\ next.lost = o.lost
  BY DEF Op
<1>3. /\ Head(o.errors) = o.errors[1]
      /\ \A i \in 2..Len(o.errors) : /\ i - 1 \in 1..Len(Tail(o.errors))
                                     /\ Tail(o.errors)[i - 1] = o.errors[i]
  BY <1>1
<1> HIDE DEF next
<1> SUFFICES ASSUME NEW r \in OwedOf(o), r # Head(o.errors).run
             PROVE  r \in OwedOf(next)
  BY DEF next
<1>4. CASE r \in o.lost
  BY <1>2, <1>4 DEF OwedOf
<1>5. CASE r \notin o.lost
  <2>1. PICK i \in 1..Len(o.errors) : r = o.errors[i].run
    BY <1>5 DEF OwedOf
  <2>2. i \in 2..Len(o.errors)
    BY <1>1, <1>3, <2>1
  <2>3. r = next.errors[i - 1].run /\ i - 1 \in 1..Len(next.errors)
    BY <1>2, <1>3, <2>1, <2>2
  <2> QED
    BY <2>3 DEF OwedOf
<1> QED
  BY <1>4, <1>5

(* The clean-up of a run that is owed it: its job, if any, is over.        *)
LEMMA HandleErrorsJobs ==
    ASSUME Inv, EndInv, JobInv, HandleErrors
    PROVE  JobInv'
<1>1. op \in Op /\ op.pc \in {"runner_errors", "builder_errors"} /\ op.pc \in ErrorPoints
  BY DEF HandleErrors, Inv, TypeOK, ErrorPoints
<1>2. ASSUME NEW r \in Runs, NEW code \in ErrorType, NEW next \in Op, r \in Owed,
             next.pc = op.pc, OwedOf(next) \subseteq Owed, Owed \ {r} \subseteq OwedOf(next),
             HandleError(r, code, next)
      PROVE  JobInv'
  <2>1. row[r].runner \notin LiveStatus
    BY <1>2 DEF JobInv, Sound, ErrorsOver, LiveStatus, NONE
  <2>2. next.pc \in ErrorPoints /\ next.pc \notin Quiet
    BY <1>1, <1>2 DEF Quiet
  <2>3. cloud' = cloud /\ op.pc \notin {"run", "launched", "stop"}
    BY <1>1 DEF HandleErrors
  <2> QED
    BY <1>2, <2>1, <2>2, <2>3, HandleErrorJobs
<1>3. CASE op.lost # {}
  <2> DEFINE r    == Oldest(op.lost)
             next == [op EXCEPT !.lost = op.lost \ {r}]
  <2>1. op.lost \in SUBSET Runs /\ "UNKNOWN" \in ErrorType
    BY <1>1 DEF Op, ErrorType, OrchestratorErrorType
  <2>2. r \in op.lost /\ r \in Runs
    BY <1>3, <2>1, OldestIsMember
  <2>3. next \in Op /\ next.pc = op.pc /\ next.errors = op.errors /\ next.lost = op.lost \ {r}
    BY <1>1, <2>1 DEF Op
  <2>4. next = [op EXCEPT !.lost = @ \ {Oldest(@)}]
    BY <1>1 DEF Op
  <2>5. HandleError(r, "UNKNOWN", next)
    BY <1>3, <2>4, Zenon DEF HandleErrors
  <2> HIDE DEF r, next
  <2>6. r \in Owed /\ OwedOf(next) \subseteq Owed /\ Owed \ {r} \subseteq OwedOf(next)
    BY <2>2, <2>3 DEF Owed, OwedOf
  <2> QED
    BY <1>2, <2>1, <2>2, <2>3, <2>5, <2>6
<1>4. CASE op.lost = {}
  <2> DEFINE error == Head(op.errors)
             next  == [op EXCEPT !.errors = Tail(op.errors)]
  <2>1. op.errors \in Seq(Error) /\ op.errors # <<>>
    BY <1>1, <1>4 DEF HandleErrors, Op
  <2>2. error \in Error /\ error.run \in Owed /\ Tail(op.errors) \in Seq(Error)
    BY <1>1, <2>1, OwedTypes DEF Owed
  <2>3. error.run \in Runs /\ error.code \in ErrorType
    BY <2>2 DEF Error
  <2>4. next \in Op /\ next.pc = op.pc
    BY <1>1, <2>2 DEF Op
  <2>5. next = [op EXCEPT !.errors = Tail(@)]
    BY <1>1 DEF Op
  <2>6. HandleError(error.run, error.code, next)
    BY <1>4, <2>5, Zenon DEF HandleErrors
  <2>7. OwedOf(next) \subseteq Owed /\ Owed \ {error.run} \subseteq OwedOf(next)
    BY <1>1, <2>1, <2>5, OwedTail, OwedTailKeeps DEF Owed
  <2> HIDE DEF error, next
  <2> QED
    BY <1>2, <2>2, <2>3, <2>4, <2>6, <2>7
<1> QED
  BY <1>3, <1>4

(* Nothing is owed any more.                                               *)
LEMMA ErrorsDoneJobs ==
    ASSUME Inv, JobInv, ErrorsDone
    PROVE  JobInv'
<1>1. /\ op.pc \in {"runner_errors", "builder_errors"} /\ op.lost = {} /\ op.errors = <<>>
      /\ UNCHANGED <<row, cluster, cloud>>
  BY DEF ErrorsDone
<1>2. Owed = {}
  BY <1>1 DEF Owed, OwedOf
<1>3. op'.pc \in Quiet /\ op'.lost = {} /\ op'.errors = <<>>
  BY DEF ErrorsDone, NoOp, Quiet
<1> QED
  BY <1>1, <1>2, <1>3, FreshJobs

(* No run whose build is looked at has an error.                           *)
LEMMA LoadBuilderStatesJobs ==
    ASSUME Inv, JobInv, LoadBuilderStates
    PROVE  JobInv'
<1>1. op \in Op /\ op.pc = "load_builds" /\ Phase = "load_builds"
  BY DEF LoadBuilderStates, Inv, TypeOK, Phase
<1>2. /\ op'.pc = "builders" /\ op'.errors = op.errors /\ op'.lost = op.lost
  BY <1>1 DEF LoadBuilderStates, Op
<1>3. Owed = {} /\ Owed' = {} /\ Phase' = "builders"
  BY <1>1, <1>2, QuietOwesNothing DEF Owed, OwedOf, Phase, Quiet
<1>4. UNCHANGED <<row, cluster, cloud>>
  BY DEF LoadBuilderStates
<1> SUFFICES ASSUME NEW q \in Runs
             PROVE  Sound(q)'
  BY DEF JobInv
<1>5. Sound(q)
  BY DEF JobInv
<1> QED
  BY <1>1, <1>2, <1>3, <1>4, <1>5, SameRunSound

(* One build result is applied to its run, which is wanted and has no      *)
(* error yet: a build that has not succeeded goes on or has an error.      *)
LEMMA UpdateBuilderStateJobs ==
    ASSUME Inv, EndInv, JobInv, UpdateBuilderState
    PROVE  JobInv'
<1> USE ModelRunsAssumption
<1>1. Oldest(Processing) \in Processing
  <2>1. Processing \in SUBSET Runs /\ Processing # {}
    BY DEF UpdateBuilderState, Processing
  <2> QED
    BY <2>1, OldestIsMember
<1> PICK r \in Processing : r = Oldest(Processing)
  BY <1>1
<1> DEFINE s     == op.seen[r].status
           next  == [op EXCEPT !.seen[r] = Unseen[r]]
           built == [row[r] EXCEPT !.builder = s]
<1>2. /\ r \in Runs /\ r \in cluster /\ s \in BuilderStatus
      /\ op.pc = "builders" /\ Phase = "builders" /\ op \in Op
      /\ row \in [Runs -> ModelRun] /\ row[r] \in ModelRun /\ row[r].runner = NONE
  BY DEF UpdateBuilderState, Inv, CallInv, Phase, Processing, TypeOK, EndInv, Loops
<1>3. /\ next \in Op /\ next.pc = "builders" /\ next.seen = [op.seen EXCEPT ![r] = Unseen[r]]
      /\ next.errors = op.errors /\ next.lost = op.lost
  <2>1. Unseen[r] \in [status : RunnerStatus \cup BuilderStatus \cup {NONE}, ip : 0..MaxAddr]
    BY <1>2 DEF Unseen
  <2>2. [op.seen EXCEPT ![r] = Unseen[r]] \in [Runs ->
            [status : RunnerStatus \cup BuilderStatus \cup {NONE}, ip : 0..MaxAddr]]
    BY <1>2, <2>1 DEF Op
  <2>3. next = [op EXCEPT !.seen = [op.seen EXCEPT ![r] = Unseen[r]]]
    BY <1>2 DEF Op
  <2> QED
    BY <1>2, <2>2, <2>3 DEF Op
<1>4. /\ built \in ModelRun /\ built.desired = row[r].desired /\ built.runner = NONE
      /\ built.builder = s
  BY <1>2 DEF ModelRun
<1>5. \/ RunModel(r, built, next)
      \/ /\ row' = [row EXCEPT ![r] = built] /\ op' = AfterBuild(r, s, next)
         /\ ~(s = "SUCCESS" /\ row[r].desired # "STOPPED")
  BY Zenon DEF UpdateBuilderState
<1>6. cluster' = cluster /\ cloud' = cloud
  BY DEF UpdateBuilderState
<1>7. OwedOf(next) = Owed
  BY <1>3 DEF OwedOf, Owed
<1>8. /\ next.seen[r] = Unseen[r] /\ Unseen[r].status = NONE
      /\ \A q \in Runs : next.seen[q] \in {op.seen[q], Unseen[q]}
  BY <1>2, <1>3 DEF Op, Unseen
<1>9. Sound(r) /\ s # NONE
  BY <1>2 DEF JobInv, BuilderStatus, NONE
<1> HIDE DEF s, next, built
<1>10. r \notin Owed /\ row[r].desired # "STOPPED" /\ ~TaskAlive(r)
  BY <1>2, <1>9 DEF Sound, ErrorsOver, InProgress, JobFollowed, LiveStatus, NONE, s
<1>11. CASE RunModel(r, built, next)
  BY <1>2, <1>3, <1>4, <1>6, <1>7, <1>8, <1>10, <1>11, RunModelJobs
<1>12. CASE row' = [row EXCEPT ![r] = built] /\ op' = AfterBuild(r, s, next) /\ s # "SUCCESS"
  <2>1. /\ \A q \in Runs \ {r} : row'[q] = row[q]
        /\ row'[r].runner = NONE /\ row'[r].builder = s /\ row'[r].desired # "STOPPED"
    BY <1>2, <1>4, <1>10, <1>12
  <2>2. row[r].builder # "FAILED"
    BY <1>2, <1>9, <1>10 DEF Sound, InProgress, InBuildPhase, NONE
  <2>3. /\ op'.pc = "builders" /\ op'.seen = next.seen
        /\ OwedOf(op') = IF s = "FAILED" THEN Owed \cup {r} ELSE Owed
    <3>1. "BUILD_FAILED" \in ErrorType
      BY DEF ErrorType, OrchestratorErrorType
    <3>2. CASE s = "FAILED"
      <4>1. op' = Raise(next, r, "BUILD_FAILED")
        BY <1>12, <2>2, <3>2 DEF AfterBuild
      <4> QED
        BY <1>2, <1>3, <1>7, <3>1, <3>2, <4>1, RaiseType, OwedRaise
    <3>3. CASE s # "FAILED"
      <4>1. op' = next
        BY <1>12, <3>3 DEF AfterBuild
      <4> QED
        BY <1>3, <1>7, <3>3, <4>1
    <3> QED
      BY <3>2, <3>3
  <2>4. Owed' = IF s = "FAILED" THEN Owed \cup {r} ELSE Owed
    BY <2>3 DEF Owed, OwedOf
  <2>5. Phase' = "builders" /\ ~TaskAlive(r)'
    BY <1>6, <1>10, <2>3 DEF Phase, TaskAlive
  <2>6. Sound(r)'
    <3>1. ErrorsOver(r)' /\ JobFollowed(r)' /\ JobWanted(r)'
      BY <1>8, <2>1, <2>3, <2>5 DEF ErrorsOver, JobFollowed, JobWanted, Quiet
    <3>2. InProgress(r)'
      BY <1>2, <1>12, <2>1, <2>3, <2>4
         DEF InProgress, InBuildPhase, JobUnknown, BuilderStatus, NONE
    <3> QED
      BY <3>1, <3>2 DEF Sound
  <2>7. \A q \in Runs \ {r} : /\ row'[q] = row[q] /\ cloud'[q].task = cloud[q].task
                              /\ (q \in cluster' <=> q \in cluster)
                              /\ (q \in Owed' <=> q \in Owed)
                              /\ op'.seen[q] \in {op.seen[q], Unseen[q]}
    BY <1>6, <1>8, <2>1, <2>3, <2>4
  <2> QED
    BY <1>2, <2>3, <2>5, <2>6, <2>7, OneRunSound DEF Quiet
<1> QED
  BY <1>5, <1>10, <1>11, <1>12

(* A job does not come to life again.                                      *)
LEMMA TaskMoveJobs ==
    ASSUME Inv, JobInv, NoRevival, NEW r \in Runs, TaskMove(r)
    PROVE  JobInv'
<1>1. /\ UNCHANGED <<row, cluster, op>>
      /\ \A q \in Runs \ {r} : cloud'[q].task = cloud[q].task
      /\ TaskAlive(r)' => TaskAlive(r)
  <2>1. PICK move \in TaskMoves :
            /\ move[1] = cloud[r].task
            /\ \/ cloud' = [cloud EXCEPT ![r].task = move[2]]
               \/ /\ move = <<"RECOVERING", "RUNNING">>
                  /\ cloud' = [cloud EXCEPT ![r].task = "RUNNING", ![r].addr = @ + 1]
    BY DEF TaskMove
  <2>2. /\ cloud'[r].task = move[2]
        /\ \A q \in Runs \ {r} : cloud'[q].task = cloud[q].task
    BY <2>1 DEF Inv, TypeOK
  <2> QED
    BY <2>1, <2>2 DEF TaskMove, NoRevival, TaskAlive, LiveStatus
<1>2. Phase' = Phase /\ Owed' = Owed
  BY <1>1 DEF Phase, Owed, OwedOf
<1> SUFFICES ASSUME NEW q \in Runs
             PROVE  Sound(q)'
  BY DEF JobInv
<1>3. Sound(q) /\ (TaskAlive(q)' => TaskAlive(q))
  BY <1>1 DEF JobInv, TaskAlive
<1> QED
  BY <1>1, <1>2, <1>3
     DEF Sound, ErrorsOver, InProgress, JobFollowed, JobWanted, InBuildPhase, JobUnknown

(* A step that leaves the call, the runs and the runner jobs alone.        *)
LEMMA SameCallJobs ==
    ASSUME JobInv, UNCHANGED <<row, cluster, op>>,
           \A q \in Runs : cloud'[q].task = cloud[q].task
    PROVE  JobInv'
<1>1. Phase' = Phase /\ Owed' = Owed
  BY DEF Phase, Owed, OwedOf
<1> SUFFICES ASSUME NEW q \in Runs
             PROVE  Sound(q)'
  BY DEF JobInv
<1>2. Sound(q) /\ TaskAlive(q)' = TaskAlive(q)
  BY DEF JobInv, TaskAlive
<1> QED
  BY <1>1, <1>2
     DEF Sound, ErrorsOver, InProgress, JobFollowed, JobWanted, InBuildPhase, JobUnknown

-----------------------------------------------------------------------------
(* The next step of the call that holds the lock, when calls return.       *)
LEMMA ProceedJobs ==
    ASSUME Inv, EndInv, FollowInv, JobInv, Proceed, CallsReturn
    PROVE  JobInv'
<1>1. CASE IsBuilt \/ Build \/ BuildRaises \/ Run \/ RunRaises \/ Launched
  <2>1. ~RunRaises
    BY DEF RunRaises, CallsReturn
  <2> QED
    BY <1>1, <2>1, IsBuiltJobs, BuildJobs, BuildRaisesJobs, RunJobs, LaunchedJobs
<1>2. CASE Halt \/ Stop \/ StopRaises \/ HandleReport \/ UpdateModelsInfo
  <2>1. ~StopRaises
    BY DEF StopRaises, CallsReturn
  <2>2. UpdateModelsInfo => JobInv'
    BY MoveOnJobs DEF UpdateModelsInfo
  <2> QED
    BY <1>2, <2>1, <2>2, HaltJobs, StopJobs, HandleReportJobs
<1>3. CASE \/ LoadRunnerStates \/ LoadRunnerStatesRaises
           \/ UpdateRunnerState \/ StopReplaced \/ RunnerStatesDone
  <2>1. RunnerStatesDone => JobInv'
    BY MoveOnJobs DEF RunnerStatesDone
  <2> QED
    BY <1>3, <2>1, LoadRunnerStatesJobs, LoadRunnerStatesRaisesJobs, UpdateRunnerStateJobs,
       StopReplacedJobs
<1>4. CASE \/ HandleErrors \/ ErrorsDone \/ LoadBuilderStates \/ LoadBuilderStatesRaises
           \/ UpdateBuilderState \/ BuilderStatesDone
  <2>1. ASSUME LoadBuilderStatesRaises
        PROVE  JobInv'
    <3>1. /\ op.pc = "load_builds" /\ Phase = "load_builds" /\ UNCHANGED <<row, cluster, cloud>>
          /\ op'.pc = "idle" /\ op'.lost = {} /\ op'.errors = <<>>
      BY <2>1 DEF LoadBuilderStatesRaises, Phase, NoOp
    <3> QED
      BY <3>1, QuietOwesNothing, FreshJobs DEF Quiet
  <2>2. BuilderStatesDone => JobInv'
    BY MoveOnJobs DEF BuilderStatesDone
  <2> QED
    BY <1>4, <2>1, <2>2, HandleErrorsJobs, ErrorsDoneJobs, LoadBuilderStatesJobs,
       UpdateBuilderStateJobs
<1> QED
  BY <1>1, <1>2, <1>3, <1>4 DEF Proceed

(* Every step keeps the invariant.                                         *)
LEMMA NextJobs ==
    ASSUME Inv, EndInv, FollowInv, JobInv, [Next]_vars, CallsReturn
    PROVE  JobInv'
<1>1. CASE \E m \in Models, c \in Configs : StartModel(m, c)
  BY <1>1, StartModelJobs
<1>2. CASE \E m \in Models : StopModel(m)
  BY <1>2, StopModelJobs
<1>3. CASE UpdatesStates
  <2>1. /\ op.pc = "idle" /\ Phase = "idle" /\ UNCHANGED <<row, cluster, cloud>>
        /\ op'.pc = "reports" /\ op'.lost = {} /\ op'.errors = <<>>
    BY <1>3 DEF UpdatesStates, Phase, NoOp
  <2> QED
    BY <2>1, QuietOwesNothing, FreshJobs DEF Quiet
<1>4. CASE GetAllModels
  BY <1>4, SameCallJobs DEF GetAllModels
<1>5. CASE Proceed
  BY <1>5, ProceedJobs
<1>6. CASE Environment
  <2>1. ~Crash
    BY DEF Crash, Inv, TypeOK, CallsReturn
  <2>2. CASE \E r \in Runs : TaskMove(r)
    BY <2>2, TaskMoveJobs DEF CallsReturn
  <2>3. CASE \E r \in Runs : ImageMove(r)
    <3>1. UNCHANGED <<row, cluster, op>> /\ \A q \in Runs : cloud'[q].task = cloud[q].task
      BY <2>3 DEF ImageMove, Inv, TypeOK
    <3> QED
      BY <3>1, SameCallJobs
  <2>4. CASE \E r \in Runs, code \in ModelRunnerErrorType : ReportModelRunnerFailure(r, code)
    BY <2>4, SameCallJobs DEF ReportModelRunnerFailure
  <2> QED
    BY <1>6, <2>1, <2>2, <2>3, <2>4 DEF Environment
<1>7. CASE UNCHANGED vars
  BY <1>7, SameCallJobs DEF vars
<1> QED
  BY <1>1, <1>2, <1>3, <1>4, <1>5, <1>6, <1>7 DEF Next

(* When calls return, every run that is not settled is followed: what the  *)
(* table says of a job that is alive is that it is, and a run that ends    *)
(* has an error to be handled before the update is over.                   *)
THEOREM JobInvariance ==
    ASSUME CallsReturn
    PROVE  Spec => []JobInv
<1>1. Init => JobInv
  BY InitJobs
<1>2. Inv /\ EndInv /\ FollowInv /\ JobInv /\ [Next]_vars => JobInv'
  BY NextJobs
<1>3. MaxCrashes = 0 /\ "stop" \notin Faults
  BY DEF CallsReturn
<1> QED
  BY <1>1, <1>2, <1>3, Invariance, EndInvariance, FollowInvariance, PTL DEF Spec

(* When calls return, a job that is alive between two calls belongs to a   *)
(* tracked run that is wanted, although other calls of the Builder and of  *)
(* the Runner raise, runs fail and are replaced.                           *)
THEOREM LiveWanted ==
    ASSUME CallsReturn
    PROVE  Spec => []LiveJobsWanted
<1>1. JobInv => LiveJobsWanted
  BY DEF JobInv, Sound, JobWanted, LiveJobsWanted, Idle
<1> QED
  BY <1>1, JobInvariance, PTL

(* When calls return, no tracked run is left between two calls in a status *)
(* that no update looks at.                                                *)
THEOREM NoRunStuck ==
    ASSUME CallsReturn
    PROVE  Spec => []NoStuckRun
<1>1. Inv /\ JobInv => NoStuckRun
  <2> SUFFICES ASSUME Inv, JobInv, Idle, NEW r \in cluster
               PROVE  /\ row[r].runner \notin {"STOPPED", "FAILED"}
                      /\ InBuildPhase(row[r]) => row[r].builder = "BUILDING"
                      /\ ~JobUnknown(r)
    BY DEF NoStuckRun
  <2>1. r \in Runs /\ Phase = "idle" /\ op.pc = "idle"
    BY DEF Inv, TypeOK, Idle, Phase
  <2>2. Sound(r)
    BY <2>1 DEF JobInv
  <2> QED
    BY <2>1, <2>2 DEF Sound, ErrorsOver, InProgress, Quiet
<1> QED
  BY <1>1, Invariance, JobInvariance, PTL

-----------------------------------------------------------------------------
(* What the coordinators are shown, whichever calls raise.                 *)

(* A run that is not to be stopped was last announced RUNNING exactly when *)
(* it is tracked and RUNNING, a tracked run with a status of the Runner    *)
(* has a job, and a number that is not given yet stands for nothing.       *)
ShownRun(r) ==
    /\ row[r].desired # "STOPPED" =>
            (told[r] = "RUNNING" <=> r \in cluster /\ row[r].runner = "RUNNING")
    /\ r \in cluster /\ row[r].runner \notin {NONE, "INITIALIZING"} => row[r].job
    /\ r \in cluster \/ row[r].runner # NONE \/ told[r] = "RUNNING" => r <= nruns

ShownRuns == \A r \in Runs : ShownRun(r)

(* The run in hand is one that was created.  Until it is launched it has   *)
(* not been up, and what is being stopped is marked so.                    *)
ShownInHand ==
    /\ op.pc \in {"is_built", "build", "run", "launched", "halt", "stop"} => op.cur <= nruns
    /\ op.pc \in {"is_built", "build"} => row[op.cur].runner = NONE
    /\ op.pc \in {"run", "launched"} => row[op.cur].runner = "INITIALIZING"
    /\ op.pc = "stop" => row[op.cur].desired = "STOPPED"

(* A run whose status is still to be applied has an error only if a stop   *)
(* of it has raised.                                                       *)
ShownLoops ==
    /\ Phase = "replace" => \A r \in op.stops : r <= nruns
    /\ Phase \in {"runners", "replace"} =>
            \A r \in Processing : row[r].job /\ (r \in Owed => row[r].desired = "STOPPED")
    /\ Phase = "builders" => \A r \in Processing : row[r].runner = NONE
    /\ Phase \in {"reports", "load"} => op.errors = <<>>

(* A run with an error is not up, unless a stop of it has raised.          *)
ShownOwed ==
    \A r \in Owed : r <= nruns /\ (row[r].runner = "RUNNING" => row[r].desired = "STOPPED")

ShownInv == ShownRuns /\ ShownInHand /\ ShownLoops /\ ShownOwed

(* A run whose fields, place and announcement a step leaves alone.         *)
LEMMA SameRunShown ==
    ASSUME NEW r \in Runs, ShownRun(r), nruns \in Nat, nruns' \in Nat, nruns <= nruns',
           row'[r].runner = row[r].runner, row'[r].desired = row[r].desired,
           row[r].job => row'[r].job,
           told'[r] = "RUNNING" <=> told[r] = "RUNNING",
           r \in cluster' <=> r \in cluster
    PROVE  ShownRun(r)'
<1>1. r \in Nat
  BY DEF Runs
<1>2. r <= nruns => r <= nruns'
  BY <1>1
<1> QED
  BY <1>2 DEF ShownRun

(* The value op takes when a call returns.                                 *)
LEMMA NoOpShown ==
    ASSUME op' = NoOp
    PROVE  ShownInHand' /\ ShownLoops' /\ ShownOwed'
<1>1. op'.pc = "idle" /\ op'.ret = "idle" /\ op'.lost = {} /\ op'.errors = <<>>
  BY DEF NoOp
<1>2. Owed' = {}
  BY <1>1 DEF Owed, OwedOf
<1> QED
  BY <1>1, <1>2 DEF ShownInHand, ShownLoops, ShownOwed, Phase

(* The runs with an error after a step that adds none and brings none up.  *)
LEMMA OwedShown ==
    ASSUME Inv, ShownInv, Owed' \subseteq Owed, nruns' = nruns,
           \A r \in Runs : /\ row'[r].runner = "RUNNING" => row[r].runner = "RUNNING"
                           /\ row[r].desired = "STOPPED" => row'[r].desired = "STOPPED"
    PROVE  ShownOwed'
<1>1. Owed \subseteq Runs
  BY OwedTypes DEF Owed, Inv, TypeOK
<1> QED
  BY <1>1 DEF ShownInv, ShownOwed

(* A step inside a loop.                                                   *)
LEMMA SameLoopShown ==
    ASSUME Inv, ShownInv, Phase' = Phase, nruns' = nruns,
           op'.seen = op.seen, op'.errors = op.errors, op'.lost = op.lost, op'.stops = op.stops,
           \A r \in Runs : /\ row[r].job => row'[r].job
                           /\ row'[r].runner = row[r].runner
                           /\ row[r].desired = "STOPPED" => row'[r].desired = "STOPPED"
    PROVE  ShownLoops' /\ ShownOwed'
<1>1. Owed' = Owed
  BY DEF Owed, OwedOf
<1>2. Processing' = Processing /\ Processing \subseteq Runs
  BY DEF Processing
<1>3. ShownOwed'
  BY <1>1, OwedShown
<1> QED
  BY <1>1, <1>2, <1>3 DEF ShownInv, ShownLoops

(* A step that leaves the runs and the announcements alone.                *)
LEMMA SameRunsShown ==
    ASSUME Inv, ShownInv, UNCHANGED <<row, cluster, nruns, told>>
    PROVE  ShownRuns'
BY DEF ShownInv, ShownRuns, ShownRun

(* handle_error, of a tracked run or of one that has an error.             *)
LEMMA HandleErrorShown ==
    ASSUME Inv, ShownInv, NEW r \in Runs, NEW code \in ErrorType, NEW next \in Op,
           next.pc \in ErrorPoints, OwedOf(next) \subseteq Owed,
           next.pc = "reports" => next.errors = <<>>,
           r <= nruns,
           \/ row[r].runner = "RUNNING" => row[r].desired = "STOPPED"
           \/ r \in cluster /\ code \notin CloudProviderErrorType \cup {"STOP_BEFORE_CLEANUP"},
           HandleError(r, code, next), nruns' = nruns, told' = told
    PROVE  ShownInv'
<1>1. /\ row \in [Runs -> ModelRun] /\ cluster \subseteq Runs /\ nruns \in Nat
      /\ WithFailure(row[r], code) \in ModelRun
  BY WithFailureType, ModelRunsAssumption DEF Inv, TypeOK
<1>2. /\ WithFailure(row[r], code).desired = row[r].desired
      /\ WithFailure(row[r], code).runner = row[r].runner
      /\ WithFailure(row[r], code).job = row[r].job
  BY <1>1 DEF WithFailure, ModelRun
<1>3. ShownRun(r)
  BY DEF ShownInv, ShownRuns
<1>4. Owed \subseteq Runs
  BY OwedTypes DEF Owed, Inv, TypeOK
<1>5. ASSUME NEW run \in ModelRun, run.desired = row[r].desired, FinalizeModelCleanup(r, run, next),
             row[r].runner = "RUNNING" => row[r].desired = "STOPPED"
      PROVE  ShownInv'
  <2>1. /\ row'[r].runner = "FAILED" /\ row'[r].desired = row[r].desired
        /\ \A q \in Runs \ {r} : row'[q] = row[q]
        /\ cluster' = cluster \ {r} /\ op' = next
    BY <1>1, <1>5 DEF FinalizeModelCleanup, ModelRun
  <2>2. ShownRun(r)'
    BY <1>3, <1>5, <2>1 DEF ShownRun, NONE
  <2>3. \A q \in Runs \ {r} : ShownRun(q)'
    BY <1>1, <2>1, SameRunShown DEF ShownInv, ShownRuns
  <2>4. ShownRuns'
    BY <2>2, <2>3 DEF ShownRuns
  <2>5. ShownInHand' /\ ShownLoops'
    BY <2>1 DEF ShownInHand, ShownLoops, Phase, ErrorPoints
  <2>6. \A q \in Runs : /\ row'[q].runner = "RUNNING" => row[q].runner = "RUNNING"
                        /\ row[q].desired = "STOPPED" => row'[q].desired = "STOPPED"
    BY <2>1
  <2>7. Owed' \subseteq Owed
    BY <2>1 DEF Owed
  <2>8. ShownOwed'
    BY <2>6, <2>7, OwedShown
  <2> QED
    BY <2>4, <2>5, <2>8 DEF ShownInv
<1>6. ASSUME row' = [row EXCEPT ![r] = WithFailure(row[r], code)],
             op' = [next EXCEPT !.pc = "halt", !.ret = next.pc, !.cur = r],
             cluster' = cluster
      PROVE  ShownInv'
  <2>1. \A q \in Runs : /\ row'[q].runner = row[q].runner /\ row'[q].desired = row[q].desired
                        /\ row'[q].job = row[q].job
    BY <1>1, <1>2, <1>6
  <2>2. /\ op'.pc = "halt" /\ op'.ret = next.pc /\ op'.cur = r
        /\ op'.errors = next.errors /\ op'.lost = next.lost
    BY <1>6 DEF Op
  <2>3. ShownRuns'
    BY <1>1, <1>6, <2>1, SameRunShown DEF ShownInv, ShownRuns
  <2>4. ShownInHand' /\ ShownLoops'
    BY <2>2 DEF ShownInHand, ShownLoops, Phase, ErrorPoints
  <2>5. Owed' \subseteq Owed
    BY <2>2 DEF Owed, OwedOf
  <2>6. ShownOwed'
    BY <2>1, <2>5, OwedShown
  <2> QED
    BY <2>3, <2>4, <2>6 DEF ShownInv
<1>7. r \in cluster /\ row[r].runner = "RUNNING" => IsRunActive(row[r])
  BY <1>3 DEF ShownRun, IsRunActive, NONE
<1>8. CASE code = "STOP_BEFORE_CLEANUP"
  BY <1>1, <1>5, <1>8 DEF HandleError
<1>9. CASE code # "STOP_BEFORE_CLEANUP" /\ IsRunActive(row[r]) /\ code \notin CloudProviderErrorType
  BY <1>6, <1>9 DEF HandleError
<1>10. CASE /\ code # "STOP_BEFORE_CLEANUP"
            /\ ~(IsRunActive(row[r]) /\ code \notin CloudProviderErrorType)
  <2>1. FinalizeModelCleanup(r, WithFailure(row[r], code), next)
    BY <1>10 DEF HandleError
  <2>2. row[r].runner = "RUNNING" => row[r].desired = "STOPPED"
    BY <1>7, <1>10
  <2> QED
    BY <2>1, <2>2, <1>1, <1>2, <1>5
<1> QED
  BY <1>8, <1>9, <1>10

(* _RunService.stop_model: the observers are told at once, whether or not  *)
(* the call of the Runner that follows raises.                             *)
LEMMA StopRunShown ==
    ASSUME Inv, ShownInv, NEW r \in Runs, r <= nruns, NEW next \in Op, OwedOf(next) \subseteq Owed,
           next.pc = "reports" => next.errors = <<>>,
           \/ next.pc \in ErrorPoints
           \/ /\ next.pc = "replace" /\ op.pc = "replace" /\ next.seen = op.seen
              /\ next.stops \subseteq op.stops,
           StopRun(r, next), nruns' = nruns
    PROVE  ShownInv'
<1>1. /\ row \in [Runs -> ModelRun] /\ cluster \subseteq Runs /\ nruns \in Nat
      /\ told \in [Runs -> RunnerStatus \cup {NONE}]
  BY ModelRunsAssumption DEF Inv, TypeOK
<1>2. \A q \in Runs : /\ row'[q].runner = row[q].runner
                      /\ row[q].job => row'[q].job
                      /\ q # r => row'[q].desired = row[q].desired
                      /\ row'[r].desired = "STOPPED"
  BY <1>1 DEF StopRun, ModelRun
<1>3. cluster' = cluster \/ cluster' = cluster \ {r}
  BY DEF StopRun
<1>4. /\ op'.pc \in {"stop", next.pc} /\ op'.errors = next.errors /\ op'.lost = next.lost
      /\ op'.stops = next.stops /\ op'.seen = next.seen
      /\ op'.pc = "stop" => op'.ret = next.pc /\ op'.cur = r
  <2>1. CASE op' = next
    BY <2>1 DEF ErrorPoints
  <2>2. CASE op' = [next EXCEPT !.pc = "stop", !.ret = next.pc, !.cur = r]
    BY <2>2 DEF Op
  <2> QED
    BY <2>1, <2>2 DEF StopRun
<1>5. Phase' = next.pc
  BY <1>4 DEF Phase, ErrorPoints
<1>6. /\ \A q \in Runs \ {r} : told'[q] = told[q]
      /\ told'[r] = "STOPPED"
  BY <1>1 DEF StopRun, Tell
<1>7. Owed' \subseteq Owed
  BY <1>4 DEF Owed, OwedOf
<1>8. ShownInHand'
  BY <1>2, <1>4 DEF ShownInHand, ErrorPoints
<1>9. ShownLoops'
  <2>1. CASE next.pc \in ErrorPoints
    BY <1>4, <1>5, <2>1 DEF ShownLoops, ErrorPoints
  <2>2. CASE /\ next.pc = "replace" /\ op.pc = "replace" /\ next.seen = op.seen
             /\ next.stops \subseteq op.stops
    <3>1. Processing' = Processing /\ Phase = "replace" /\ Processing \subseteq Runs
      BY <1>4, <2>2 DEF Processing, Phase
    <3>2. op'.stops \subseteq op.stops /\ \A q \in op.stops : q <= nruns
      BY <1>4, <2>2, <3>1 DEF ShownInv, ShownLoops
    <3>3. \A q \in Processing : row[q].job /\ (q \in Owed => row[q].desired = "STOPPED")
      BY <3>1 DEF ShownInv, ShownLoops
    <3>4. \A q \in Processing' : row'[q].job /\ (q \in Owed' => row'[q].desired = "STOPPED")
      BY <1>2, <1>7, <3>1, <3>3
    <3> QED
      BY <1>5, <2>2, <3>2, <3>4 DEF ShownLoops
  <2> QED
    BY <2>1, <2>2
<1>10. ShownOwed'
  <2>1. \A q \in Runs : /\ row'[q].runner = "RUNNING" => row[q].runner = "RUNNING"
                        /\ row[q].desired = "STOPPED" => row'[q].desired = "STOPPED"
    BY <1>2
  <2> QED
    BY <1>7, <2>1, OwedShown
<1>11. ShownRuns'
  <2>1. ShownRun(r)'
    <3>1. ShownRun(r)
      BY DEF ShownInv, ShownRuns
    <3> QED
      BY <1>2, <1>3, <1>6, <3>1 DEF ShownRun
  <2>2. ASSUME NEW q \in Runs \ {r}
        PROVE  ShownRun(q)'
    <3>1. ShownRun(q)
      BY DEF ShownInv, ShownRuns
    <3>2. q \in cluster' <=> q \in cluster
      BY <1>3
    <3> QED
      BY <1>1, <1>2, <1>6, <3>1, <3>2, SameRunShown
  <2> QED
    BY <2>1, <2>2 DEF ShownRuns
<1> QED
  BY <1>8, <1>9, <1>10, <1>11 DEF ShownInv

(* run_model, of a run without a status.                                   *)
LEMMA RunModelShown ==
    ASSUME Inv, ShownInv, NEW r \in Runs, NEW run \in ModelRun, row[r].runner = NONE, r <= nruns,
           run.desired = row[r].desired,
           NEW next \in Op, OwedOf(next) \subseteq Owed,
           \/ next.pc = "idle"
           \/ /\ next.pc = "builders" /\ op.pc = "builders"
              /\ next.seen[r] = Unseen[r]
              /\ \A s \in Runs : next.seen[s] \in {op.seen[s], Unseen[s]},
           RunModel(r, run, next), cluster' = cluster, nruns' = nruns, told' = told
    PROVE  ShownInv'
<1>1. /\ row \in [Runs -> ModelRun] /\ nruns \in Nat
  BY ModelRunsAssumption DEF Inv, TypeOK
<1>2. /\ row'[r].runner = "INITIALIZING" /\ row'[r].desired = row[r].desired
      /\ \A q \in Runs \ {r} : row'[q] = row[q]
  BY <1>1 DEF RunModel, ModelRun
<1>3. /\ op'.pc = "run" /\ op'.ret = next.pc /\ op'.cur = r /\ op'.seen = next.seen
      /\ op'.errors = next.errors /\ op'.lost = next.lost
  BY DEF RunModel, Op
<1>4. Owed' \subseteq Owed
  BY <1>3 DEF Owed, OwedOf
<1>5. ShownInHand'
  BY <1>2, <1>3 DEF ShownInHand
<1>6. ShownLoops'
  <2>1. Phase' = next.pc
    BY <1>3 DEF Phase
  <2>2. CASE next.pc = "idle"
    BY <2>1, <2>2 DEF ShownLoops
  <2>3. CASE /\ next.pc = "builders" /\ op.pc = "builders"
             /\ next.seen[r] = Unseen[r]
             /\ \A s \in Runs : next.seen[s] \in {op.seen[s], Unseen[s]}
    <3>1. \A q \in Processing' : q \in Processing /\ q \in Runs \ {r}
      BY <1>3, <2>3 DEF Processing, Unseen
    <3>2. \A q \in Processing : row[q].runner = NONE
      BY <2>3 DEF ShownInv, ShownLoops, Phase
    <3> QED
      BY <1>2, <2>1, <2>3, <3>1, <3>2 DEF ShownLoops
  <2> QED
    BY <2>2, <2>3
<1>7. ShownOwed'
  <2>1. \A q \in Runs : /\ row'[q].runner = "RUNNING" => row[q].runner = "RUNNING"
                        /\ row[q].desired = "STOPPED" => row'[q].desired = "STOPPED"
    BY <1>2
  <2> QED
    BY <1>4, <2>1, OwedShown
<1>8. ShownRuns'
  <2>1. ShownRun(r)'
    <3>1. ShownRun(r)
      BY DEF ShownInv, ShownRuns
    <3> QED
      BY <1>2, <3>1 DEF ShownRun, NONE
  <2>2. \A q \in Runs \ {r} : ShownRun(q)'
    BY <1>1, <1>2, SameRunShown DEF ShownInv, ShownRuns
  <2> QED
    BY <2>1, <2>2 DEF ShownRuns
<1> QED
  BY <1>5, <1>6, <1>7, <1>8 DEF ShownInv

(* Nothing has been created yet.                                           *)
LEMMA InitShown ==
    ASSUME Init
    PROVE  ShownInv
<1>1. op.pc = "idle" /\ op.ret = "idle" /\ Owed = {}
  BY DEF Init, NoOp, Owed, OwedOf
<1>2. \A r \in Runs : r \notin cluster /\ row[r].runner = NONE /\ told[r] = NONE
  BY DEF Init, Blank
<1> QED
  BY <1>1, <1>2 DEF ShownInv, ShownInHand, ShownLoops, ShownOwed, ShownRuns, ShownRun, Phase, NONE

(* A call returns and leaves the runs alone.                               *)
LEMMA ReturnShown ==
    ASSUME Inv, ShownInv, op' = NoOp, UNCHANGED <<row, cluster, nruns, told>>
    PROVE  ShownInv'
BY NoOpShown, SameRunsShown DEF ShownInv

(* A new run has never been announced; one that is to be replaced is shown *)
(* until it is stopped.                                                    *)
LEMMA StartModelShown ==
    ASSUME Inv, ShownInv, NEW m \in Models, NEW c \in Configs, StartModel(m, c)
    PROVE  ShownInv'
<1> USE ModelRunsAssumption
<1> DEFINE new  == nruns + 1
           rows == [r \in Runs |-> IF r \in Replaced(m)
                                   THEN [row[r] EXCEPT !.desired = "REPLACING"]
                                   ELSE row[r]]
           refused == [NewRun(m, c) EXCEPT !.failure = "IN_QUARANTINE", !.runner = "FAILED"]
<1>1. new \in Runs /\ nruns \in Nat /\ new \in Nat /\ ~(new <= nruns) /\ nruns <= new /\ op.pc = "idle"
  BY DEF StartModel, Inv, TypeOK, Runs
<1>2. cluster \subseteq Runs /\ row \in [Runs -> ModelRun]
  BY DEF Inv, TypeOK
<1>3. new \notin cluster /\ row[new].runner = NONE /\ told[new] # "RUNNING"
  BY <1>1 DEF ShownInv, ShownRuns, ShownRun
<1>4. \A r \in Replaced(m) : row[r].desired = "RUNNING"
  <2>1. ModelsByIdAndDesired(m, {"RUNNING"}) \in SUBSET Runs
    BY <1>2 DEF ModelsByIdAndDesired
  <2>2. ModelsByIdAndDesired(m, {"RUNNING"}) # {} =>
            Oldest(ModelsByIdAndDesired(m, {"RUNNING"})) \in ModelsByIdAndDesired(m, {"RUNNING"})
    BY <2>1, OldestIsMember
  <2> QED
    BY <2>2 DEF Replaced, ModelsByIdAndDesired
<1>5. \A r \in Runs : /\ rows[r].runner = row[r].runner /\ rows[r].job = row[r].job
                      /\ rows[r].desired = "STOPPED" <=> row[r].desired = "STOPPED"
  BY <1>2, <1>4 DEF ModelRun
<1>6. DOMAIN rows = Runs /\ NewRun(m, c).runner = NONE /\ refused.runner = "FAILED"
  BY DEF NewRun, Blank
<1>7. nruns' = new /\ told' = told
  BY DEF StartModel
<1> HIDE DEF new, rows, refused
<1>8. ASSUME \A r \in Runs \ {new} : row'[r] = rows[r],
             \A r \in Runs \ {new} : r \in cluster' <=> r \in cluster,
             \/ row'[new].runner = "FAILED" /\ cluster' = cluster
             \/ row'[new].runner = NONE
      PROVE  ShownRuns'
  <2>1. ASSUME NEW r \in Runs, r = new
        PROVE  ShownRun(r)'
    <3>1. r <= nruns'
      BY <1>1, <1>7, <2>1
    <3> QED
      BY <1>3, <1>7, <1>8, <2>1, <3>1 DEF ShownRun, NONE
  <2>2. ASSUME NEW r \in Runs \ {new}
        PROVE  ShownRun(r)'
    <3>1. r \in Nat /\ (r <= nruns => r <= new)
      BY <1>1 DEF Runs
    <3>2. ShownRun(r)
      BY DEF ShownInv, ShownRuns
    <3>3. /\ row'[r].runner = row[r].runner /\ row'[r].job = row[r].job
          /\ row'[r].desired = "STOPPED" <=> row[r].desired = "STOPPED"
      BY <1>5, <1>8
    <3> QED
      BY <1>7, <1>8, <3>1, <3>2, <3>3 DEF ShownRun
  <2> QED
    BY <2>1, <2>2 DEF ShownRuns
<1>9. CASE row' = [rows EXCEPT ![new] = refused] /\ cluster' = cluster /\ op' = op
  <2>1. /\ \A r \in Runs \ {new} : row'[r] = rows[r]
        /\ row'[new].runner = "FAILED"
    BY <1>1, <1>6, <1>9
  <2>2. ShownRuns'
    BY <1>8, <1>9, <2>1
  <2>3. ShownInHand' /\ ShownLoops' /\ Owed' = Owed
    BY <1>1, <1>9 DEF ShownInHand, ShownLoops, Phase, Owed, OwedOf
  <2>4. Owed \subseteq Runs
    BY OwedTypes DEF Owed, Inv, TypeOK
  <2>5. ShownOwed'
    <3> SUFFICES ASSUME NEW r \in Owed
                 PROVE  r <= new /\ (row'[r].runner = "RUNNING" => row'[r].desired = "STOPPED")
      BY <1>7, <2>3 DEF ShownOwed
    <3>1. /\ r \in Runs /\ r <= nruns /\ r \in Nat
          /\ row[r].runner = "RUNNING" => row[r].desired = "STOPPED"
      BY <2>4 DEF ShownInv, ShownOwed, Runs
    <3>2. r # new /\ r <= new
      BY <1>1, <3>1
    <3> QED
      BY <1>5, <2>1, <3>1, <3>2
  <2> QED
    BY <2>2, <2>3, <2>5 DEF ShownInv
<1>10. CASE /\ row' = [rows EXCEPT ![new] = NewRun(m, c)]
            /\ cluster' = cluster \cup {new}
            /\ op' = [NoOp EXCEPT !.pc = "is_built", !.cur = new]
  <2>1. /\ \A r \in Runs \ {new} : row'[r] = rows[r]
        /\ row'[new].runner = NONE
    BY <1>1, <1>6, <1>10
  <2>2. ShownRuns'
    BY <1>8, <1>10, <2>1
  <2>3. op'.pc = "is_built" /\ op'.ret = "idle" /\ op'.cur = new /\ Owed' = {}
    BY <1>10 DEF NoOp, Owed, OwedOf
  <2>4. ShownInHand' /\ ShownLoops' /\ ShownOwed'
    BY <1>1, <1>7, <2>1, <2>3 DEF ShownInHand, ShownLoops, ShownOwed, Phase
  <2> QED
    BY <2>2, <2>4 DEF ShownInv
<1> QED
  BY <1>9, <1>10 DEF StartModel, new, rows, refused

(* A step that keeps the runs, but for a job more, and announces none of   *)
(* them as RUNNING.                                                        *)
LEMMA SameStatusShown ==
    ASSUME Inv, ShownInv, cluster' = cluster, nruns' = nruns,
           \A r \in Runs : /\ row'[r].runner = row[r].runner /\ row'[r].desired = row[r].desired
                           /\ row[r].job => row'[r].job,
           \A r \in Runs : told'[r] = "RUNNING" <=> told[r] = "RUNNING"
    PROVE  ShownRuns'
<1>1. nruns \in Nat
  BY ModelRunsAssumption DEF Inv, TypeOK
<1> QED
  BY <1>1, SameRunShown DEF ShownInv, ShownRuns

(* The step that ends a call to the Runner comes back to its loop.         *)
LEMMA BackShown ==
    ASSUME Inv, ShownInv, op.pc \in {"run", "launched", "halt", "stop"}, op' = Back,
           cluster' = cluster, nruns' = nruns,
           \A r \in Runs : /\ row'[r].runner = row[r].runner /\ row'[r].desired = row[r].desired
                           /\ row[r].job => row'[r].job,
           \A r \in Runs : told'[r] = "RUNNING" <=> told[r] = "RUNNING"
    PROVE  ShownInv'
<1>1. op \in Op /\ op.ret \in ReturnPoints
  BY DEF Inv, TypeOK, CallInv
<1>2. /\ op'.pc = op.ret /\ op'.ret = "idle" /\ op'.seen = op.seen /\ op'.errors = op.errors
      /\ op'.lost = op.lost /\ op'.stops = op.stops
  BY <1>1 DEF Back, Op
<1>3. Phase' = Phase
  BY <1>1, <1>2 DEF Phase, ReturnPoints, ErrorPoints
<1>4. ShownInHand'
  BY <1>1, <1>2 DEF ShownInHand, ReturnPoints, ErrorPoints
<1>5. ShownLoops' /\ ShownOwed'
  BY <1>2, <1>3, SameLoopShown
<1>6. ShownRuns'
  BY SameStatusShown
<1> QED
  BY <1>4, <1>5, <1>6 DEF ShownInv

-----------------------------------------------------------------------------
(* The steps of the calls, in the order of Proceed.                        *)

(* start_model, once the Builder has said whether the image exists.        *)
LEMMA IsBuiltShown ==
    ASSUME Inv, ShownInv, IsBuilt
    PROVE  ShownInv'
<1> USE ModelRunsAssumption
<1>1. /\ op.cur \in Runs /\ op.cur <= nruns /\ op \in Op /\ row[op.cur] \in ModelRun
      /\ row[op.cur].runner = NONE /\ op.pc = "is_built"
  BY DEF IsBuilt, Inv, CallInv, TypeOK, ShownInv, ShownInHand
<1>2. cluster' = cluster /\ nruns' = nruns /\ told' = told
  BY DEF IsBuilt
<1>3. CASE RunModel(op.cur, row[op.cur], At(op, "idle"))
  <2>1. At(op, "idle") \in Op /\ At(op, "idle").pc = "idle"
    BY <1>1 DEF At, Op, Points
  <2>2. OwedOf(At(op, "idle")) \subseteq Owed
    BY <1>1 DEF At, Op, OwedOf, Owed
  <2> QED
    BY <1>1, <1>2, <1>3, <2>1, <2>2, RunModelShown
<1>4. CASE /\ row' = [row EXCEPT ![op.cur].builder = "BUILDING"]
           /\ op' = At(op, "build")
  <2>1. /\ op'.pc = "build" /\ op'.ret = op.ret /\ op'.cur = op.cur /\ op'.seen = op.seen
        /\ op'.errors = op.errors /\ op'.lost = op.lost /\ op'.stops = op.stops
    BY <1>1, <1>4 DEF At, Op
  <2>2. \A r \in Runs : /\ row'[r].runner = row[r].runner /\ row'[r].desired = row[r].desired
                        /\ row'[r].job = row[r].job
    BY <1>1, <1>4 DEF Inv, TypeOK, ModelRun
  <2>3. ShownInHand'
    BY <1>1, <1>2, <2>1, <2>2 DEF ShownInHand
  <2>4. Phase' = Phase
    BY <1>1, <2>1 DEF Phase
  <2>5. ShownLoops' /\ ShownOwed'
    BY <1>2, <2>1, <2>2, <2>4, SameLoopShown
  <2>6. ShownRuns'
    BY <1>2, <2>2, SameStatusShown
  <2> QED
    BY <2>3, <2>5, <2>6 DEF ShownInv
<1> QED
  BY <1>3, <1>4 DEF IsBuilt

(* Builder.build raises: the run was never up.                             *)
LEMMA BuildRaisesShown ==
    ASSUME Inv, ShownInv, BuildRaises
    PROVE  ShownInv'
<1>1. op.cur \in Runs /\ op.cur <= nruns /\ row[op.cur].runner = NONE
  BY DEF BuildRaises, Inv, CallInv, ShownInv, ShownInHand
<1>2. "BUILD_EXCEPTION" \in ErrorType
  BY DEF ErrorType, CloudProviderErrorType
<1>3. NoOp \in Op /\ NoOp.pc = "idle" /\ OwedOf(NoOp) \subseteq Owed
  BY NoOpType DEF NoOp, OwedOf
<1> QED
  BY <1>1, <1>2, <1>3, HandleErrorShown DEF BuildRaises, ErrorPoints, NONE

(* Runner.run creates the job.                                             *)
LEMMA RunShown ==
    ASSUME Inv, ShownInv, Run
    PROVE  ShownInv'
<1>1. op \in Op /\ op.pc = "run"
  BY DEF Run, Inv, TypeOK
<1>2. /\ op'.pc = "launched" /\ op'.ret = op.ret /\ op'.cur = op.cur /\ op'.seen = op.seen
      /\ op'.errors = op.errors /\ op'.lost = op.lost /\ op'.stops = op.stops
  BY <1>1 DEF Run, At, Op
<1>3. row' = row /\ cluster' = cluster /\ nruns' = nruns /\ told' = told
  BY DEF Run
<1>4. Phase' = Phase
  BY <1>1, <1>2 DEF Phase
<1>5. ShownInHand'
  BY <1>1, <1>2, <1>3 DEF ShownInv, ShownInHand
<1>6. ShownLoops' /\ ShownOwed'
  BY <1>2, <1>3, <1>4, SameLoopShown
<1>7. ShownRuns'
  BY <1>3, SameRunsShown
<1> QED
  BY <1>5, <1>6, <1>7 DEF ShownInv

(* Runner.run returns.                                                     *)
LEMMA LaunchedShown ==
    ASSUME Inv, ShownInv, Launched
    PROVE  ShownInv'
<1>1. op.cur \in Runs /\ row \in [Runs -> ModelRun] /\ told \in [Runs -> RunnerStatus \cup {NONE}]
  BY DEF Launched, Inv, CallInv, TypeOK
<1>2. /\ row' = [row EXCEPT ![op.cur].job = TRUE] /\ told' = [told EXCEPT ![op.cur] = "INITIALIZING"]
      /\ cluster' = cluster /\ nruns' = nruns /\ op' = Back /\ op.pc = "launched"
  BY DEF Launched, Tell
<1>3. /\ nruns \in Nat /\ ShownRun(op.cur) /\ row[op.cur].runner = "INITIALIZING"
  BY <1>1, <1>2, ModelRunsAssumption DEF Inv, TypeOK, ShownInv, ShownRuns, ShownInHand
<1>4. \A r \in Runs : /\ row'[r].runner = row[r].runner /\ row'[r].desired = row[r].desired
                      /\ row[r].job => row'[r].job
                      /\ r # op.cur => told'[r] = told[r]
  BY <1>1, <1>2 DEF ModelRun
<1>5. ShownRuns'
  <2>1. ASSUME NEW r \in Runs, r = op.cur
        PROVE  ShownRun(r)'
    BY <1>1, <1>2, <1>3, <1>4, <2>1 DEF ShownRun
  <2>2. ASSUME NEW r \in Runs, r # op.cur
        PROVE  ShownRun(r)'
    BY <1>2, <1>3, <1>4, <2>2, SameRunShown DEF ShownInv, ShownRuns
  <2> QED
    BY <2>1, <2>2 DEF ShownRuns
<1>6. op \in Op /\ op.ret \in ReturnPoints
  BY DEF Inv, TypeOK, CallInv
<1>7. /\ op'.pc = op.ret /\ op'.ret = "idle" /\ op'.seen = op.seen /\ op'.errors = op.errors
      /\ op'.lost = op.lost /\ op'.stops = op.stops
  BY <1>2, <1>6 DEF Back, Op
<1>8. Phase' = Phase
  BY <1>2, <1>6, <1>7 DEF Phase, ReturnPoints, ErrorPoints
<1>9. ShownInHand'
  BY <1>6, <1>7 DEF ShownInHand, ReturnPoints, ErrorPoints
<1>10. ShownLoops' /\ ShownOwed'
  BY <1>2, <1>4, <1>7, <1>8, SameLoopShown
<1> QED
  BY <1>5, <1>9, <1>10 DEF ShownInv

(* Runner.run raises: the run was never up.                                *)
LEMMA RunRaisesShown ==
    ASSUME Inv, ShownInv, RunRaises
    PROVE  ShownInv'
<1>1. op.cur \in Runs /\ op.cur <= nruns /\ row[op.cur].runner = "INITIALIZING"
  BY DEF RunRaises, Inv, CallInv, ShownInv, ShownInHand
<1>2. "RUN_EXCEPTION" \in ErrorType
  BY DEF ErrorType, CloudProviderErrorType
<1>3. NoOp \in Op /\ NoOp.pc = "idle" /\ OwedOf(NoOp) \subseteq Owed
  BY NoOpType DEF NoOp, OwedOf
<1>4. CASE op.ret = "idle"
  BY <1>1, <1>2, <1>3, <1>4, HandleErrorShown DEF RunRaises, ErrorPoints
<1>5. CASE op.ret # "idle"
  BY <1>5, ReturnShown DEF RunRaises
<1> QED
  BY <1>4, <1>5

(* A tracked run was created.                                              *)
LEMMA TrackedShown ==
    ASSUME Inv, ShownInv, NEW r \in cluster
    PROVE  r \in Runs /\ r <= nruns
BY DEF Inv, TypeOK, ShownInv, ShownRuns, ShownRun

(* stop_model takes a tracked run.                                         *)
LEMMA StopModelShown ==
    ASSUME Inv, ShownInv, NEW m \in Models, StopModel(m)
    PROVE  ShownInv'
<1> DEFINE active == ModelsByIdAndDesired(m, {"RUNNING", "REPLACING"})
<1>1. active \in SUBSET Runs /\ active \subseteq cluster /\ active # {}
  BY DEF StopModel, ModelsByIdAndDesired, Inv, TypeOK
<1>2. Oldest(active) \in cluster
  BY <1>1, OldestIsMember
<1>3. StopRun(Oldest(active), NoOp) /\ nruns' = nruns
  BY DEF StopModel
<1>4. NoOp \in Op /\ NoOp.pc = "idle" /\ OwedOf(NoOp) \subseteq Owed
  BY NoOpType DEF NoOp, OwedOf
<1> HIDE DEF active
<1> QED
  BY <1>2, <1>3, <1>4, StopRunShown, TrackedShown DEF ErrorPoints

(* handle_error stops the run whose failure it has saved.                  *)
LEMMA HaltShown ==
    ASSUME Inv, ShownInv, Halt
    PROVE  ShownInv'
<1> USE ModelRunsAssumption
<1>1. /\ op.cur \in Runs /\ op.cur <= nruns /\ op \in Op /\ op.ret \in ErrorPoints
      /\ op.pc = "halt"
  BY DEF Halt, Inv, CallInv, TypeOK, ShownInv, ShownInHand
<1>2. "idle" \in Points /\ 0 \in 0..MaxRuns
  BY DEF Points
<1>3. /\ Back \in Op /\ Back.pc = op.ret /\ Back.errors = op.errors /\ Back.lost = op.lost
  BY <1>1, <1>2 DEF Back, Op
<1>4. OwedOf(Back) \subseteq Owed
  BY <1>3 DEF OwedOf, Owed
<1>5. Back.pc = "reports" => Back.errors = <<>>
  BY <1>1, <1>3 DEF ShownInv, ShownLoops, Phase
<1>6. StopRun(op.cur, Back) /\ nruns' = nruns
  BY DEF Halt
<1> QED
  BY <1>1, <1>3, <1>4, <1>5, <1>6, StopRunShown

(* Runner.stop returns.                                                    *)
LEMMA StopShown ==
    ASSUME Inv, ShownInv, Stop
    PROVE  ShownInv'
BY BackShown DEF Stop

(* Runner.stop raises: the run goes on, announced as STOPPED and to be     *)
(* stopped; later it is cleaned up as if it had not been up.               *)
LEMMA StopRaisesShown ==
    ASSUME Inv, ShownInv, StopRaises
    PROVE  ShownInv'
<1> USE ModelRunsAssumption
<1>1. /\ op.cur \in Runs /\ op.cur <= nruns /\ op \in Op /\ op.ret \in ReturnPoints
      /\ op.pc = "stop" /\ row[op.cur].desired = "STOPPED" /\ nruns' = nruns /\ told' = told
  BY DEF StopRaises, Inv, CallInv, TypeOK, ShownInv, ShownInHand
<1>2. "RUN_EXCEPTION" \in ErrorType
  BY DEF ErrorType, CloudProviderErrorType
<1>3. CASE op.ret = "idle"
  <2>1. NoOp \in Op /\ NoOp.pc = "idle" /\ OwedOf(NoOp) \subseteq Owed
    BY NoOpType DEF NoOp, OwedOf
  <2>2. HandleError(op.cur, "RUN_EXCEPTION", NoOp)
    BY <1>3 DEF StopRaises
  <2> QED
    BY <1>1, <1>2, <2>1, <2>2, HandleErrorShown DEF ErrorPoints
<1>4. CASE op.ret = "replace"
  <2>1. "idle" \in Points /\ 0 \in 0..MaxRuns
    BY DEF Points
  <2>2. /\ Back \in Op /\ Back.pc = "replace" /\ Back.errors = op.errors /\ Back.lost = op.lost
        /\ Back.seen = op.seen /\ Back.stops = op.stops
    BY <1>1, <1>4, <2>1 DEF Back, Op, Points
  <2>3. op' = Raise(Back, op.cur, "RUN_EXCEPTION") /\ row' = row /\ cluster' = cluster
    BY <1>4 DEF StopRaises
  <2>4. OwedOf(Back) = Owed
    BY <2>2 DEF OwedOf, Owed
  <2>5. Owed' = Owed \cup {op.cur}
    <3>1. OwedOf(Raise(Back, op.cur, "RUN_EXCEPTION")) = OwedOf(Back) \cup {op.cur}
      BY <1>1, <1>2, <2>2, OwedRaise
    <3> QED
      BY <2>3, <2>4, <3>1 DEF Owed
  <2>6. op'.pc = "replace" /\ op'.seen = op.seen /\ op'.stops = op.stops
    BY <2>2, <2>3 DEF Raise, Op
  <2>7. Phase = "replace" /\ Phase' = "replace" /\ Processing' = Processing
    BY <1>1, <1>4, <2>6 DEF Phase, Processing
  <2>8. ShownLoops'
    BY <1>1, <2>3, <2>5, <2>6, <2>7 DEF ShownInv, ShownLoops
  <2>9. ShownOwed'
    BY <1>1, <2>3, <2>5 DEF ShownInv, ShownOwed
  <2>10. ShownInHand'
    BY <2>6 DEF ShownInHand
  <2>11. ShownRuns'
    BY <1>1, <2>3, SameRunsShown
  <2> QED
    BY <2>8, <2>9, <2>10, <2>11 DEF ShownInv
<1>5. CASE op.ret \notin {"idle", "replace"}
  BY <1>1, <1>5, ReturnShown DEF StopRaises
<1> QED
  BY <1>3, <1>4, <1>5

(* A report ends, or starts to end, a run that is tracked.                 *)
LEMMA HandleReportShown ==
    ASSUME Inv, ShownInv, HandleReport
    PROVE  ShownInv'
<1> DEFINE rep  == Head(op.pending)
           next == [op EXCEPT !.pending = Tail(@)]
<1>1. op \in Op /\ op.pc = "reports" /\ op.errors = <<>>
  BY DEF HandleReport, Inv, TypeOK, ShownInv, ShownLoops, Phase
<1>2. rep \in Report /\ Tail(op.pending) \in Seq(Report)
  BY <1>1 DEF HandleReport, Op
<1>3. /\ next \in Op /\ next.pc = "reports" /\ next.errors = op.errors /\ next.lost = op.lost
  BY <1>1, <1>2 DEF Op
<1>4. OwedOf(next) \subseteq Owed
  BY <1>3 DEF OwedOf, Owed
<1>5. rep.code \in ModelRunnerErrorType
  BY <1>2 DEF Report
<1>6. rep.code \in ErrorType /\ rep.code \notin CloudProviderErrorType \cup {"STOP_BEFORE_CLEANUP"}
  BY <1>5 DEF ErrorType, ModelRunnerErrorType, CloudProviderErrorType
<1>7. nruns' = nruns /\ told' = told
  BY DEF HandleReport
<1>8. CASE \E r \in HeldFailed(rep) : HandleError(r, rep.code, next)
  <2>1. PICK r \in cluster : HandleError(r, rep.code, next)
    BY <1>8 DEF HeldFailed
  <2>2. r \in Runs /\ r <= nruns
    BY TrackedAreRuns, TrackedShown
  <2> HIDE DEF rep, next
  <2> QED
    BY <1>1, <1>3, <1>4, <1>6, <1>7, <2>1, <2>2, HandleErrorShown DEF ErrorPoints
<1>9. CASE op' = NoOp /\ UNCHANGED <<row, cluster>>
  BY <1>7, <1>9, ReturnShown
<1> QED
  BY <1>8, <1>9 DEF HandleReport

(* The observers are told that a run is up when it is, and such a run is   *)
(* tracked.                                                                *)
LEMMA TellRunningShown ==
    ASSUME Inv, ShownInv, NEW renamed, TellRunning(renamed), UNCHANGED <<row, cluster, nruns>>
    PROVE  ShownRuns'
<1> SUFFICES ASSUME NEW r \in Runs
             PROVE  ShownRun(r)'
  BY DEF ShownRuns
<1>1. ShownRun(r)
  BY DEF ShownInv, ShownRuns
<1>2. CASE told'[r] = told[r]
  BY <1>1, <1>2 DEF ShownRun
<1>3. CASE told'[r] = "RUNNING" /\ row[r].runner = "RUNNING"
  <2>1. r \in cluster
    BY <1>3 DEF Inv, ActiveRunsTracked, LoadActive, NONE
  <2> QED
    BY <1>1, <1>3, <2>1 DEF ShownRun
<1> QED
  BY <1>2, <1>3 DEF TellRunning, IsRunning

(* UpdateModelsInfo keeps the invariant.                                   *)
LEMMA UpdateModelsInfoShown ==
    ASSUME Inv, ShownInv, UpdateModelsInfo
    PROVE  ShownInv'
<1>1. op \in Op /\ op.pc = "reports" /\ op' = At(op, "load")
  BY DEF UpdateModelsInfo, Inv, TypeOK
<1>2. op'.pc = "load" /\ op'.errors = op.errors /\ op'.lost = op.lost
  BY <1>1 DEF At, Op
<1>3. row' = row /\ cluster' = cluster /\ nruns' = nruns
  BY DEF UpdateModelsInfo
<1>4. ShownInHand' /\ Owed' = Owed
  BY <1>2 DEF ShownInHand, Owed, OwedOf
<1>5. ShownLoops'
  BY <1>1, <1>2 DEF ShownInv, ShownLoops, Phase
<1>6. ShownOwed'
  BY <1>3, <1>4, OwedShown
<1>7. ShownRuns'
  BY <1>3, TellRunningShown DEF UpdateModelsInfo
<1> QED
  BY <1>4, <1>5, <1>6, <1>7 DEF ShownInv

(* A step that leaves the call and the runs alone.                         *)
LEMMA SameCallShown ==
    ASSUME Inv, ShownInv, UNCHANGED <<row, cluster, op, nruns>>, ShownRuns'
    PROVE  ShownInv'
BY DEF ShownInv, ShownInHand, ShownLoops, ShownOwed, Phase, Processing, Owed, OwedOf

(* What is loaded from the Runner concerns runs with a job; a tracked run  *)
(* without one, which is still INITIALIZING, has an error.                 *)
LEMMA LoadShown ==
    ASSUME Inv, ShownInv, op.pc = "load", NEW seen,
           op' = [op EXCEPT !.pc = "runners", !.lost = {r \in ModelsInRunPhase : JobUnknown(r)},
                            !.seen = seen],
           \A r \in Runs : seen[r].status # NONE => r \in ModelsInRunPhase /\ ~JobUnknown(r),
           UNCHANGED <<row, cluster, nruns, told>>
    PROVE  ShownInv'
<1> DEFINE lost == {r \in ModelsInRunPhase : JobUnknown(r)}
<1>1. op \in Op /\ op.errors = <<>> /\ cluster \subseteq Runs
  BY DEF Inv, TypeOK, ShownInv, ShownLoops, Phase
<1>2. op'.pc = "runners" /\ op'.errors = <<>> /\ op'.lost = lost /\ op'.seen = seen
  BY <1>1 DEF Op
<1>3. \A r \in lost : r \in cluster /\ row[r].runner = "INITIALIZING" /\ ~row[r].job
  BY DEF ModelsInRunPhase, JobUnknown
<1> HIDE DEF lost
<1>4. Owed' = lost
  BY <1>2 DEF Owed, OwedOf
<1>5. \A r \in Processing' : row[r].job
  BY <1>2 DEF Processing, ModelsInRunPhase, JobUnknown, InRunPhase, ShownInv, ShownRuns, ShownRun
<1>6. ShownInHand' /\ ShownLoops'
  BY <1>2, <1>3, <1>4, <1>5 DEF ShownInHand, ShownLoops, Phase
<1>7. ShownOwed'
  BY <1>3, <1>4, TrackedShown DEF ShownOwed
<1>8. ShownRuns'
  BY SameRunsShown
<1> QED
  BY <1>6, <1>7, <1>8 DEF ShownInv

(* LoadRunnerStates keeps the invariant.                                   *)
LEMMA LoadRunnerStatesShown ==
    ASSUME Inv, ShownInv, LoadRunnerStates
    PROVE  ShownInv'
<1> DEFINE seen == [r \in Runs |->
                      IF r \in ModelsInRunPhase /\ ~JobUnknown(r) /\ News(r)
                      THEN Loaded(r) ELSE Unseen[r]]
<1>1. \A r \in Runs : Unseen[r].status = NONE
  BY DEF Unseen
<1>2. \A r \in Runs : seen[r].status # NONE => r \in ModelsInRunPhase /\ ~JobUnknown(r)
  BY <1>1
<1>3. op' = [op EXCEPT !.pc = "runners", !.lost = {r \in ModelsInRunPhase : JobUnknown(r)},
                       !.seen = seen]
  BY Zenon DEF LoadRunnerStates
<1>4. op.pc = "load" /\ UNCHANGED <<row, cluster, nruns, told>>
  BY DEF LoadRunnerStates
<1> HIDE DEF seen
<1> QED
  BY <1>2, <1>3, <1>4, LoadShown

(* LoadRunnerStatesRaises keeps the invariant.                             *)
LEMMA LoadRunnerStatesRaisesShown ==
    ASSUME Inv, ShownInv, LoadRunnerStatesRaises
    PROVE  ShownInv'
<1>1. \A r \in Runs : Unseen[r].status = NONE
  BY DEF Unseen
<1> QED
  BY <1>1, LoadShown DEF LoadRunnerStatesRaises

(* One status is applied to its run and announced.                         *)
LEMMA UpdateRunnerStateShown ==
    ASSUME Inv, ShownInv, UpdateRunnerState
    PROVE  ShownInv'
<1> USE ModelRunsAssumption
<1> DEFINE r     == Oldest(Processing)
           s     == op.seen[r]
           next  == [op EXCEPT !.seen[r] = Unseen[r]]
           after == AfterStatus(r, s.status, next)
<1>1. r \in Processing
  <2>1. Processing \in SUBSET Runs /\ Processing # {}
    BY DEF UpdateRunnerState, Processing
  <2> QED
    BY <2>1, OldestIsMember
<1>2. /\ r \in Runs /\ r \in cluster /\ r <= nruns /\ s.status \in RunnerStatus
      /\ op.pc = "runners" /\ op \in Op /\ nruns \in Nat
      /\ row[r].job /\ (r \in Owed => row[r].desired = "STOPPED")
  <2>1. op.pc = "runners" /\ Phase = "runners" /\ op \in Op /\ nruns \in Nat
    BY DEF UpdateRunnerState, Phase, Inv, TypeOK
  <2>2. r \in Runs /\ r \in cluster /\ s.status \in RunnerStatus
    BY <1>1, <2>1 DEF Inv, CallInv, Processing
  <2>3. row[r].job /\ (r \in Owed => row[r].desired = "STOPPED")
    BY <1>1, <2>1 DEF ShownInv, ShownLoops
  <2> HIDE DEF r
  <2> QED
    BY <2>1, <2>2, <2>3, TrackedShown
<1>3. /\ next \in Op /\ next.pc = "runners" /\ next.seen = [op.seen EXCEPT ![r] = Unseen[r]]
      /\ next.errors = op.errors /\ next.lost = op.lost
  <2>1. Unseen[r] \in [status : RunnerStatus \cup BuilderStatus \cup {NONE}, ip : 0..MaxAddr]
    BY <1>2 DEF Unseen
  <2>2. [op.seen EXCEPT ![r] = Unseen[r]] \in [Runs ->
            [status : RunnerStatus \cup BuilderStatus \cup {NONE}, ip : 0..MaxAddr]]
    BY <1>2, <2>1 DEF Op
  <2>3. next = [op EXCEPT !.seen = [op.seen EXCEPT ![r] = Unseen[r]]]
    BY <1>2 DEF Op
  <2> QED
    BY <1>2, <2>2, <2>3 DEF Op
<1>4. row' = [row EXCEPT ![r].runner = s.status, ![r].ip = s.ip]
  BY Zenon DEF UpdateRunnerState
<1>5. told' = [told EXCEPT ![r] = s.status]
  BY Zenon DEF UpdateRunnerState, Tell
<1>6. \/ op' = next /\ cluster' = cluster
      \/ /\ op' = after
         /\ cluster' = IF Leaves(r, s.status) THEN cluster \ {r} ELSE cluster
  <2>1. /\ op' = IF s.status # row[r].runner THEN after ELSE next
        /\ cluster' = IF s.status # row[r].runner /\ Leaves(r, s.status)
                      THEN cluster \ {r} ELSE cluster
    BY Zenon DEF UpdateRunnerState
  <2> HIDE DEF r, s, next, after
  <2> QED
    BY <2>1
<1>7. nruns' = nruns
  BY DEF UpdateRunnerState
<1>8. OwedOf(next) = Owed
  BY <1>3 DEF OwedOf, Owed
<1>9. /\ OwedOf(after) = Owed \/ (OwedOf(after) = Owed \cup {r} /\ s.status \in {"FAILED", "STOPPED"})
      /\ \/ after.pc = "runners"
         \/ after.pc = "replace" /\ after.stops \subseteq cluster
      /\ after.seen = next.seen
  <2> HIDE DEF r, s, next
  <2>1. after.seen = next.seen
    BY <1>2, <1>3, AfterStatusType DEF Inv
  <2> QED
    BY <1>2, <1>3, <1>8, <2>1, AfterStatusEnds
<1> HIDE DEF r, s, next, after
<1>10. Leaves(r, s.status) => s.status = "STOPPED"
  BY DEF Leaves
<1>11. /\ row'[r].runner = s.status /\ row'[r].job = row[r].job /\ row'[r].desired = row[r].desired
       /\ \A q \in Runs \ {r} : row'[q] = row[q]
       /\ told'[r] = s.status
       /\ \A q \in Runs \ {r} : told'[q] = told[q]
  BY <1>2, <1>4, <1>5 DEF Inv, TypeOK, ModelRun
<1>12. /\ Owed' = Owed \/ (Owed' = Owed \cup {r} /\ s.status \in {"FAILED", "STOPPED"})
       /\ op'.pc \in {"runners", "replace"}
       /\ op'.pc = "replace" => op'.stops \subseteq cluster
       /\ op'.seen = next.seen
       /\ cluster' = cluster \/ (cluster' = cluster \ {r} /\ s.status = "STOPPED")
  <2>1. CASE op' = next /\ cluster' = cluster
    BY <1>3, <1>8, <2>1 DEF Owed, OwedOf
  <2>2. CASE op' = after /\ cluster' = IF Leaves(r, s.status) THEN cluster \ {r} ELSE cluster
    <3>1. Owed' = OwedOf(after)
      BY <2>2 DEF Owed, OwedOf
    <3> QED
      BY <1>9, <1>10, <2>2, <3>1
  <2> QED
    BY <1>6, <2>1, <2>2
<1>13. Owed \subseteq Runs /\ \A q \in cluster : q <= nruns
  BY OwedTypes, TrackedShown DEF Owed, Inv, TypeOK
<1>14. ShownInHand'
  BY <1>12 DEF ShownInHand
<1>15. ShownLoops'
  <2>1. Processing' = Processing \ {r} /\ Processing \subseteq Runs
    BY <1>2, <1>3, <1>12 DEF Processing, Unseen, Op
  <2>2. \A q \in Processing : row[q].job /\ (q \in Owed => row[q].desired = "STOPPED")
    BY <1>2 DEF ShownInv, ShownLoops, Phase
  <2>3. \A q \in Processing' : row'[q].job /\ (q \in Owed' => row'[q].desired = "STOPPED")
    BY <1>11, <1>12, <2>1, <2>2
  <2>4. Phase' = op'.pc
    BY <1>12 DEF Phase
  <2> QED
    BY <1>7, <1>12, <1>13, <2>3, <2>4 DEF ShownLoops
<1>16. ShownOwed'
  <2> SUFFICES ASSUME NEW q \in Owed'
               PROVE  q <= nruns /\ (row'[q].runner = "RUNNING" => row'[q].desired = "STOPPED")
    BY <1>7 DEF ShownOwed
  <2>1. CASE q \in Owed /\ q # r
    BY <1>11, <1>13, <2>1 DEF ShownInv, ShownOwed
  <2>2. CASE q = r
    BY <1>2, <1>11, <1>12, <2>2
  <2> QED
    BY <1>12, <2>1, <2>2
<1>17. ShownRuns'
  <2>1. ASSUME NEW q \in Runs, q = r
        PROVE  ShownRun(q)'
    BY <1>2, <1>7, <1>11, <1>12, <2>1 DEF ShownRun
  <2>2. ASSUME NEW q \in Runs, q # r
        PROVE  ShownRun(q)'
    BY <1>2, <1>7, <1>11, <1>12, <2>2, SameRunShown DEF ShownInv, ShownRuns
  <2> QED
    BY <2>1, <2>2 DEF ShownRuns
<1> QED
  BY <1>14, <1>15, <1>16, <1>17 DEF ShownInv

(* The replaced runs were created.                                         *)
LEMMA StopReplacedShown ==
    ASSUME Inv, ShownInv, StopReplaced
    PROVE  ShownInv'
<1> USE ModelRunsAssumption
<1>1. /\ op \in Op /\ op.pc = "replace" /\ nruns' = nruns
      /\ \A r \in op.stops : r <= nruns
  BY DEF StopReplaced, Inv, TypeOK, ShownInv, ShownLoops, Phase
<1>2. CASE op.stops = {}
  <2>1. /\ op'.pc = "runners" /\ op'.seen = op.seen /\ op'.errors = op.errors
        /\ op'.lost = op.lost
    BY <1>1, <1>2 DEF StopReplaced, At, Op
  <2>2. row' = row /\ cluster' = cluster /\ told' = told
    BY <1>2 DEF StopReplaced
  <2>3. Owed' = Owed /\ Processing' = Processing
    BY <2>1 DEF Owed, OwedOf, Processing
  <2>4. ShownInHand' /\ ShownLoops'
    BY <1>1, <2>1, <2>2, <2>3 DEF ShownInv, ShownInHand, ShownLoops, Phase
  <2>5. ShownOwed' /\ ShownRuns'
    BY <1>1, <2>2, <2>3, OwedShown, SameRunsShown
  <2> QED
    BY <2>4, <2>5 DEF ShownInv
<1>3. CASE op.stops # {}
  <2> DEFINE r    == Oldest(op.stops)
             next == [op EXCEPT !.stops = op.stops \ {r}]
  <2>1. op.stops \in SUBSET Runs
    BY <1>1 DEF Op
  <2>2. r \in op.stops
    BY <1>3, <2>1, OldestIsMember
  <2>3. /\ next \in Op /\ next.pc = "replace" /\ next.seen = op.seen
        /\ next.errors = op.errors /\ next.lost = op.lost /\ next.stops = op.stops \ {r}
    BY <1>1, <2>1 DEF Op
  <2>4. next = [op EXCEPT !.stops = @ \ {r}]
    BY <1>1 DEF Op
  <2>5. StopRun(r, next)
    BY <1>3, <2>4, Zenon DEF StopReplaced
  <2>6. OwedOf(next) \subseteq Owed
    BY <2>3 DEF OwedOf, Owed
  <2>7. r \in Runs /\ r <= nruns /\ next.stops \subseteq op.stops
    BY <1>1, <2>1, <2>2, <2>3
  <2> HIDE DEF r, next
  <2> QED
    BY <1>1, <2>3, <2>5, <2>6, <2>7, StopRunShown
<1> QED
  BY <1>2, <1>3

(* A loop ends.                                                            *)
LEMMA MoveOnShown ==
    ASSUME Inv, ShownInv, NEW point \in {"runner_errors", "builder_errors"},
           op' = At(op, point), UNCHANGED <<row, nruns, cluster, told>>
    PROVE  ShownInv'
<1>1. op \in Op
  BY DEF Inv, TypeOK
<1>2. op'.pc = point /\ op'.errors = op.errors /\ op'.lost = op.lost
  BY <1>1 DEF At, Op
<1>3. ShownInHand' /\ ShownLoops' /\ Owed' = Owed
  BY <1>2 DEF ShownInHand, ShownLoops, Phase, Owed, OwedOf
<1>4. ShownOwed' /\ ShownRuns'
  BY <1>3, OwedShown, SameRunsShown
<1> QED
  BY <1>3, <1>4 DEF ShownInv

(* The error of a run that is not up, or of one a stop of which has raised.*)
LEMMA HandleErrorsShown ==
    ASSUME Inv, ShownInv, HandleErrors
    PROVE  ShownInv'
<1>1. op \in Op /\ op.pc \in {"runner_errors", "builder_errors"} /\ op.pc \in ErrorPoints
  BY DEF HandleErrors, Inv, TypeOK, ErrorPoints
<1>2. ASSUME NEW r \in Runs, NEW code \in ErrorType, NEW next \in Op, r \in Owed,
             next.pc = op.pc, OwedOf(next) \subseteq Owed, HandleError(r, code, next)
      PROVE  ShownInv'
  <2>1. r <= nruns /\ (row[r].runner = "RUNNING" => row[r].desired = "STOPPED")
    BY <1>2 DEF ShownInv, ShownOwed
  <2>2. next.pc \in ErrorPoints /\ next.pc # "reports"
    BY <1>1, <1>2
  <2>3. nruns' = nruns /\ told' = told
    BY DEF HandleErrors
  <2> QED
    BY <1>2, <2>1, <2>2, <2>3, HandleErrorShown
<1>3. CASE op.lost # {}
  <2> DEFINE r    == Oldest(op.lost)
             next == [op EXCEPT !.lost = op.lost \ {r}]
  <2>1. op.lost \in SUBSET Runs /\ "UNKNOWN" \in ErrorType
    BY <1>1 DEF Op, ErrorType, OrchestratorErrorType
  <2>2. r \in op.lost /\ r \in Runs
    BY <1>3, <2>1, OldestIsMember
  <2>3. next \in Op /\ next.pc = op.pc /\ next.errors = op.errors /\ next.lost = op.lost \ {r}
    BY <1>1, <2>1 DEF Op
  <2>4. next = [op EXCEPT !.lost = @ \ {Oldest(@)}]
    BY <1>1 DEF Op
  <2>5. HandleError(r, "UNKNOWN", next)
    BY <1>3, <2>4, Zenon DEF HandleErrors
  <2> HIDE DEF r, next
  <2>6. r \in Owed /\ OwedOf(next) \subseteq Owed
    BY <2>2, <2>3 DEF Owed, OwedOf
  <2> QED
    BY <1>2, <2>1, <2>2, <2>3, <2>5, <2>6
<1>4. CASE op.lost = {}
  <2> DEFINE error == Head(op.errors)
             next  == [op EXCEPT !.errors = Tail(op.errors)]
  <2>1. op.errors \in Seq(Error) /\ op.errors # <<>>
    BY <1>1, <1>4 DEF HandleErrors, Op
  <2>2. error \in Error /\ error.run \in Owed /\ Tail(op.errors) \in Seq(Error)
    BY <1>1, <2>1, OwedTypes DEF Owed
  <2>3. error.run \in Runs /\ error.code \in ErrorType
    BY <2>2 DEF Error
  <2>4. next \in Op /\ next.pc = op.pc
    BY <1>1, <2>2 DEF Op
  <2>5. next = [op EXCEPT !.errors = Tail(@)]
    BY <1>1 DEF Op
  <2>6. HandleError(error.run, error.code, next)
    BY <1>4, <2>5, Zenon DEF HandleErrors
  <2>7. OwedOf(next) \subseteq Owed
    BY <1>1, <2>1, <2>5, OwedTail DEF Owed
  <2> HIDE DEF error, next
  <2> QED
    BY <1>2, <2>2, <2>3, <2>4, <2>6, <2>7
<1> QED
  BY <1>3, <1>4

(* No error is left.                                                       *)
LEMMA ErrorsDoneShown ==
    ASSUME Inv, ShownInv, ErrorsDone
    PROVE  ShownInv'
<1>1. CASE op' = [NoOp EXCEPT !.pc = "load_builds"]
  <2>1. op'.pc = "load_builds" /\ op'.lost = {} /\ op'.errors = <<>>
    BY <1>1 DEF NoOp
  <2>2. ShownInHand' /\ ShownLoops' /\ ShownOwed'
    BY <2>1 DEF ShownInHand, ShownLoops, ShownOwed, Phase, Owed, OwedOf
  <2>3. ShownRuns'
    BY SameRunsShown DEF ErrorsDone
  <2> QED
    BY <2>2, <2>3 DEF ShownInv
<1>2. CASE op' = NoOp
  BY <1>2, ReturnShown DEF ErrorsDone
<1> QED
  BY <1>1, <1>2 DEF ErrorsDone

(* What is loaded from the Builder concerns runs without a status.         *)
LEMMA LoadBuilderStatesShown ==
    ASSUME Inv, ShownInv, LoadBuilderStates
    PROVE  ShownInv'
<1> DEFINE seen == [r \in Runs |->
                      IF r \in ModelsInBuildPhase /\ BuildNews(r)
                      THEN [status |-> cloud[r].image, ip |-> 0]
                      ELSE Unseen[r]]
<1>1. op \in Op /\ op' = [op EXCEPT !.pc = "builders", !.seen = seen]
  BY DEF LoadBuilderStates, Inv, TypeOK
<1>2. \A r \in Runs : seen[r].status # NONE => row[r].runner = NONE
  BY DEF Unseen, ModelsInBuildPhase, InBuildPhase
<1> HIDE DEF seen
<1>3. /\ op'.pc = "builders" /\ op'.errors = op.errors /\ op'.lost = op.lost /\ op'.seen = seen
  BY <1>1 DEF Op
<1>4. row' = row /\ cluster' = cluster /\ nruns' = nruns /\ told' = told
  BY DEF LoadBuilderStates
<1>5. ShownInHand' /\ ShownLoops' /\ Owed' = Owed
  BY <1>2, <1>3, <1>4 DEF ShownInHand, ShownLoops, Phase, Processing, Owed, OwedOf
<1>6. ShownOwed' /\ ShownRuns'
  BY <1>4, <1>5, OwedShown, SameRunsShown
<1> QED
  BY <1>5, <1>6 DEF ShownInv

(* One build result is applied to its run, which has no status yet.        *)
LEMMA UpdateBuilderStateShown ==
    ASSUME Inv, ShownInv, UpdateBuilderState
    PROVE  ShownInv'
<1> USE ModelRunsAssumption
<1> DEFINE r     == Oldest(Processing)
           s     == op.seen[r].status
           next  == [op EXCEPT !.seen[r] = Unseen[r]]
           built == [row[r] EXCEPT !.builder = s]
<1>1. r \in Processing
  <2>1. Processing \in SUBSET Runs /\ Processing # {}
    BY DEF UpdateBuilderState, Processing
  <2> QED
    BY <2>1, OldestIsMember
<1>2. /\ r \in Runs /\ r <= nruns /\ s \in BuilderStatus
      /\ op.pc = "builders" /\ op \in Op /\ row[r] \in ModelRun /\ row[r].runner = NONE
  BY <1>1, TrackedShown
     DEF UpdateBuilderState, Inv, CallInv, Phase, Processing, TypeOK, ShownInv, ShownLoops
<1>3. /\ next \in Op /\ next.pc = "builders" /\ next.seen = [op.seen EXCEPT ![r] = Unseen[r]]
      /\ next.errors = op.errors /\ next.lost = op.lost
  <2>1. Unseen[r] \in [status : RunnerStatus \cup BuilderStatus \cup {NONE}, ip : 0..MaxAddr]
    BY <1>2 DEF Unseen
  <2>2. [op.seen EXCEPT ![r] = Unseen[r]] \in [Runs ->
            [status : RunnerStatus \cup BuilderStatus \cup {NONE}, ip : 0..MaxAddr]]
    BY <1>2, <2>1 DEF Op
  <2>3. next = [op EXCEPT !.seen = [op.seen EXCEPT ![r] = Unseen[r]]]
    BY <1>2 DEF Op
  <2> QED
    BY <1>2, <2>2, <2>3 DEF Op
<1>4. /\ built \in ModelRun /\ built.desired = row[r].desired /\ built.runner = row[r].runner
      /\ built.job = row[r].job
  BY <1>2 DEF ModelRun
<1>5. \/ RunModel(r, built, next)
      \/ row' = [row EXCEPT ![r] = built] /\ op' = AfterBuild(r, s, next)
  BY Zenon DEF UpdateBuilderState
<1>6. cluster' = cluster /\ nruns' = nruns /\ told' = told
  BY DEF UpdateBuilderState
<1>7. OwedOf(next) = Owed
  BY <1>3 DEF OwedOf, Owed
<1> HIDE DEF r, s, next, built
<1>8. CASE RunModel(r, built, next)
  <2>1. next.seen[r] = Unseen[r] /\ \A x \in Runs : next.seen[x] \in {op.seen[x], Unseen[x]}
    BY <1>2, <1>3 DEF Op
  <2> QED
    BY <1>2, <1>3, <1>4, <1>6, <1>7, <1>8, <2>1, RunModelShown
<1>9. CASE row' = [row EXCEPT ![r] = built] /\ op' = AfterBuild(r, s, next)
  <2>1. \A q \in Runs : /\ row'[q].runner = row[q].runner /\ row'[q].desired = row[q].desired
                        /\ row'[q].job = row[q].job
    BY <1>2, <1>4, <1>9 DEF Inv, TypeOK
  <2>2. /\ op'.pc = "builders" /\ op'.seen = next.seen
        /\ OwedOf(op') \subseteq Owed \cup {r}
    <3>1. "BUILD_FAILED" \in ErrorType
      BY DEF ErrorType, OrchestratorErrorType
    <3> QED
      BY <1>2, <1>3, <1>7, <1>9, <3>1, RaiseType, OwedRaise DEF AfterBuild
  <2>3. Owed' \subseteq Owed \cup {r} /\ Owed \subseteq Runs
    <3>1. Owed' \subseteq Owed \cup {r}
      BY <2>2 DEF Owed, OwedOf
    <3>2. Owed \subseteq Runs
      BY OwedTypes DEF Owed, Inv, TypeOK
    <3> QED
      BY <3>1, <3>2
  <2>4. ShownInHand'
    BY <2>2 DEF ShownInHand
  <2>5. ShownLoops'
    <3>1. Processing' \subseteq Processing /\ Processing \subseteq Runs
      BY <1>2, <1>3, <2>2 DEF Processing, Unseen, Op
    <3>2. \A q \in Processing : row[q].runner = NONE
      BY <1>2 DEF ShownInv, ShownLoops, Phase
    <3> QED
      BY <2>1, <2>2, <3>1, <3>2 DEF ShownLoops, Phase
  <2>6. ShownOwed'
    BY <1>2, <1>6, <2>1, <2>3 DEF ShownInv, ShownOwed, NONE
  <2>7. ShownRuns'
    BY <1>6, <2>1, SameStatusShown
  <2> QED
    BY <2>4, <2>5, <2>6, <2>7 DEF ShownInv
<1> QED
  BY <1>5, <1>8, <1>9

(* After a restart the observers reconnect and are sent what is RUNNING.   *)
LEMMA CrashShown ==
    ASSUME Inv, ShownInv, Crash
    PROVE  ShownInv'
<1>1. /\ row' = row /\ nruns' = nruns /\ cluster' = LoadActive /\ op' = NoOp
      /\ cluster' \subseteq cluster
      /\ told' = [r \in Runs |-> IF r \in RunningModels(row, LoadActive) THEN "RUNNING" ELSE NONE]
  BY DEF Crash, Inv, ActiveRunsTracked
<1>2. ASSUME NEW r \in Runs
      PROVE  ShownRun(r)'
  <2>1. row[r].desired \in DesiredStatus /\ ShownRun(r)
    BY DEF Inv, TypeOK, ModelRun, ShownInv, ShownRuns
  <2>2. told'[r] = "RUNNING" <=> r \in RunningModels(row, LoadActive)
    BY <1>1 DEF NONE
  <2>3. row[r].desired # "STOPPED" => row[r].desired \in {"RUNNING", "REPLACING"}
    BY <2>1 DEF DesiredStatus
  <2> QED
    BY <1>1, <2>1, <2>2, <2>3 DEF ShownRun, RunningModels, NONE
<1> QED
  BY <1>1, <1>2, NoOpShown DEF ShownInv, ShownRuns

-----------------------------------------------------------------------------
(* The next step of the call that holds the lock.                          *)
LEMMA ProceedShown ==
    ASSUME Inv, ShownInv, Proceed
    PROVE  ShownInv'
<1>1. CASE IsBuilt \/ Build \/ BuildRaises \/ Run \/ RunRaises \/ Launched
  <2>1. Build => ShownInv'
    BY ReturnShown DEF Build
  <2> QED
    BY <1>1, <2>1, IsBuiltShown, BuildRaisesShown, RunShown, RunRaisesShown, LaunchedShown
<1>2. CASE Halt \/ Stop \/ StopRaises \/ HandleReport \/ UpdateModelsInfo
  BY <1>2, HaltShown, StopShown, StopRaisesShown, HandleReportShown, UpdateModelsInfoShown
<1>3. CASE \/ LoadRunnerStates \/ LoadRunnerStatesRaises
           \/ UpdateRunnerState \/ StopReplaced \/ RunnerStatesDone
  <2>1. RunnerStatesDone => ShownInv'
    BY MoveOnShown DEF RunnerStatesDone
  <2> QED
    BY <1>3, <2>1, LoadRunnerStatesShown, LoadRunnerStatesRaisesShown, UpdateRunnerStateShown,
       StopReplacedShown
<1>4. CASE \/ HandleErrors \/ ErrorsDone \/ LoadBuilderStates \/ LoadBuilderStatesRaises
           \/ UpdateBuilderState \/ BuilderStatesDone
  <2>1. LoadBuilderStatesRaises => ShownInv'
    BY ReturnShown DEF LoadBuilderStatesRaises
  <2>2. BuilderStatesDone => ShownInv'
    BY MoveOnShown DEF BuilderStatesDone
  <2> QED
    BY <1>4, <2>1, <2>2, HandleErrorsShown, ErrorsDoneShown, LoadBuilderStatesShown,
       UpdateBuilderStateShown
<1> QED
  BY <1>1, <1>2, <1>3, <1>4 DEF Proceed

(* Every step keeps the invariant.                                         *)
LEMMA NextShown ==
    ASSUME Inv, ShownInv, [Next]_vars
    PROVE  ShownInv'
<1>1. CASE \E m \in Models, c \in Configs : StartModel(m, c)
  BY <1>1, StartModelShown
<1>2. CASE \E m \in Models : StopModel(m)
  BY <1>2, StopModelShown
<1>3. CASE UpdatesStates
  <2>1. op'.pc = "reports" /\ op'.lost = {} /\ op'.errors = <<>>
    BY <1>3 DEF UpdatesStates, NoOp
  <2>2. ShownInHand' /\ ShownLoops' /\ ShownOwed'
    BY <2>1 DEF ShownInHand, ShownLoops, ShownOwed, Phase, Owed, OwedOf
  <2>3. ShownRuns'
    BY <1>3, SameRunsShown DEF UpdatesStates
  <2> QED
    BY <2>2, <2>3 DEF ShownInv
<1>4. CASE GetAllModels
  BY <1>4, TellRunningShown, SameCallShown DEF GetAllModels
<1>5. CASE Proceed
  BY <1>5, ProceedShown
<1>6. CASE Environment
  <2>1. CASE Crash
    BY <2>1, CrashShown
  <2>2. CASE ~Crash
    <3>1. UNCHANGED <<row, cluster, op, nruns, told>>
      BY <1>6, <2>2 DEF Environment, TaskMove, ImageMove, ReportModelRunnerFailure
    <3> QED
      BY <3>1, SameRunsShown, SameCallShown
  <2> QED
    BY <2>1, <2>2
<1>7. CASE UNCHANGED vars
  BY <1>7, SameRunsShown, SameCallShown DEF vars
<1> QED
  BY <1>1, <1>2, <1>3, <1>4, <1>5, <1>6, <1>7 DEF Next

(* Whichever calls raise and whenever the process restarts, a run that is  *)
(* wanted was last announced RUNNING exactly when it is tracked and        *)
(* RUNNING.                                                                *)
THEOREM ShownInvariance == Spec => []ShownInv
<1>1. Init => ShownInv
  BY InitShown
<1>2. Inv /\ ShownInv /\ [Next]_vars => ShownInv'
  BY NextShown
<1> QED
  BY <1>1, <1>2, Invariance, PTL DEF Spec

(* A coordinator that connects at any moment, even in the middle of a call,*)
(* is sent the runs that the other coordinators were last told are         *)
(* RUNNING, but for those being stopped: no failure of a call and no       *)
(* restart makes the list and the announcements disagree.                  *)
THEOREM ShownAsAnnounced == Spec => []RunningAsAnnounced
<1>1. Inv /\ ShownInv => RunningAsAnnounced
  <2> SUFFICES ASSUME Inv, ShownInv
               PROVE  RunningModels(row, cluster) =
                          {r \in Runs : told[r] = "RUNNING" /\ row[r].desired # "STOPPED"}
    BY DEF RunningAsAnnounced
  <2>1. cluster \subseteq Runs
    BY DEF Inv, TypeOK
  <2>2. ASSUME NEW r \in Runs
        PROVE  /\ ShownRun(r)
               /\ row[r].desired \in {"RUNNING", "REPLACING"} <=> row[r].desired # "STOPPED"
    BY DEF Inv, TypeOK, ModelRun, DesiredStatus, ShownInv, ShownRuns
  <2>3. RunningModels(row, cluster) \subseteq
            {r \in Runs : told[r] = "RUNNING" /\ row[r].desired # "STOPPED"}
    BY <2>1, <2>2 DEF RunningModels, ShownRun
  <2>4. {r \in Runs : told[r] = "RUNNING" /\ row[r].desired # "STOPPED"} \subseteq
            RunningModels(row, cluster)
    BY <2>2 DEF RunningModels, ShownRun
  <2> QED
    BY <2>3, <2>4
<1> QED
  BY <1>1, Invariance, ShownInvariance, PTL
=============================================================================
