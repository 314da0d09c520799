------------------------- MODULE AwsEcsRunnerProofs -------------------------
(***************************************************************************)
(* Proofs about the AWS runner, for any number of runs, services and tasks *)
(* and any max_task_restarts: no run goes on being restarted.              *)
(***************************************************************************)
EXTENDS Backends, FiniteSetTheorems, TLAPS

(* What a run has been told of is in its history; a run that has not been  *)
(* started has been told of nothing.                                       *)
HistoryKept ==
    \A r \in EcRuns :
        /\ ecRun[r].history = seenTasks[r]
        /\ ecRun[r].status = "none" => seenTasks[r] = {}

(* A service whose count is 0 was brought down and not deployed since.     *)
ServicesDown ==
    \A s \in ServiceNames :
        /\ services[s].status \in {"DRAINING", "INACTIVE"} => services[s].desired = 0
        /\ services[s].status # "none" /\ services[s].desired = 0 => s \in broughtDown

(* The service of a run that was last reported STOPPING is still down and  *)
(* does not look as if it recovered, unless another run was deployed over  *)
(* it since.                                                               *)
Down(service) ==
    /\ service.desired = 0
    /\ ~(service.rollout = "IN_PROGRESS" /\ service.failedTasks)

StoppingDown ==
    \A r \in EcRuns :
        ecRun[r].status = "STOPPING" /\ r \notin redeployed => Down(services[ServiceName[r]])

EcInv ==
    /\ EcTypeOK
    /\ expired <= started
    /\ HistoryKept
    /\ EcRestartsBounded
    /\ ServicesDown
    /\ StoppingDown

ServiceRecords ==
    [status : {"none", "ACTIVE", "DRAINING", "INACTIVE"}, desired : 0..1, running : 0..1,
     rollout : {"IN_PROGRESS", "COMPLETED", "FAILED"}, failedTasks : BOOLEAN, task : 0..MaxEcsTasks]

EcRunRecords == [status : JobStatuses \cup {"none"}, history : SUBSET (1..MaxEcsTasks)]

(* The types of the ECS variables, named.                                  *)
LEMMA EcTypes ==
  EcTypeOK <=> /\ services \in [ServiceNames -> ServiceRecords]
               /\ started \in 0..MaxEcsTasks
               /\ expired \in 0..MaxEcsTasks
               /\ ecRun \in [EcRuns -> EcRunRecords]
               /\ seenTasks \in [EcRuns -> SUBSET (1..MaxEcsTasks)]
               /\ raised \in 0..MaxStopFailures
               /\ broughtDown \subseteq ServiceNames
               /\ redeployed \subseteq EcRuns
BY DEF EcTypeOK, ServiceRecords, EcRunRecords

(* The same after a step.                                                  *)
LEMMA EcTypesNext ==
  EcTypeOK' <=> /\ services' \in [ServiceNames -> ServiceRecords]
                /\ started' \in 0..MaxEcsTasks
                /\ expired' \in 0..MaxEcsTasks
                /\ ecRun' \in [EcRuns -> EcRunRecords]
                /\ seenTasks' \in [EcRuns -> SUBSET (1..MaxEcsTasks)]
                /\ raised' \in 0..MaxStopFailures
                /\ broughtDown' \subseteq ServiceNames
                /\ redeployed' \subseteq EcRuns
BY DEF EcTypeOK, ServiceRecords, EcRunRecords

(* Only runs are tracked.                                                  *)
LEMMA TrackedIsRun ==
  /\ EcTracked \subseteq EcRuns
  /\ \A r \in EcTracked : ecRun[r].status \in JobStatuses
BY DEF EcTracked

(* The tasks of a service are finitely many, so that they can be counted.  *)
LEMMA TasksCounted ==
  ASSUME NEW S \in SUBSET (1..MaxEcsTasks)
  PROVE  IsFiniteSet(S) /\ Cardinality(S) \in Nat
  <1>1. IsFiniteSet(1..MaxEcsTasks)
    BY FS_Interval, AwsEcsRunnerAssumption
  <1> QED
    BY <1>1, FS_Subset, FS_CardinalityType

(* The invariant holds at first.                                           *)
LEMMA EcInitInv == ASSUME EcInit PROVE EcInv
  <1> USE AwsEcsRunnerAssumption, EcInit DEF EcInit
  <1>1. EcTypeOK
    <2>1. NoService \in ServiceRecords
      <3>1. Created \in ServiceRecords
        BY DEF Created, ServiceRecords
      <3> DEFINE never == [Created EXCEPT !.status = "none"]
      <3>2. never \in ServiceRecords
        BY <3>1 DEF ServiceRecords
      <3> HIDE DEF never
      <3>3. [never EXCEPT !.desired = 0] \in ServiceRecords
        BY <3>2 DEF ServiceRecords
      <3> QED
        BY <3>3 DEF never, NoService
    <2>2. Untracked \in EcRunRecords
      BY DEF Untracked, EcRunRecords
    <2> QED
      BY <2>1, <2>2, EcTypes
  <1>2. HistoryKept
    BY DEF HistoryKept, Untracked
  <1>3. EcTracked = {}
    BY DEF EcTracked, Untracked, JobStatuses
  <1>4. ServicesDown /\ StoppingDown
    <2>1. NoService.status = "none"
      BY DEF NoService, Created
    <2>2. \A s \in ServiceNames : services[s] = NoService
      OBVIOUS
    <2>3. ServicesDown
      BY <2>1, <2>2 DEF ServicesDown
    <2>4. StoppingDown
      BY DEF StoppingDown, Untracked
    <2> QED
      BY <2>3, <2>4
  <1> QED
    BY <1>1, <1>2, <1>3, <1>4 DEF EcInv, EcRestartsBounded

-----------------------------------------------------------------------------
(* What may become of one service without the run being told: it keeps its *)
(* type, a count of 0 is accounted for, and what is down stays down.       *)
ServiceMayBecome(s, service) ==
    /\ service \in ServiceRecords
    /\ service.status \in {"DRAINING", "INACTIVE"} => service.desired = 0
    /\ service.status # "none" /\ service.desired = 0 => s \in broughtDown'
    /\ Down(services[s]) => Down(service)

(* A step that touches the services only.                                  *)
LEMMA ServicesChangeKeeps ==
  ASSUME EcInv,
         services' \in [ServiceNames -> ServiceRecords],
         \A s \in ServiceNames : ServiceMayBecome(s, services'[s]),
         started' \in 0..MaxEcsTasks, started <= started',
         broughtDown' \subseteq ServiceNames,
         UNCHANGED <<expired, ecRun, pollVars>>
  PROVE  EcInv'
  <1>1. EcTypeOK'
    BY EcTypes, EcTypesNext DEF EcInv, pollVars
  <1>2. expired' <= started'
    BY EcTypes, AwsEcsRunnerAssumption DEF EcInv
  <1>3. (HistoryKept /\ EcRestartsBounded)'
    BY DEF EcInv, HistoryKept, EcRestartsBounded, EcTracked, pollVars
  <1>4. ServicesDown'
    BY DEF ServicesDown, ServiceMayBecome
  <1>5. StoppingDown'
    <2> SUFFICES ASSUME NEW r \in EcRuns, ecRun[r].status = "STOPPING", r \notin redeployed
                 PROVE  Down(services'[ServiceName[r]])
      BY DEF StoppingDown, Down, pollVars
    <2>1. ServiceName[r] \in ServiceNames /\ Down(services[ServiceName[r]])
      BY DEF EcInv, StoppingDown, ServiceNames
    <2> QED
      BY <2>1 DEF ServiceMayBecome
  <1> QED
    BY <1>1, <1>2, <1>3, <1>4, <1>5 DEF EcInv

(* A service that nothing happens to.                                      *)
LEMMA ServiceAsItWas ==
  ASSUME EcInv, NEW s \in ServiceNames, broughtDown \subseteq broughtDown'
  PROVE  ServiceMayBecome(s, services[s])
BY EcTypes DEF EcInv, ServicesDown, ServiceMayBecome

(* One service changes, of which nothing bad becomes.                      *)
LEMMA OneServiceKeeps ==
  ASSUME EcInv, NEW s \in ServiceNames, NEW service,
         services' = [services EXCEPT ![s] = service],
         ServiceMayBecome(s, service),
         started' \in 0..MaxEcsTasks, started <= started',
         broughtDown' = broughtDown \/ broughtDown' = broughtDown \cup {s},
         UNCHANGED <<expired, ecRun, pollVars>>
  PROVE  EcInv'
  <1>1. services \in [ServiceNames -> ServiceRecords] /\ broughtDown \subseteq ServiceNames
    BY EcTypes DEF EcInv
  <1>2. services' \in [ServiceNames -> ServiceRecords]
    BY <1>1 DEF ServiceMayBecome
  <1>3. \A t \in ServiceNames : services'[t] = IF t = s THEN service ELSE services[t]
    BY <1>1
  <1>4. \A t \in ServiceNames : ServiceMayBecome(t, services'[t])
    BY <1>3, ServiceAsItWas
  <1> QED
    BY <1>1, <1>2, <1>4, ServicesChangeKeeps

(* Scaling services to 0.                                                  *)
LEMMA StopServicesKeeps ==
  ASSUME EcInv, NEW names \in SUBSET ServiceNames, StopServices(names)
  PROVE  /\ services' \in [ServiceNames -> ServiceRecords]
         /\ \A s \in ServiceNames : ServiceMayBecome(s, services'[s])
         /\ broughtDown' \subseteq ServiceNames
  <1>1. services \in [ServiceNames -> ServiceRecords] /\ broughtDown \subseteq ServiceNames
    BY EcTypes DEF EcInv
  <1>2. broughtDown' = broughtDown \cup names
    BY DEF StopServices
  <1>3. ASSUME NEW s \in ServiceNames
        PROVE  ServiceMayBecome(s, services'[s])
    <2>1. services'[s] = IF s \in names THEN ScaledDown(services[s]) ELSE services[s]
      BY DEF StopServices
    <2>2. CASE s \in names /\ services[s].status = "ACTIVE"
      <3> DEFINE service == [services[s] EXCEPT !.desired = 0]
      <3>1. service \in ServiceRecords /\ service.status = "ACTIVE"
              /\ service.rollout = services[s].rollout /\ service.failedTasks = services[s].failedTasks
              /\ service.desired = 0
        BY <1>1, <2>2 DEF ServiceRecords
      <3>2. services'[s] = service
        BY <2>1, <2>2 DEF ScaledDown
      <3> HIDE DEF service
      <3> QED
        BY <1>2, <2>2, <3>1, <3>2 DEF ServiceMayBecome, Down
    <2>3. CASE ~(s \in names /\ services[s].status = "ACTIVE")
      <3>1. services'[s] = services[s]
        BY <2>1, <2>3 DEF ScaledDown
      <3> QED
        BY <1>2, <3>1, ServiceAsItWas
    <2> QED
      BY <2>2, <2>3
  <1>4. services' = [s \in ServiceNames |-> services'[s]]
    BY DEF StopServices
  <1>5. services' \in [ServiceNames -> ServiceRecords]
    BY <1>3, <1>4 DEF ServiceMayBecome
  <1> QED
    BY <1>1, <1>2, <1>3, <1>5

(* EcStop keeps the invariant.                                             *)
LEMMA EcStopKeeps ==
  ASSUME EcInv, NEW r \in EcRuns, EcStop(r)
  PROVE  EcInv'
  <1>1. {ServiceName[r]} \in SUBSET ServiceNames
    BY DEF ServiceNames
  <1>2. started \in 0..MaxEcsTasks /\ started <= started
    BY EcTypes, AwsEcsRunnerAssumption DEF EcInv
  <1> QED
    BY <1>1, <1>2, StopServicesKeeps, ServicesChangeKeeps DEF EcStop

(* What ECS does with its tasks keeps the invariant.                       *)
LEMMA EcsKeeps ==
  ASSUME EcInv, NEW s \in ServiceNames,
         TaskStarts(s) \/ TaskRuns(s) \/ TaskStops(s) \/ RolloutEnds(s) \/ ServiceDeleted(s)
  PROVE  EcInv'
  <1>1. /\ services \in [ServiceNames -> ServiceRecords]
        /\ services[s] \in ServiceRecords
        /\ started \in 0..MaxEcsTasks
        /\ started <= started
        /\ MaxEcsTasks \in Nat
        /\ services[s].status \in {"DRAINING", "INACTIVE"} => services[s].desired = 0
        /\ services[s].status # "none" /\ services[s].desired = 0 => s \in broughtDown
    BY EcTypes, AwsEcsRunnerAssumption DEF EcInv, ServicesDown
  <1>2. CASE TaskStarts(s)
    <2> DEFINE service == [services[s] EXCEPT !.task = started + 1]
    <2>1. services' = [services EXCEPT ![s] = service] /\ started' \in 0..MaxEcsTasks /\ started <= started'
      BY <1>1, <1>2 DEF TaskStarts
    <2>2. ServiceMayBecome(s, service)
      BY <1>1, <1>2 DEF TaskStarts, ServiceMayBecome, ServiceRecords, Down
    <2> HIDE DEF service
    <2> QED
      BY <1>2, <2>1, <2>2, OneServiceKeeps DEF TaskStarts
  <1>3. CASE TaskRuns(s)
    <2> DEFINE service == [services[s] EXCEPT !.running = 1]
    <2>1. services' = [services EXCEPT ![s] = service]
      BY <1>1, <1>3 DEF TaskRuns
    <2>2. ServiceMayBecome(s, service)
      BY <1>1, <1>3 DEF TaskRuns, ServiceMayBecome, ServiceRecords, Down
    <2> HIDE DEF service
    <2> QED
      BY <1>1, <1>3, <2>1, <2>2, OneServiceKeeps DEF TaskRuns
  <1>4. CASE TaskStops(s)
    <2>1. PICK failed \in {services[s].failedTasks, services[s].rollout = "IN_PROGRESS" /\ services[s].desired = 1} :
            services' = [services EXCEPT ![s].task = 0, ![s].running = 0, ![s].failedTasks = failed]
      BY <1>4 DEF TaskStops
    <2> DEFINE idle == [services[s] EXCEPT !.task = 0]
               still == [idle EXCEPT !.running = 0]
               service == [still EXCEPT !.failedTasks = failed]
    <2>2. services' = [services EXCEPT ![s] = service]
      BY <1>1, <2>1 DEF ServiceRecords
    <2>3. /\ still \in ServiceRecords
          /\ still.status = services[s].status
          /\ still.desired = services[s].desired
          /\ still.rollout = services[s].rollout
          /\ still.failedTasks = services[s].failedTasks
      <3>1. /\ idle \in ServiceRecords
            /\ idle.status = services[s].status
            /\ idle.desired = services[s].desired
            /\ idle.rollout = services[s].rollout
            /\ idle.failedTasks = services[s].failedTasks
        BY <1>1 DEF ServiceRecords
      <3> HIDE DEF idle
      <3> QED
        BY <3>1 DEF ServiceRecords
    <2> HIDE DEF still
    <2>4. failed \in BOOLEAN /\ (services[s].desired = 0 /\ failed => services[s].failedTasks)
      BY <1>1, <2>1 DEF ServiceRecords
    <2>5. /\ service \in ServiceRecords
          /\ service.status = services[s].status
          /\ service.desired = services[s].desired
          /\ service.rollout = services[s].rollout
          /\ service.failedTasks = failed
      BY <2>3, <2>4 DEF ServiceRecords
    <2>6. ServiceMayBecome(s, service)
      <3> HIDE DEF service
      <3> QED
        BY <1>1, <1>4, <2>4, <2>5 DEF TaskStops, ServiceMayBecome, Down
    <2> HIDE DEF service
    <2> QED
      BY <1>1, <1>4, <2>2, <2>6, OneServiceKeeps DEF TaskStops
  <1>5. CASE RolloutEnds(s)
    <2> DEFINE completed == [services[s] EXCEPT !.rollout = "COMPLETED"]
               steady == [completed EXCEPT !.failedTasks = FALSE]
               broken == [services[s] EXCEPT !.rollout = "FAILED"]
    <2>1. services' = [services EXCEPT ![s] = steady] \/ services' = [services EXCEPT ![s] = broken]
      BY <1>1, <1>5 DEF RolloutEnds, ServiceRecords
    <2>2. ServiceMayBecome(s, steady)
      <3>1. completed \in ServiceRecords /\ completed.status = services[s].status
              /\ completed.desired = services[s].desired /\ completed.rollout = "COMPLETED"
        BY <1>1 DEF ServiceRecords
      <3> HIDE DEF completed
      <3>2. steady \in ServiceRecords /\ steady.status = services[s].status
              /\ steady.desired = services[s].desired /\ steady.rollout = "COMPLETED"
        BY <3>1 DEF ServiceRecords
      <3> HIDE DEF steady
      <3> QED
        BY <1>1, <1>5, <3>2 DEF RolloutEnds, ServiceMayBecome, Down
    <2>3. ServiceMayBecome(s, broken)
      BY <1>1, <1>5 DEF RolloutEnds, ServiceMayBecome, ServiceRecords, Down
    <2> HIDE DEF steady, broken
    <2> QED
      BY <1>1, <1>5, <2>1, <2>2, <2>3, OneServiceKeeps DEF RolloutEnds
  <1>6. CASE ServiceDeleted(s)
    <2> DEFINE marked == [services[s] EXCEPT !.status = "DRAINING"]
               draining == [marked EXCEPT !.desired = 0]
               inactive == [services[s] EXCEPT !.status = "INACTIVE"]
    <2>1. \/ services' = [services EXCEPT ![s] = draining]
          \/ services[s].status = "DRAINING" /\ services' = [services EXCEPT ![s] = inactive]
      BY <1>1, <1>6 DEF ServiceDeleted, ServiceRecords
    <2>2. ServiceMayBecome(s, draining)
      <3>1. marked \in ServiceRecords /\ marked.status = "DRAINING"
              /\ marked.rollout = services[s].rollout /\ marked.failedTasks = services[s].failedTasks
        BY <1>1 DEF ServiceRecords
      <3> HIDE DEF marked
      <3>2. draining \in ServiceRecords /\ draining.status = "DRAINING" /\ draining.desired = 0
              /\ draining.rollout = services[s].rollout /\ draining.failedTasks = services[s].failedTasks
        BY <3>1 DEF ServiceRecords
      <3> HIDE DEF draining
      <3> QED
        BY <1>1, <1>6, <3>2 DEF ServiceDeleted, ServiceMayBecome, Down
    <2>3. services[s].status = "DRAINING" => ServiceMayBecome(s, inactive)
      BY <1>1, <1>6 DEF ServiceDeleted, ServiceMayBecome, ServiceRecords, Down
    <2> HIDE DEF draining, inactive
    <2> QED
      BY <1>1, <1>6, <2>1, <2>2, <2>3, OneServiceKeeps DEF ServiceDeleted
  <1> QED
    BY <1>2, <1>3, <1>4, <1>5, <1>6

(* Deploying keeps the types, leaves the count at 1, and what it is done   *)
(* over is no longer down.                                                 *)
LEMMA DeploymentOverType ==
  ASSUME NEW service \in ServiceRecords
  PROVE  /\ DeploymentOver(service) \in ServiceRecords
         /\ DeploymentOver(service).status = "ACTIVE"
         /\ DeploymentOver(service).desired = 1
  <1>1. Created \in ServiceRecords /\ Created.status = "ACTIVE" /\ Created.desired = 1
    BY AwsEcsRunnerAssumption DEF Created, ServiceRecords
  <1> DEFINE scaled == [service EXCEPT !.desired = 1]
             rolled == [scaled EXCEPT !.rollout = "IN_PROGRESS"]
             cleared == [rolled EXCEPT !.failedTasks = FALSE]
  <1>2. DeploymentOver(service) = IF service.status = "ACTIVE" THEN cleared ELSE Created
    BY DEF DeploymentOver
  <1>3. scaled \in ServiceRecords /\ scaled.status = service.status /\ scaled.desired = 1
    BY DEF ServiceRecords
  <1> HIDE DEF scaled
  <1>4. rolled \in ServiceRecords /\ rolled.status = service.status /\ rolled.desired = 1
    BY <1>3 DEF ServiceRecords
  <1> HIDE DEF rolled
  <1>5. cleared \in ServiceRecords /\ cleared.status = service.status /\ cleared.desired = 1
    BY <1>4 DEF ServiceRecords
  <1> HIDE DEF cleared
  <1> QED
    BY <1>1, <1>2, <1>5

(* EcRunModel keeps the invariant.                                         *)
LEMMA EcRunModelKeeps ==
  ASSUME EcInv, NEW r \in EcRuns, EcRunModel(r)
  PROVE  EcInv'
  <1> DEFINE name == ServiceName[r]
  <1>1. /\ services \in [ServiceNames -> ServiceRecords]
        /\ ecRun \in [EcRuns -> EcRunRecords]
        /\ MaxEcsTasks \in Nat
        /\ raised \in Nat
        /\ broughtDown \subseteq ServiceNames
        /\ redeployed \subseteq EcRuns
        /\ name \in ServiceNames
    BY EcTypes, AwsEcsRunnerAssumption DEF EcInv, ServiceNames
  <1>2. /\ services' = [services EXCEPT ![name] = DeploymentOver(services[name])]
        /\ broughtDown' = broughtDown \ {name}
        /\ redeployed' = redeployed \cup
              {q \in EcTracked : ServiceName[q] = name /\ ecRun[q].status = "STOPPING"}
        /\ UNCHANGED <<started, expired, seenTasks, raised>>
    BY <1>1 DEF EcRunModel
  <1>3. /\ ecRun' \in [EcRuns -> EcRunRecords]
        /\ \A q \in EcRuns : q # r => ecRun'[q] = ecRun[q]
        /\ ecRun'[r].history = ecRun[r].history
        /\ ecRun'[r].status = "INITIALIZING"
        /\ ecRun[r].status = "none"
    BY <1>1 DEF EcRunModel, EcRunRecords, JobStatuses
  <1>4. /\ services' \in [ServiceNames -> ServiceRecords]
        /\ services'[name].status = "ACTIVE"
        /\ services'[name].desired = 1
        /\ \A s \in ServiceNames : s # name => services'[s] = services[s]
    BY <1>1, <1>2, DeploymentOverType
  <1>5. EcTypeOK'
    <2>1. broughtDown' \subseteq ServiceNames /\ redeployed' \subseteq EcRuns
      BY <1>1, <1>2, TrackedIsRun
    <2> QED
      BY <1>2, <1>3, <1>4, <2>1, EcTypes, EcTypesNext DEF EcInv
  <1>6. HistoryKept'
    BY <1>2, <1>3 DEF EcInv, HistoryKept
  <1>7. EcRestartsBounded'
    <2>1. {t \in seenTasks[r] : t > expired} = {}
      BY <1>3 DEF EcInv, HistoryKept
    <2>2. Cardinality({t \in seenTasks[r] : t > expired}) <= MaxTaskRestarts + raised
      BY <1>1, <2>1, FS_EmptySet, AwsEcsRunnerAssumption
    <2>3. EcTracked' \subseteq EcTracked \cup {r}
      BY <1>3 DEF EcTracked
    <2> QED
      BY <1>2, <2>2, <2>3 DEF EcInv, EcRestartsBounded
  <1>8. ServicesDown'
    BY <1>2, <1>4 DEF EcInv, ServicesDown
  <1>9. StoppingDown'
    <2> SUFFICES ASSUME NEW q \in EcRuns, ecRun'[q].status = "STOPPING", q \notin redeployed'
                 PROVE  Down(services'[ServiceName[q]])
      BY DEF StoppingDown, Down
    <2>1. q # r /\ ecRun[q].status = "STOPPING"
      BY <1>3
    <2>2. q \in EcTracked /\ ServiceName[q] \in ServiceNames
      BY <2>1 DEF EcTracked, JobStatuses, ServiceNames
    <2>3. q \notin redeployed /\ ServiceName[q] # name
      BY <1>2, <2>1, <2>2
    <2>4. Down(services[ServiceName[q]])
      BY <2>1, <2>3 DEF EcInv, StoppingDown
    <2> QED
      BY <1>4, <2>2, <2>3, <2>4
  <1>10. expired' <= started'
    BY <1>2 DEF EcInv
  <1> QED
    BY <1>5, <1>6, <1>7, <1>8, <1>9, <1>10 DEF EcInv

(* The tasks that are still in the window when it moves are fewer.         *)
LEMMA WindowMovesKeeps ==
  ASSUME EcInv, WindowMoves
  PROVE  EcInv'
  <1>1. /\ expired' = started
        /\ expired < started
        /\ UNCHANGED <<services, started, ecRun, seenTasks, raised, redeployed, broughtDown>>
    BY DEF WindowMoves, pollVars
  <1>2. EcTypeOK'
    BY <1>1, EcTypes, EcTypesNext DEF EcInv
  <1>3. HistoryKept' /\ ServicesDown' /\ StoppingDown'
    BY <1>1 DEF EcInv, HistoryKept, ServicesDown, StoppingDown
  <1>4. EcRestartsBounded'
    <2> SUFFICES ASSUME NEW r \in EcTracked
                 PROVE  Cardinality({t \in seenTasks[r] : t > expired'}) <= MaxTaskRestarts + raised
      BY <1>1 DEF EcRestartsBounded, EcTracked
    <2> DEFINE before == {t \in seenTasks[r] : t > expired}
               after == {t \in seenTasks[r] : t > expired'}
    <2>1. before \in SUBSET (1..MaxEcsTasks) /\ after \subseteq before
      BY <1>1, TrackedIsRun, EcTypes, AwsEcsRunnerAssumption DEF EcInv
    <2>2. IsFiniteSet(before) /\ Cardinality(before) \in Nat /\ Cardinality(after) \in Nat
      BY <2>1, TasksCounted
    <2>3. Cardinality(after) <= Cardinality(before)
      BY <2>1, <2>2, FS_Subset
    <2>4. Cardinality(before) <= MaxTaskRestarts + raised
      BY DEF EcInv, EcRestartsBounded
    <2>5. raised \in Nat
      BY EcTypes DEF EcInv
    <2> HIDE DEF before, after
    <2>6. Cardinality(after) <= MaxTaskRestarts + raised
      BY <2>2, <2>3, <2>4, <2>5, AwsEcsRunnerAssumption
    <2> QED
      BY <2>6 DEF after
  <1> QED
    BY <1>1, <1>2, <1>3, <1>4, EcTypes DEF EcInv

-----------------------------------------------------------------------------
(* What a poll reports.                                                    *)
LEMMA ReportedType ==
  ASSUME NEW r \in EcRuns
  PROVE  Reported(r) \in JobStatuses
BY DEF Reported, ServiceStatus, JobStatuses

(* A run is only reported STOPPING when its service is down, and only      *)
(* STOPPING or STOPPED when that was done to the service.                  *)
LEMMA ReportedDown ==
  ASSUME EcInv, NEW r \in EcRuns, services[ServiceName[r]].status # "none"
  PROVE  /\ Reported(r) = "STOPPING" => Down(services[ServiceName[r]])
         /\ Reported(r) \in {"STOPPING", "STOPPED"} => ServiceName[r] \in broughtDown
         /\ Down(services[ServiceName[r]]) => Reported(r) \in {"STOPPING", "STOPPED", "FAILED"}
  <1> DEFINE service == services[ServiceName[r]]
  <1>1. /\ service \in ServiceRecords
        /\ service.status \in {"DRAINING", "INACTIVE"} => service.desired = 0
        /\ service.desired = 0 => ServiceName[r] \in broughtDown
    BY EcTypes DEF EcInv, ServicesDown, ServiceNames
  <1>2. Reported(r) = IF ServiceStatus(service) # "PENDING" THEN ServiceStatus(service)
                      ELSE IF PendingAgain(r) THEN "RECOVERING" ELSE "INITIALIZING"
    BY DEF Reported
  <1> HIDE DEF service
  <1>3. ServiceStatus(service) = "STOPPING" => Down(service)
    BY <1>1 DEF ServiceStatus, Down, ServiceRecords
  <1>4. ServiceStatus(service) \in {"STOPPING", "STOPPED"} => service.desired = 0
    BY <1>1 DEF ServiceStatus, ServiceRecords
  <1>5. Down(service) => ServiceStatus(service) \in {"STOPPING", "STOPPED", "FAILED"}
    BY <1>1 DEF ServiceStatus, Down, ServiceRecords
  <1>6. Reported(r) \in {"STOPPING", "STOPPED"} => ServiceStatus(service) = Reported(r)
    BY <1>2
  <1>7. Down(service) => Reported(r) \in {"STOPPING", "STOPPED", "FAILED"}
    BY <1>2, <1>5
  <1> QED
    BY <1>1, <1>3, <1>4, <1>6, <1>7 DEF service

(* The tasks of which a poll reads the list.                               *)
LEMMA TaskNoted ==
  ASSUME EcInv, NEW r \in EcRuns, NEW unlisted
  PROVE  /\ WithTask(r, ListedTask(r, unlisted)) = seenTasks[r] \cup ({ListedTask(r, unlisted)} \ {0})
         /\ WithTask(r, ListedTask(r, unlisted)) \in SUBSET (1..MaxEcsTasks)
  <1>1. /\ services \in [ServiceNames -> ServiceRecords]
        /\ seenTasks[r] \in SUBSET (1..MaxEcsTasks)
        /\ MaxEcsTasks \in Nat
        /\ ServiceName[r] \in ServiceNames
    BY EcTypes, AwsEcsRunnerAssumption DEF EcInv, ServiceNames
  <1>2. ListedTask(r, unlisted) \in 0..MaxEcsTasks
    BY <1>1 DEF ListedTask, ServiceRecords
  <1> DEFINE task == ListedTask(r, unlisted)
  <1>3. WithTask(r, task) = seenTasks[r] \cup ({task} \ {0})
    BY DEF WithTask, EcInv, HistoryKept
  <1> HIDE DEF task
  <1>4. {task} \ {0} \in SUBSET (1..MaxEcsTasks)
    BY <1>1, <1>2 DEF task
  <1> QED
    BY <1>1, <1>3, <1>4 DEF task

(* A set has at most one task more than what it had.                       *)
LEMMA OneTaskMore ==
  ASSUME NEW S \in SUBSET (1..MaxEcsTasks), NEW task, NEW from,
         S \cup ({task} \ {0}) \in SUBSET (1..MaxEcsTasks)
  PROVE  Cardinality({t \in S \cup ({task} \ {0}) : t > from})
            <= Cardinality({t \in S : t > from}) + 1
  <1> DEFINE before == {t \in S : t > from}
             after == {t \in S \cup ({task} \ {0}) : t > from}
  <1>1. before \in SUBSET (1..MaxEcsTasks) /\ after \in SUBSET (1..MaxEcsTasks)
    OBVIOUS
  <1>2. IsFiniteSet(before) /\ Cardinality(before) \in Nat
    BY <1>1, TasksCounted
  <1>3. after \subseteq before \cup {task}
    OBVIOUS
  <1> HIDE DEF before, after
  <1>4. /\ IsFiniteSet(before \cup {task})
        /\ Cardinality(before \cup {task}) <= Cardinality(before) + 1
        /\ Cardinality(before \cup {task}) \in Nat
    <2>1. /\ IsFiniteSet(before \cup {task})
          /\ \/ Cardinality(before \cup {task}) = Cardinality(before)
             \/ Cardinality(before \cup {task}) = Cardinality(before) + 1
      BY <1>2, FS_AddElement
    <2> QED
      BY <1>2, <2>1
  <1>5. Cardinality(after) \in Nat /\ Cardinality(after) <= Cardinality(before \cup {task})
    BY <1>3, <1>4, <1>1, TasksCounted, FS_Subset
  <1>6. Cardinality(after) <= Cardinality(before) + 1
    BY <1>2, <1>4, <1>5
  <1> QED
    BY <1>6 DEF before, after

(* load_statuses: the tasks it is told of are counted before the run is    *)
(* kept, so that a run that is not given up has not had too many.          *)
LEMMA LoadStatusesKeeps ==
  ASSUME EcInv, EcLoadStatuses
  PROVE  EcInv'
  <1>1. PICK undescribed \in SUBSET ServiceNames, unlisted \in SUBSET ServiceNames :
          /\ ecRun' = [r \in EcRuns |->
                IF r \in Found(undescribed)
                THEN [status |-> IF r \in TooMany(undescribed, unlisted) THEN "FAILED" ELSE Reported(r),
                      history |-> WithTask(r, ListedTask(r, unlisted))]
                ELSE IF r \in EcTracked THEN [ecRun[r] EXCEPT !.status = "FAILED"] ELSE ecRun[r]]
          /\ Noted(Found(undescribed), unlisted)
          /\ StopServices({ServiceName[r] : r \in TooMany(undescribed, unlisted)})
    BY DEF EcLoadStatuses
  <1>2. redeployed' = {} /\ UNCHANGED <<started, expired, raised>>
    BY DEF EcLoadStatuses
  <1> DEFINE task(r) == ListedTask(r, unlisted)
             found == Found(undescribed)
             tooMany == TooMany(undescribed, unlisted)
  <1>3. /\ ecRun \in [EcRuns -> EcRunRecords]
        /\ seenTasks \in [EcRuns -> SUBSET (1..MaxEcsTasks)]
        /\ MaxTaskRestarts \in Nat
        /\ raised \in Nat
    BY EcTypes, AwsEcsRunnerAssumption DEF EcInv
  <1>4. /\ found \subseteq EcTracked /\ EcTracked \subseteq EcRuns
        /\ tooMany = {r \in found : Excessive(r, task(r))}
        /\ \A r \in found : services[ServiceName[r]].status # "none"
    BY TrackedIsRun DEF Found, TooMany
  <1>5. /\ services' \in [ServiceNames -> ServiceRecords]
        /\ \A s \in ServiceNames : ServiceMayBecome(s, services'[s])
        /\ broughtDown' \subseteq ServiceNames
    <2>1. {ServiceName[r] : r \in tooMany} \in SUBSET ServiceNames
      BY <1>4 DEF ServiceNames
    <2> QED
      BY <1>1, <2>1, StopServicesKeeps
  <1> HIDE DEF found, tooMany
  <1>6. ASSUME NEW r \in EcRuns
        PROVE  /\ ecRun'[r] \in EcRunRecords
               /\ seenTasks'[r] \in SUBSET (1..MaxEcsTasks)
               /\ ecRun'[r].history = seenTasks'[r]
               /\ r \notin EcTracked => ecRun'[r] = ecRun[r] /\ seenTasks'[r] = seenTasks[r]
               /\ r \in EcTracked \ found => ecRun'[r].status = "FAILED"
               /\ r \in found => /\ ecRun'[r].status = IF r \in tooMany THEN "FAILED" ELSE Reported(r)
                                 /\ ecRun'[r].status \in JobStatuses
                                 /\ seenTasks'[r] = WithTask(r, task(r))
    <2>1. ecRun[r] \in EcRunRecords /\ seenTasks[r] \in SUBSET (1..MaxEcsTasks) /\ ecRun[r].history = seenTasks[r]
      BY <1>3 DEF EcInv, HistoryKept
    <2>2. CASE r \in found
      <3> DEFINE s == IF r \in tooMany THEN "FAILED" ELSE Reported(r)
      <3>1. ecRun'[r] = [status |-> s, history |-> WithTask(r, task(r))]
        BY <1>1, <2>2 DEF found, tooMany
      <3>2. s \in JobStatuses
        BY ReportedType DEF JobStatuses
      <3>3. seenTasks'[r] = seenTasks[r] \cup ({task(r)} \ {0})
        BY <1>1, <2>2 DEF Noted, found
      <3>4. /\ WithTask(r, task(r)) = seenTasks[r] \cup ({task(r)} \ {0})
            /\ WithTask(r, task(r)) \in SUBSET (1..MaxEcsTasks)
        BY TaskNoted
      <3> HIDE DEF task
      <3> QED
        BY <1>4, <2>2, <3>1, <3>2, <3>3, <3>4 DEF EcRunRecords
    <2>3. CASE r \in EcTracked \ found
      <3>1. ecRun'[r] = [ecRun[r] EXCEPT !.status = "FAILED"] /\ seenTasks'[r] = seenTasks[r]
        BY <1>1, <2>3 DEF Noted, found
      <3>2. ecRun'[r] \in EcRunRecords /\ ecRun'[r].history = ecRun[r].history /\ ecRun'[r].status = "FAILED"
        BY <2>1, <3>1 DEF EcRunRecords, JobStatuses
      <3> QED
        BY <2>1, <2>3, <3>1, <3>2
    <2>4. CASE r \notin EcTracked
      <3>1. ecRun'[r] = ecRun[r] /\ seenTasks'[r] = seenTasks[r] /\ r \notin found
        BY <1>1, <1>4, <2>4 DEF Noted, found
      <3> QED
        BY <2>1, <2>4, <3>1
    <2> QED
      BY <2>2, <2>3, <2>4
  <1>7. EcTypeOK'
    <2>1. ecRun' = [r \in EcRuns |-> ecRun'[r]] /\ seenTasks' = [r \in EcRuns |-> seenTasks'[r]]
      BY <1>1 DEF Noted
    <2>2. ecRun' \in [EcRuns -> EcRunRecords] /\ seenTasks' \in [EcRuns -> SUBSET (1..MaxEcsTasks)]
      BY <1>6, <2>1
    <2> QED
      BY <1>2, <1>5, <2>2, EcTypes, EcTypesNext DEF EcInv
  <1>8. HistoryKept'
    <2> SUFFICES ASSUME NEW r \in EcRuns
                 PROVE  /\ ecRun'[r].history = seenTasks'[r]
                        /\ ecRun'[r].status = "none" => seenTasks'[r] = {}
      BY DEF HistoryKept
    <2>1. CASE r \in EcTracked
      BY <1>6, <2>1 DEF JobStatuses
    <2>2. CASE r \notin EcTracked
      BY <1>6, <2>2 DEF EcInv, HistoryKept
    <2> QED
      BY <2>1, <2>2
  <1>9. EcRestartsBounded'
    <2> SUFFICES ASSUME NEW r \in EcTracked'
                 PROVE  Cardinality({t \in seenTasks'[r] : t > expired'}) <= MaxTaskRestarts + raised'
      BY DEF EcRestartsBounded
    <2>1. r \in EcRuns /\ ecRun'[r].status \in JobStatuses \ {"STOPPED", "FAILED"}
      BY DEF EcTracked
    <2>2. r \in found /\ r \notin tooMany /\ r \in EcTracked
      <3>1. r \in EcTracked
        BY <1>6, <2>1 DEF EcTracked
      <3> QED
        BY <1>6, <2>1, <3>1
    <2>3. ~Excessive(r, task(r))
      BY <1>4, <2>2
    <2>4. seenTasks'[r] = WithTask(r, task(r)) /\ seenTasks'[r] \in SUBSET (1..MaxEcsTasks)
      BY <1>6, <2>1, <2>2
    <2>5. CASE task(r) = 0
      <3>1. seenTasks'[r] = seenTasks[r]
        BY <2>1, <2>4, <2>5 DEF WithTask, EcInv, HistoryKept
      <3> QED
        BY <1>2, <2>2, <3>1 DEF EcInv, EcRestartsBounded
    <2>6. CASE task(r) # 0
      <3> DEFINE recent == {t \in WithTask(r, task(r)) : t > expired}
      <3>1. ~(Cardinality(recent) > MaxTaskRestarts)
        BY <2>3, <2>6 DEF Excessive
      <3>2. recent \in SUBSET (1..MaxEcsTasks)
        BY <2>4
      <3>3. Cardinality(recent) \in Nat
        BY <3>2, TasksCounted
      <3>4. recent = {t \in seenTasks'[r] : t > expired'}
        BY <1>2, <2>4
      <3> HIDE DEF recent
      <3>5. Cardinality(recent) <= MaxTaskRestarts + raised
        BY <1>3, <3>1, <3>3
      <3> QED
        BY <1>2, <3>4, <3>5
    <2> QED
      BY <2>5, <2>6
  <1>10. ServicesDown'
    BY <1>5 DEF ServicesDown, ServiceMayBecome
  <1>11. StoppingDown'
    <2> SUFFICES ASSUME NEW r \in EcRuns, ecRun'[r].status = "STOPPING"
                 PROVE  Down(services'[ServiceName[r]])
      BY DEF StoppingDown, Down
    <2>1. r \in found /\ Reported(r) = "STOPPING"
      <3>1. r \in EcTracked
        BY <1>6 DEF EcTracked, JobStatuses
      <3> QED
        BY <1>6, <3>1
    <2>2. Down(services[ServiceName[r]])
      BY <1>4, <2>1, ReportedDown
    <2>3. ServiceName[r] \in ServiceNames
      BY DEF ServiceNames
    <2> QED
      BY <1>5, <2>2, <2>3 DEF ServiceMayBecome
  <1>12. expired' <= started'
    BY <1>2 DEF EcInv
  <1> QED
    BY <1>7, <1>8, <1>9, <1>10, <1>11, <1>12 DEF EcInv

(* A poll that raises leaves the statuses, and adds at most one task to    *)
(* what a run has been told of.                                            *)
LEMMA LoadStatusesRaisesKeeps ==
  ASSUME EcInv, EcLoadStatusesRaises
  PROVE  EcInv'
  <1>1. PICK undescribed \in SUBSET ServiceNames, unlisted \in SUBSET ServiceNames :
          \E last \in TooMany(undescribed, unlisted), itself \in BOOLEAN :
            LET visited == {r \in Found(undescribed) : r <= last}
                stopped == {r \in TooMany(undescribed, unlisted) : r < last \/ (r = last /\ itself)}
            IN  /\ ecRun' = [r \in EcRuns |->
                        IF r \in visited
                        THEN [ecRun[r] EXCEPT !.history = WithTask(r, ListedTask(r, unlisted))]
                        ELSE ecRun[r]]
                /\ Noted(visited, unlisted)
                /\ StopServices({ServiceName[r] : r \in stopped})
    BY DEF EcLoadStatusesRaises
  <1>2. PICK visited \in SUBSET Found(undescribed), stopped \in SUBSET TooMany(undescribed, unlisted) :
          /\ ecRun' = [r \in EcRuns |->
                IF r \in visited
                THEN [ecRun[r] EXCEPT !.history = WithTask(r, ListedTask(r, unlisted))]
                ELSE ecRun[r]]
          /\ Noted(visited, unlisted)
          /\ StopServices({ServiceName[r] : r \in stopped})
    BY <1>1
  <1>3. /\ raised < MaxStopFailures /\ raised' = raised + 1
        /\ UNCHANGED <<started, expired, redeployed>>
    BY DEF EcLoadStatusesRaises
  <1>4. /\ ecRun \in [EcRuns -> EcRunRecords]
        /\ seenTasks \in [EcRuns -> SUBSET (1..MaxEcsTasks)]
        /\ MaxTaskRestarts \in Nat /\ MaxStopFailures \in Nat
        /\ raised \in Nat
    BY EcTypes, AwsEcsRunnerAssumption DEF EcInv
  <1>5. visited \subseteq EcTracked /\ stopped \subseteq EcRuns
    BY TrackedIsRun DEF Found, TooMany
  <1>6. /\ services' \in [ServiceNames -> ServiceRecords]
        /\ \A s \in ServiceNames : ServiceMayBecome(s, services'[s])
        /\ broughtDown' \subseteq ServiceNames
    <2>1. {ServiceName[r] : r \in stopped} \in SUBSET ServiceNames
      BY <1>5 DEF ServiceNames
    <2> QED
      BY <1>2, <2>1, StopServicesKeeps
  <1> DEFINE task(r) == ListedTask(r, unlisted)
  <1>7. ASSUME NEW r \in EcRuns
        PROVE  /\ ecRun'[r] \in EcRunRecords
               /\ ecRun'[r].status = ecRun[r].status
               /\ ecRun'[r].history = seenTasks'[r]
               /\ seenTasks'[r] \in SUBSET (1..MaxEcsTasks)
               /\ r \notin visited => seenTasks'[r] = seenTasks[r]
               /\ r \in visited => seenTasks'[r] = seenTasks[r] \cup ({task(r)} \ {0})
    <2>1. ecRun[r] \in EcRunRecords /\ seenTasks[r] \in SUBSET (1..MaxEcsTasks) /\ ecRun[r].history = seenTasks[r]
      BY <1>4 DEF EcInv, HistoryKept
    <2>2. CASE r \in visited
      <3>1. /\ WithTask(r, task(r)) = seenTasks[r] \cup ({task(r)} \ {0})
            /\ WithTask(r, task(r)) \in SUBSET (1..MaxEcsTasks)
        BY TaskNoted
      <3>2. ecRun'[r] = [ecRun[r] EXCEPT !.history = WithTask(r, task(r))]
        BY <1>2, <2>2
      <3>3. seenTasks'[r] = seenTasks[r] \cup ({task(r)} \ {0})
        BY <1>2, <2>2 DEF Noted
      <3> HIDE DEF task
      <3> QED
        BY <2>1, <2>2, <3>1, <3>2, <3>3 DEF EcRunRecords
    <2>3. CASE r \notin visited
      <3>1. ecRun'[r] = ecRun[r] /\ seenTasks'[r] = seenTasks[r]
        BY <1>2, <2>3 DEF Noted
      <3> QED
        BY <2>1, <2>3, <3>1
    <2> QED
      BY <2>2, <2>3
  <1>8. EcTypeOK'
    <2>1. ecRun' = [r \in EcRuns |-> ecRun'[r]] /\ seenTasks' = [r \in EcRuns |-> seenTasks'[r]]
      BY <1>2 DEF Noted
    <2>2. ecRun' \in [EcRuns -> EcRunRecords] /\ seenTasks' \in [EcRuns -> SUBSET (1..MaxEcsTasks)]
      BY <1>7, <2>1
    <2>3. raised' \in 0..MaxStopFailures
      BY <1>3, <1>4
    <2> QED
      BY <1>3, <1>6, <2>2, <2>3, EcTypes, EcTypesNext DEF EcInv
  <1>9. EcTracked' = EcTracked
    BY <1>7 DEF EcTracked
  <1>10. HistoryKept'
    <2> SUFFICES ASSUME NEW r \in EcRuns, ecRun'[r].status = "none"
                 PROVE  seenTasks'[r] = {}
      BY <1>7 DEF HistoryKept
    <2>1. r \notin visited
      BY <1>5, <1>7 DEF EcTracked, JobStatuses
    <2> QED
      BY <1>7, <2>1 DEF EcInv, HistoryKept
  <1>11. EcRestartsBounded'
    <2> SUFFICES ASSUME NEW r \in EcTracked
                 PROVE  Cardinality({t \in seenTasks'[r] : t > expired'}) <= MaxTaskRestarts + raised'
      BY <1>9 DEF EcRestartsBounded
    <2> DEFINE before == Cardinality({t \in seenTasks[r] : t > expired})
               after == Cardinality({t \in seenTasks'[r] : t > expired'})
    <2>1. r \in EcRuns /\ seenTasks[r] \in SUBSET (1..MaxEcsTasks) /\ seenTasks'[r] \in SUBSET (1..MaxEcsTasks)
      BY <1>4, <1>7, TrackedIsRun
    <2>2. before <= MaxTaskRestarts + raised
      BY DEF EcInv, EcRestartsBounded
    <2>3. before \in Nat
      <3>1. {t \in seenTasks[r] : t > expired} \in SUBSET (1..MaxEcsTasks)
        BY <2>1
      <3> QED
        BY <3>1, TasksCounted
    <2>4. after \in Nat
      <3>1. {t \in seenTasks'[r] : t > expired'} \in SUBSET (1..MaxEcsTasks)
        BY <2>1
      <3> QED
        BY <3>1, TasksCounted
    <2>5. after <= before + 1
      <3>1. CASE r \in visited
        <4>1. seenTasks'[r] = seenTasks[r] \cup ({task(r)} \ {0}) /\ expired' = expired
          BY <1>3, <1>7, <2>1, <3>1
        <4> DEFINE S == seenTasks[r]
                   noted == task(r)
        <4>2. /\ S \in SUBSET (1..MaxEcsTasks)
              /\ S \cup ({noted} \ {0}) \in SUBSET (1..MaxEcsTasks)
              /\ after = Cardinality({t \in S \cup ({noted} \ {0}) : t > expired})
              /\ before = Cardinality({t \in S : t > expired})
          BY <2>1, <4>1
        <4> HIDE DEF S, noted, after, before
        <4> QED
          BY <4>2, OneTaskMore
      <3>2. CASE r \notin visited
        <4>1. after = before
          BY <1>3, <1>7, <2>1, <3>2
        <4> HIDE DEF after, before
        <4> QED
          BY <2>3, <4>1
      <3> QED
        BY <3>1, <3>2
    <2> HIDE DEF before, after
    <2>6. after <= MaxTaskRestarts + raised'
      BY <1>3, <1>4, <2>2, <2>3, <2>4, <2>5
    <2> QED
      BY <2>6 DEF after
  <1>12. ServicesDown'
    BY <1>6 DEF ServicesDown, ServiceMayBecome
  <1>13. StoppingDown'
    <2> SUFFICES ASSUME NEW r \in EcRuns, ecRun[r].status = "STOPPING", r \notin redeployed
                 PROVE  Down(services'[ServiceName[r]])
      BY <1>3, <1>7 DEF StoppingDown, Down
    <2>1. Down(services[ServiceName[r]]) /\ ServiceName[r] \in ServiceNames
      BY DEF EcInv, StoppingDown, ServiceNames
    <2> QED
      BY <1>6, <2>1 DEF ServiceMayBecome
  <1>14. expired' <= started'
    BY <1>3 DEF EcInv
  <1> QED
    BY <1>8, <1>10, <1>11, <1>12, <1>13, <1>14 DEF EcInv

-----------------------------------------------------------------------------
(* Every step keeps the invariant.                                         *)
LEMMA EcNextKeeps ==
  ASSUME EcInv, [EcNext]_ecVars
  PROVE  EcInv'
  <1>1. CASE UNCHANGED ecVars
    BY <1>1 DEF ecVars, EcInv, EcTypeOK, HistoryKept, EcRestartsBounded, EcTracked, ServicesDown, StoppingDown,
                pollVars
  <1>2. CASE EcNext
    BY <1>2, EcRunModelKeeps, EcStopKeeps, LoadStatusesKeeps, LoadStatusesRaisesKeeps, EcsKeeps,
        WindowMovesKeeps DEF EcNext
  <1> QED
    BY <1>1, <1>2

(* The history that the runner keeps of a service agrees with the service: *)
(* the invariant RestartsBounded follows from.                             *)
THEOREM AwsInvariance == Spec => []EcInv
  <1>1. Init => EcInv
    BY EcInitInv DEF Init
  <1>2. EcInv /\ [Next]_backendVars => EcInv'
    <2> SUFFICES ASSUME EcInv, [Next]_backendVars PROVE EcInv'
      OBVIOUS
    <2>1. [EcNext]_ecVars
      BY DEF Next, PhalaStep, AwsStep, NomadStep, LocalStep, backendVars
    <2> QED
      BY <2>1, EcNextKeeps
  <1> QED
    BY <1>1, <1>2, PTL DEF Spec

(* No run that is still tracked has been told of more tasks, in the        *)
(* window, than max_task_restarts and one more for each poll that raised   *)
(* because its stop did, whatever happens to its service.                  *)
THEOREM RestartsBounded == Spec => []EcRestartsBounded
  BY AwsInvariance, PTL DEF EcInv

-----------------------------------------------------------------------------
(* What EcReportsFollow says of a step. *)
ReportFollows ==
  \A r \in EcTracked :
    LET from == ecRun[r].status
        to == ecRun'[r].status
    IN  from # to =>
            \/ <<from, to>> \in OwnMoves \cup StoppedMoves
            \/ to \in {"STOPPING", "STOPPED"} /\ ServiceName[r] \in broughtDown
            \/ from = "STOPPING" /\ r \in redeployed

(* A run that has been up is its own witness that a service which is       *)
(* pending is so again.                                                    *)
LEMMA UpNeverStartsAgain ==
  ASSUME NEW r \in EcTracked, ecRun[r].status \in {"RUNNING", "RECOVERING"}
  PROVE  Reported(r) # "INITIALIZING"
  <1>1. r \in Nat
    BY TrackedIsRun, AwsEcsRunnerAssumption
  <1>2. PendingAgain(r)
    BY <1>1 DEF PendingAgain
  <1> QED
    BY <1>2 DEF Reported, ServiceStatus

(* A poll reports of a run what may follow.                                *)
LEMMA LoadStatusesFollow ==
  ASSUME EcInv, EcLoadStatuses
  PROVE  ReportFollows
  <1> SUFFICES ASSUME NEW r \in EcTracked, NEW from, NEW to,
                      from = ecRun[r].status, to = ecRun'[r].status, from # to
               PROVE  \/ <<from, to>> \in OwnMoves \cup StoppedMoves
                      \/ to \in {"STOPPING", "STOPPED"} /\ ServiceName[r] \in broughtDown
                      \/ from = "STOPPING" /\ r \in redeployed
    BY DEF ReportFollows
  <1>1. /\ r \in EcRuns /\ ecRun[r] \in EcRunRecords
        /\ from \in {"INITIALIZING", "RUNNING", "RECOVERING", "STOPPING"}
    BY TrackedIsRun, EcTypes DEF EcInv, EcTracked, JobStatuses
  <1>2. to = "FAILED" \/ (to = Reported(r) /\ services[ServiceName[r]].status # "none")
    <2>1. PICK undescribed \in SUBSET ServiceNames, unlisted \in SUBSET ServiceNames :
            ecRun' = [q \in EcRuns |->
                IF q \in Found(undescribed)
                THEN [status |-> IF q \in TooMany(undescribed, unlisted) THEN "FAILED" ELSE Reported(q),
                      history |-> WithTask(q, ListedTask(q, unlisted))]
                ELSE IF q \in EcTracked THEN [ecRun[q] EXCEPT !.status = "FAILED"] ELSE ecRun[q]]
      BY DEF EcLoadStatuses
    <2>2. CASE r \in Found(undescribed)
      BY <1>1, <2>1, <2>2 DEF Found
    <2>3. CASE r \notin Found(undescribed)
      BY <1>1, <2>1, <2>3 DEF EcRunRecords
    <2> QED
      BY <2>2, <2>3
  <1>3. CASE to = "FAILED"
    BY <1>1, <1>3 DEF OwnMoves, StoppedMoves
  <1>4. CASE to = Reported(r) /\ services[ServiceName[r]].status # "none"
    <2>1. CASE to \in {"STOPPING", "STOPPED"}
      BY <1>1, <1>4, <2>1, ReportedDown
    <2>2. CASE to \notin {"STOPPING", "STOPPED", "FAILED"}
      <3>1. to \in {"INITIALIZING", "RUNNING", "RECOVERING"}
        BY <1>1, <1>4, <2>2, ReportedType DEF JobStatuses
      <3>2. CASE from = "STOPPING"
        <4>1. ~Down(services[ServiceName[r]])
          BY <1>1, <1>4, <2>2, ReportedDown
        <4> QED
          BY <1>1, <3>2, <4>1 DEF EcInv, StoppingDown
      <3>3. CASE from = "INITIALIZING"
        BY <3>1, <3>3 DEF OwnMoves
      <3>4. CASE from \in {"RUNNING", "RECOVERING"}
        <4>1. to # "INITIALIZING"
          BY <1>4, <3>4, UpNeverStartsAgain
        <4> QED
          BY <3>1, <3>4, <4>1 DEF OwnMoves
      <3> QED
        BY <1>1, <3>2, <3>3, <3>4
    <2> QED
      BY <1>3, <2>1, <2>2
  <1> QED
    BY <1>2, <1>3, <1>4

(* Only a poll changes the status of a tracked run.                        *)
LEMMA EcNextFollows ==
  ASSUME EcInv, [EcNext]_ecVars
  PROVE  ReportFollows
  <1>1. CASE EcLoadStatuses
    BY <1>1, LoadStatusesFollow
  <1>2. CASE ~EcLoadStatuses
    <2> SUFFICES ASSUME NEW r \in EcTracked
                 PROVE  ecRun'[r].status = ecRun[r].status
      BY DEF ReportFollows
    <2>1. CASE \E q \in EcRuns : EcRunModel(q)
      <3>1. PICK q \in EcRuns : EcRunModel(q)
        BY <2>1
      <3>2. r # q /\ r \in EcRuns
        BY <3>1, TrackedIsRun DEF EcRunModel, EcTracked, JobStatuses
      <3> QED
        BY <3>1, <3>2, EcTypes DEF EcRunModel, EcInv
    <2>2. CASE EcLoadStatusesRaises
      BY <2>2, TrackedIsRun, EcTypes DEF EcLoadStatusesRaises, EcInv, EcRunRecords
    <2>3. CASE UNCHANGED ecRun
      BY <2>3
    <2> QED
      BY <1>2, <2>1, <2>2, <2>3
         DEF EcNext, EcStop, TaskStarts, TaskRuns, TaskStops, RolloutEnds, ServiceDeleted, WindowMoves,
             ecVars
  <1> QED
    BY <1>1, <1>2

(* The statuses reported of a run are those of a service whose tasks come  *)
(* and go, unless the service was brought down and not deployed since; and *)
(* a run that was STOPPING is only up again when another one was deployed  *)
(* over it.                                                                *)
THEOREM ReportsFollow == Spec => EcReportsFollow
  <1>1. EcInv /\ [Next]_backendVars => [ReportFollows]_ecVars
    <2> SUFFICES ASSUME EcInv, [Next]_backendVars PROVE ReportFollows
      OBVIOUS
    <2>1. [EcNext]_ecVars
      BY DEF Next, PhalaStep, AwsStep, NomadStep, LocalStep, backendVars
    <2> QED
      BY <2>1, EcNextFollows
  <1> QED
    BY <1>1, AwsInvariance, PTL DEF Spec, EcReportsFollow, ReportFollows

(* What ModelRuns takes for granted of the jobs of this runner: from one   *)
(* poll to the next a run makes a move of EcsMoves, but for a run that is  *)
(* STOPPING when another one of its name is deployed.                      *)
ReportMoves ==
  \A r \in EcTracked :
    LET from == ecRun[r].status
        to == ecRun'[r].status
    IN  from # to => <<from, to>> \in EcsMoves \/ (from = "STOPPING" /\ r \in redeployed)

(* The jobs of the AWS runner move as ModelRuns takes for granted.         *)
THEOREM ReportsMove == Spec => [][ReportMoves]_ecVars
  <1>1. EcInv /\ ReportFollows => ReportMoves
    <2> SUFFICES ASSUME EcInv, ReportFollows, NEW r \in EcTracked, NEW from, NEW to,
                        from = ecRun[r].status, to = ecRun'[r].status, from # to
                 PROVE  <<from, to>> \in EcsMoves \/ (from = "STOPPING" /\ r \in redeployed)
      BY DEF ReportMoves
    <2>1. from \in {"INITIALIZING", "RUNNING", "RECOVERING", "STOPPING"}
      BY DEF EcTracked, JobStatuses
    <2>2. \/ <<from, to>> \in OwnMoves \cup StoppedMoves
          \/ to \in {"STOPPING", "STOPPED"}
          \/ from = "STOPPING" /\ r \in redeployed
      BY DEF ReportFollows
    <2>3. to \in {"STOPPING", "STOPPED"} => <<from, to>> \in DownMoves \cup StoppedMoves
      BY <2>1 DEF DownMoves, StoppedMoves
    <2> QED
      BY <2>2, <2>3 DEF EcsMoves
  <1>2. EcInv /\ [Next]_backendVars => [ReportMoves]_ecVars
    <2> SUFFICES ASSUME EcInv, [Next]_backendVars PROVE ReportMoves
      OBVIOUS
    <2>1. [EcNext]_ecVars
      BY DEF Next, PhalaStep, AwsStep, NomadStep, LocalStep, backendVars
    <2> QED
      BY <1>1, <2>1, EcNextFollows
  <1> QED
    BY <1>2, AwsInvariance, PTL DEF Spec
=============================================================================
