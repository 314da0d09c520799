---------------------------- MODULE AwsEcsRunner ----------------------------
(***************************************************************************)
(* The AWS runner: a run is an ECS service of desired count 1, which ECS   *)
(* keeps restarting for as long as it is asked to.  load_statuses turns    *)
(* what ECS says of the service into a status of the run, tells a service  *)
(* that starts from one that starts again by the status the run had, and   *)
(* counts the tasks it has seen to give up on a service that fails often.  *)
(*                                                                         *)
(* The name of the service is made of crunch, model and submission: a run  *)
(* and the one that replaces it for its resource or hardware share one, so *)
(* that either is told of what is done to the service for the other.       *)
(***************************************************************************)
EXTENDS JobMoves, Naturals, FiniteSets

CONSTANTS
    EcRuns,            \* runs, numbered in the order they were tracked
    ServiceName,       \* ServiceName[r]: the name of the service of run r
    MaxTaskRestarts,   \* max_task_restarts
    MaxEcsTasks,       \* bound: tasks that ECS starts
    MaxStopFailures    \* bound: polls that raise because a stop does

ASSUME AwsEcsRunnerAssumption ==
    /\ EcRuns \subseteq Nat
    /\ IsFiniteSet(EcRuns)
    /\ MaxTaskRestarts \in Nat
    /\ MaxEcsTasks \in Nat
    /\ MaxStopFailures \in Nat

VARIABLES
    services,    \* services[s]: what describe_services says of it, see Created
    started,     \* number of tasks ECS has started: their ARNs are 1, ..., started
    expired,     \* the tasks 1, ..., expired were created before the window
    ecRun,       \* ecRun[r]: status and task_history of run r, see Untracked
    seenTasks,   \* history: the tasks of its service that run r has been told of
    raised,      \* history: number of polls that raised because a stop did
    broughtDown, \* history: services scaled to 0 or deleted since they were last deployed
    redeployed   \* history: runs that were STOPPING when another one was deployed over
                 \* their service, after the last poll

pollVars == <<seenTasks, raised, redeployed>>
ecVars == <<services, started, expired, ecRun, pollVars, broughtDown>>

-----------------------------------------------------------------------------
ServiceNames == {ServiceName[r] : r \in EcRuns}

(* status, desiredCount, runningCount, of the primary deployment its       *)
(* rolloutState and whether failedTasks > 0, and the task that list_tasks  *)
(* lists, running or not yet, 0 when there is none.                        *)
Created == [status |-> "ACTIVE", desired |-> 1, running |-> 0,
            rollout |-> "IN_PROGRESS", failedTasks |-> FALSE, task |-> 0]
NoService == [Created EXCEPT !.status = "none", !.desired = 0]

Untracked == [status |-> "none", history |-> {}]
EcTracked == {r \in EcRuns : ecRun[r].status \in JobStatuses \ {"STOPPED", "FAILED"}}

EcInit ==
    /\ services = [s \in ServiceNames |-> NoService]
    /\ started = 0
    /\ expired = 0
    /\ ecRun = [r \in EcRuns |-> Untracked]
    /\ seenTasks = [r \in EcRuns |-> {}]
    /\ raised = 0
    /\ broughtDown = {}
    /\ redeployed = {}

(* The count of an active service is left as it is. *)
DeploymentKeepsCount(service) ==
    IF service.status = "ACTIVE"
    THEN [service EXCEPT !.rollout = "IN_PROGRESS", !.failedTasks = FALSE]
    ELSE Created

(* run: create_service updates an active service, which deploys again, and *)
(* waits for one that drains to be inactive before it creates another.     *)
DeploymentOver(service) ==
    IF service.status = "ACTIVE"
    THEN [service EXCEPT !.desired = 1, !.rollout = "IN_PROGRESS", !.failedTasks = FALSE]
    ELSE Created

EcRunModel(r) ==
    /\ ecRun[r].status = "none"
    /\ ecRun' = [ecRun EXCEPT ![r].status = "INITIALIZING"]
    /\ services' = [services EXCEPT ![ServiceName[r]] = DeploymentOver(@)]
    /\ broughtDown' = broughtDown \ {ServiceName[r]}
    /\ redeployed' = redeployed \cup
            {q \in EcTracked : ServiceName[q] = ServiceName[r] /\ ecRun[q].status = "STOPPING"}
    /\ UNCHANGED <<started, expired, seenTasks, raised>>

(* stop_service scales to 0; a service that is not there or not active is  *)
(* left alone.                                                             *)
ScaledDown(service) == IF service.status = "ACTIVE" THEN [service EXCEPT !.desired = 0] ELSE service

StopServices(names) ==
    /\ services' = [s \in ServiceNames |-> IF s \in names THEN ScaledDown(services[s]) ELSE services[s]]
    /\ broughtDown' = broughtDown \cup names

(* stop. *)
EcStop(r) ==
    /\ r \in EcTracked
    /\ StopServices({ServiceName[r]})
    /\ UNCHANGED <<started, expired, ecRun, pollVars>>

-----------------------------------------------------------------------------
(* load_statuses.                                                          *)

(* get_services_status. *)
ServiceStatus(service) ==
    IF service.rollout = "FAILED" THEN "FAILED"
    ELSE IF service.rollout = "IN_PROGRESS" /\ service.failedTasks THEN "RECOVERING"
    ELSE IF service.status = "DRAINING" THEN "STOPPING"
    ELSE IF service.status = "INACTIVE" THEN "STOPPED"
    ELSE IF service.desired = 0 THEN IF service.running = 0 THEN "STOPPED" ELSE "STOPPING"
    ELSE IF service.running = 0 THEN "PENDING"
    ELSE "RUNNING"

(* A pending service always starts. *)
StartingNotRecovering(r) == FALSE

(* A service that is pending again is recovering, which the run itself, or *)
(* one before it in the list, can tell: the entry of the service is shared. *)
PendingAgain(r) ==
    \E q \in EcTracked :
        /\ q <= r
        /\ ServiceName[q] = ServiceName[r]
        /\ ecRun[q].status \in {"RUNNING", "RECOVERING"}

(* PENDING is no status of a run. *)
ReportedAsIs(r) == ServiceStatus(services[ServiceName[r]])

Reported(r) ==
    LET status == ServiceStatus(services[ServiceName[r]]) IN
    IF status # "PENDING" THEN status
    ELSE IF PendingAgain(r) THEN "RECOVERING" ELSE "INITIALIZING"

(* The history that was not in runner_info yet is not stored there. *)
WithTaskForgotten(r, task) == ecRun[r].history

(* _check_excessive_restarts. *)
WithTask(r, task) == IF task = 0 THEN ecRun[r].history ELSE ecRun[r].history \cup {task}

Excessive(r, task) ==
    /\ task # 0
    /\ Cardinality({t \in WithTask(r, task) : t > expired}) > MaxTaskRestarts

(* The task of its service, unless the list of tasks was cut short. *)
ListedTask(r, unlisted) == IF ServiceName[r] \in unlisted THEN 0 ELSE services[ServiceName[r]].task

(* What a poll finds.  undescribed: the services of the batches that       *)
(* describe_services failed for.                                           *)
Found(undescribed) == {r \in EcTracked : services[ServiceName[r]].status # "none"
                                            /\ ServiceName[r] \notin undescribed}
TooMany(undescribed, unlisted) ==
    {r \in Found(undescribed) : Excessive(r, ListedTask(r, unlisted))}

(* The tasks of the services of these runs are noted, *)
Noted(runs, unlisted) ==
    seenTasks' = [r \in EcRuns |->
        IF r \in runs THEN seenTasks[r] \cup ({ListedTask(r, unlisted)} \ {0}) ELSE seenTasks[r]]

(* the services of those that had too many are scaled to 0, and a service  *)
(* that is missing makes its run FAILED.                                   *)
EcLoadStatuses ==
    /\ EcTracked # {}
    /\ \E undescribed, unlisted \in SUBSET ServiceNames :
        LET found == Found(undescribed)
            tooMany == TooMany(undescribed, unlisted)
        IN  /\ ecRun' = [r \in EcRuns |->
                    IF r \in found
                    THEN [status |-> IF r \in tooMany THEN "FAILED" ELSE Reported(r),
                          history |-> WithTask(r, ListedTask(r, unlisted))]
                    ELSE IF r \in EcTracked THEN [ecRun[r] EXCEPT !.status = "FAILED"] ELSE ecRun[r]]
            /\ Noted(found, unlisted)
            /\ StopServices({ServiceName[r] : r \in tooMany})
    /\ redeployed' = {}
    /\ UNCHANGED <<started, expired, raised>>

(* The stop of run last raises, and so does load_statuses: no status is    *)
(* applied, of any run, but the histories up to last have grown, and the   *)
(* services before it are stopped.  Its own may be too: the answer is lost. *)
EcLoadStatusesRaises ==
    /\ raised < MaxStopFailures
    /\ \E undescribed, unlisted \in SUBSET ServiceNames :
        LET found == Found(undescribed)
            tooMany == TooMany(undescribed, unlisted)
        IN  \E last \in tooMany, itself \in BOOLEAN :
                LET visited == {r \in found : r <= last}
                    stopped == {r \in tooMany : r < last \/ (r = last /\ itself)}
                IN  /\ ecRun' = [r \in EcRuns |->
                            IF r \in visited
                            THEN [ecRun[r] EXCEPT !.history = WithTask(r, ListedTask(r, unlisted))]
                            ELSE ecRun[r]]
                    /\ Noted(visited, unlisted)
                    /\ StopServices({ServiceName[r] : r \in stopped})
    /\ raised' = raised + 1
    /\ UNCHANGED <<started, expired, redeployed>>

-----------------------------------------------------------------------------
(* ECS.                                                                    *)

Active(s) == services[s].status = "ACTIVE"

TaskStarts(s) ==
    /\ Active(s)
    /\ services[s].desired = 1
    /\ services[s].task = 0
    /\ services[s].rollout # "FAILED"
    /\ started < MaxEcsTasks
    /\ started' = started + 1
    /\ services' = [services EXCEPT ![s].task = started + 1]
    /\ UNCHANGED <<expired, ecRun, pollVars, broughtDown>>

TaskRuns(s) ==
    /\ services[s].task # 0
    /\ services[s].running = 0
    /\ services' = [services EXCEPT ![s].running = 1]
    /\ UNCHANGED <<started, expired, ecRun, pollVars, broughtDown>>

(* The task is stopped, fails, or has its host taken away. *)
TaskStops(s) ==
    /\ services[s].task # 0
    /\ \E failed \in {services[s].failedTasks, services[s].rollout = "IN_PROGRESS" /\ services[s].desired = 1} :
            services' = [services EXCEPT ![s].task = 0, ![s].running = 0, ![s].failedTasks = failed]
    /\ UNCHANGED <<started, expired, ecRun, pollVars, broughtDown>>

(* The steady state, or the circuit breaker. *)
RolloutEnds(s) ==
    /\ Active(s)
    /\ services[s].rollout = "IN_PROGRESS"
    /\ \/ /\ services[s].running = services[s].desired
          /\ services' = [services EXCEPT ![s].rollout = "COMPLETED", ![s].failedTasks = FALSE]
       \/ /\ services[s].failedTasks
          /\ services' = [services EXCEPT ![s].rollout = "FAILED"]
    /\ UNCHANGED <<started, expired, ecRun, pollVars, broughtDown>>

(* Somebody deletes the service. *)
ServiceDeleted(s) ==
    /\ \/ /\ Active(s)
          /\ services' = [services EXCEPT ![s].status = "DRAINING", ![s].desired = 0]
       \/ /\ services[s].status = "DRAINING"
          /\ services[s].task = 0
          /\ services' = [services EXCEPT ![s].status = "INACTIVE"]
    /\ broughtDown' = broughtDown \cup {s}
    /\ UNCHANGED <<started, expired, ecRun, pollVars>>

WindowMoves ==
    /\ expired < started
    /\ expired' = started
    /\ UNCHANGED <<services, started, ecRun, pollVars, broughtDown>>

EcNext ==
    \/ \E r \in EcRuns : EcRunModel(r) \/ EcStop(r)
    \/ EcLoadStatuses
    \/ EcLoadStatusesRaises
    \/ \E s \in ServiceNames : TaskStarts(s) \/ TaskRuns(s) \/ TaskStops(s) \/ RolloutEnds(s) \/ ServiceDeleted(s)
    \/ WindowMoves

-----------------------------------------------------------------------------
EcTypeOK ==
    /\ services \in [ServiceNames -> [status : {"none", "ACTIVE", "DRAINING", "INACTIVE"}, desired : 0..1, running : 0..1,
                                      rollout : {"IN_PROGRESS", "COMPLETED", "FAILED"}, failedTasks : BOOLEAN,
                                      task : 0..MaxEcsTasks]]
    /\ started \in 0..MaxEcsTasks
    /\ expired \in 0..MaxEcsTasks
    /\ ecRun \in [EcRuns -> [status : JobStatuses \cup {"none"}, history : SUBSET (1..MaxEcsTasks)]]
    /\ seenTasks \in [EcRuns -> SUBSET (1..MaxEcsTasks)]
    /\ raised \in 0..MaxStopFailures
    /\ broughtDown \subseteq ServiceNames
    /\ redeployed \subseteq EcRuns

(* The statuses that load_statuses reports of a run one after the other    *)
(* are those of a service whose tasks come and go.  It is only STOPPING or *)
(* STOPPED when the service was scaled to 0 or deleted, for this run or    *)
(* another one of the name, and has not been deployed since: a run that is *)
(* deployed over a service that goes down is not told of that.  And it is  *)
(* only up again after STOPPING when another run was deployed over it.     *)
EcReportsFollow ==
    [][\A r \in EcTracked :
        LET from == ecRun[r].status
            to == ecRun'[r].status
        IN  from # to =>
                \/ <<from, to>> \in OwnMoves \cup StoppedMoves
                \/ to \in {"STOPPING", "STOPPED"} /\ ServiceName[r] \in broughtDown
                \/ from = "STOPPING" /\ r \in redeployed]_ecVars

(* No run that is still tracked has been told of more tasks, in the window, *)
(* than it may have, and one more for each poll that raised because the    *)
(* stop of a run with too many did, whatever services come and go under    *)
(* its name.                                                               *)
EcRestartsBounded ==
    \A r \in EcTracked :
        Cardinality({t \in seenTasks[r] : t > expired}) <= MaxTaskRestarts + raised
=============================================================================
