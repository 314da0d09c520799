-------------------------- MODULE NomadModelRunner --------------------------
(***************************************************************************)
(* The Nomad runner: a run is a service job with one allocation at a time. *)
(* Nomad restarts a task that fails a few times where it is, then places   *)
(* the job elsewhere a few times, then gives up.  load_statuses fetches    *)
(* the jobs, then the allocations, and makes a status of the run of both.  *)
(***************************************************************************)
EXTENDS Naturals

CONSTANTS
    NmRuns,          \* runs
    JobId,           \* JobId[r]: the job of run r, made of crunch, model and submission
    MaxPlacements    \* bound: allocations of a job

ASSUME NomadAssumption == MaxPlacements \in Nat

VARIABLES
    jobs,        \* jobs[j]: its status, whether it has been stopped, see Registered
    allocs,      \* allocs[j]: the newest allocation of j, see NoAlloc
    jobsSeen,    \* the statuses fetched by a call of load_statuses, or NotFetched
    nmRun        \* nmRun[r]: the status of run r

nmVars == <<jobs, allocs, jobsSeen, nmRun>>

-----------------------------------------------------------------------------
JobIds == {JobId[r] : r \in NmRuns}
NoJob == [status |-> "none", stop |-> FALSE, over |-> 0]
NoAlloc == [client |-> "none", task |-> "none", failed |-> FALSE, index |-> 0]
NotFetched == <<>>
Live(alloc) == alloc.client \in {"pending", "running"}
NmTracked == {r \in NmRuns : nmRun[r] \in {"INITIALIZING", "RUNNING", "RECOVERING"}}

NmInit ==
    /\ jobs = [j \in JobIds |-> NoJob]
    /\ allocs = [j \in JobIds |-> NoAlloc]
    /\ jobsSeen = NotFetched
    /\ nmRun = [r \in NmRuns |-> "none"]

(* A job that is registered again keeps its allocations: over is the index *)
(* of the one that had ended by then.                                      *)
Registered(job, alloc) ==
    [status |-> IF job.status = "running" THEN "running" ELSE "pending",
     stop |-> FALSE,
     over |-> IF Live(alloc) THEN 0 ELSE alloc.index]

(* run: POST /jobs registers the job, or registers it again. *)
NmRunModel(r) ==
    /\ jobsSeen = NotFetched
    /\ nmRun[r] = "none"
    /\ nmRun' = [nmRun EXCEPT ![r] = "INITIALIZING"]
    /\ jobs' = [jobs EXCEPT ![JobId[r]] = Registered(@, allocs[JobId[r]])]
    /\ UNCHANGED <<allocs, jobsSeen>>

(* stop: DELETE /job, a job that is not there is ignored. *)
NmStop(r) ==
    /\ jobsSeen = NotFetched
    /\ r \in NmTracked
    /\ jobs' = [jobs EXCEPT ![JobId[r]].stop = (@ \/ jobs[JobId[r]].status # "none")]
    /\ UNCHANGED <<allocs, jobsSeen, nmRun>>

-----------------------------------------------------------------------------
(* NOMAD_TO_RUNNER_STATUS, of the state of the task. *)
TaskStatus(task) ==
    CASE task = "running" -> "RUNNING"
      [] task = "dead"    -> "STOPPED"
      [] OTHER            -> "INITIALIZING"

(* What the same table says of the allocation comes first. *)
ResolveByClientStatus(job, alloc) ==
    IF job = "none" THEN "FAILED"
    ELSE IF job = "dead" THEN (IF alloc.client = "failed" THEN "FAILED" ELSE "STOPPED")
    ELSE IF alloc = NoAlloc THEN "INITIALIZING"
    ELSE IF alloc.client \in {"failed", "lost"} THEN "FAILED"
    ELSE TaskStatus(alloc.task)

(* A job that is dead is not looked at. *)
ResolveByAllocation(job, alloc) ==
    IF job = "none" THEN "FAILED"
    ELSE IF alloc = NoAlloc THEN "INITIALIZING"
    ELSE IF alloc.failed \/ alloc.client = "failed" THEN "RECOVERING"
    ELSE TaskStatus(alloc.task)

(* _resolve_status. *)
ResolveStatus(job, alloc) ==
    IF job = "none" THEN "FAILED"
    ELSE IF job = "dead" THEN (IF alloc.client = "failed" THEN "FAILED" ELSE "STOPPED")
    ELSE IF alloc = NoAlloc THEN "INITIALIZING"
    ELSE IF alloc.failed \/ alloc.client = "failed" THEN "RECOVERING"
    ELSE TaskStatus(alloc.task)

GetJobs ==
    /\ NmTracked # {}
    /\ jobsSeen = NotFetched
    /\ jobsSeen' = [j \in JobIds |-> jobs[j].status]
    /\ UNCHANGED <<jobs, allocs, nmRun>>

GetAllocations ==
    /\ jobsSeen # NotFetched
    /\ nmRun' = [r \in NmRuns |->
            IF r \in NmTracked THEN ResolveStatus(jobsSeen[JobId[r]], allocs[JobId[r]]) ELSE nmRun[r]]
    /\ jobsSeen' = NotFetched
    /\ UNCHANGED <<jobs, allocs>>

(* The second request fails: nothing is reported. *)
GetAllocationsFails ==
    /\ jobsSeen # NotFetched
    /\ jobsSeen' = NotFetched
    /\ UNCHANGED <<jobs, allocs, nmRun>>

-----------------------------------------------------------------------------
(* Nomad.                                                                  *)

(* Placed for the first time, or somewhere else. *)
Placed(j) ==
    /\ jobs[j].status \in {"pending", "running"}
    /\ ~jobs[j].stop
    /\ ~Live(allocs[j])
    /\ allocs[j].index < MaxPlacements
    /\ allocs' = [allocs EXCEPT ![j] =
            [client |-> "pending", task |-> "pending", failed |-> FALSE, index |-> @.index + 1]]
    /\ jobs' = [jobs EXCEPT ![j].status = "running"]
    /\ UNCHANGED <<jobsSeen, nmRun>>

NomadTaskRuns(j) ==
    /\ Live(allocs[j])
    /\ allocs[j].task = "pending"
    /\ allocs' = [allocs EXCEPT ![j].client = "running", ![j].task = "running"]
    /\ UNCHANGED <<jobs, jobsSeen, nmRun>>

(* The task fails: it is restarted, or was for the last time. *)
NomadTaskFails(j) ==
    /\ Live(allocs[j])
    /\ allocs[j].task = "running"
    /\ \/ allocs' = [allocs EXCEPT ![j].task = "pending"]
       \/ allocs' = [allocs EXCEPT ![j].client = "failed", ![j].task = "dead", ![j].failed = TRUE]
    /\ UNCHANGED <<jobs, jobsSeen, nmRun>>

(* The node is gone: nothing more is heard of the task. *)
NodeLost(j) ==
    /\ Live(allocs[j])
    /\ allocs' = [allocs EXCEPT ![j].client = "lost"]
    /\ UNCHANGED <<jobs, jobsSeen, nmRun>>

(* No more attempts, or stopped. *)
JobDies(j) ==
    /\ jobs[j].status \in {"pending", "running"}
    /\ \/ allocs[j].client \in {"failed", "lost"}
       \/ jobs[j].stop
    /\ jobs' = [jobs EXCEPT ![j].status = "dead"]
    /\ allocs' = [allocs EXCEPT ![j] = IF Live(@) THEN [@ EXCEPT !.client = "complete", !.task = "dead"] ELSE @]
    /\ UNCHANGED <<jobsSeen, nmRun>>

Collected(j) ==
    /\ jobs[j].status = "dead"
    /\ jobs' = [jobs EXCEPT ![j] = NoJob]
    /\ allocs' = [allocs EXCEPT ![j] = NoAlloc]
    /\ UNCHANGED <<jobsSeen, nmRun>>

NmNext ==
    \/ \E r \in NmRuns : NmRunModel(r) \/ NmStop(r)
    \/ GetJobs
    \/ GetAllocations
    \/ GetAllocationsFails
    \/ \E j \in JobIds : Placed(j) \/ NomadTaskRuns(j) \/ NomadTaskFails(j) \/ NodeLost(j) \/ JobDies(j) \/ Collected(j)

(* The service polls for ever, and not every request fails. *)
NmFairness == WF_nmVars(GetJobs) /\ SF_nmVars(GetAllocations)

-----------------------------------------------------------------------------
NmTypeOK ==
    /\ jobs \in [JobIds -> [status : {"none", "pending", "running", "dead"}, stop : BOOLEAN, over : 0..MaxPlacements]]
    /\ allocs \in [JobIds -> [client : {"none", "pending", "running", "complete", "failed", "lost"},
                              task : {"none", "pending", "running", "dead"}, failed : BOOLEAN, index : 0..MaxPlacements]]
    /\ jobsSeen = NotFetched \/ jobsSeen \in [JobIds -> {"none", "pending", "running", "dead"}]
    /\ nmRun \in [NmRuns -> {"none", "INITIALIZING", "RUNNING", "RECOVERING", "STOPPED", "FAILED"}]

(* A run is given up only when Nomad has given it up, or its job has been  *)
(* stopped: not while a task that failed is to be placed again, though     *)
(* jobs and allocations are not fetched at the same time.  The exception   *)
(* is a job that has been registered again and not been placed since: its  *)
(* newest allocation is still the one of the run before.                   *)
GivenUp(j) == jobs[j].status \in {"dead", "none"} \/ jobs[j].stop
NotPlacedAgain(j) == jobs[j].over > 0 /\ allocs[j].index = jobs[j].over

NmGivesUpWithNomad ==
    [][\A r \in NmTracked :
            nmRun'[r] \in {"STOPPED", "FAILED"} => GivenUp(JobId[r]) \/ NotPlacedAgain(JobId[r])]_nmVars

(* A run that Nomad has given up is not waited for.                        *)
NmEndSeen ==
    \A r \in NmRuns :
        (r \in NmTracked /\ jobs[JobId[r]].status = "dead") ~> (r \notin NmTracked \/ jobs[JobId[r]].status # "dead")
=============================================================================
