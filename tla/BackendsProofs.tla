--------------------------- MODULE BackendsProofs ---------------------------
(***************************************************************************)
(* Proofs about the Nomad runner and the local backend, for any number of  *)
(* runs, jobs, placements, images and restarts: a run is not given up      *)
(* before Nomad gives it up; what the local backend launches has been      *)
(* built by the process that launches it.  With them and the proofs about  *)
(* the other two, the types of the four backends together.                 *)
(***************************************************************************)
EXTENDS PhalaClusterProofs, AwsEcsRunnerProofs

-----------------------------------------------------------------------------
(* The Nomad runner.                                                       *)

(* A job that was gone when the jobs were fetched has not come back: no    *)
(* run is started between the two requests.                                *)
SeenGone ==
    jobsSeen # NotFetched =>
        \A j \in JobIds : jobsSeen[j] \in {"dead", "none"} => jobs[j].status \in {"dead", "none"}

(* An allocation that lives is the first or a later one of its job. *)
LiveIndexed == \A j \in JobIds : Live(allocs[j]) => allocs[j].index > 0

(* A task is dead because it failed, or its job has been given up since or *)
(* been registered again and not been placed yet.                          *)
DeadTasks ==
    \A j \in JobIds :
        allocs[j].task = "dead" =>
            /\ ~Live(allocs[j])
            /\ allocs[j].index > 0
            /\ allocs[j].failed \/ GivenUp(j) \/ NotPlacedAgain(j)

NmInv ==
    /\ NmTypeOK
    /\ SeenGone
    /\ LiveIndexed
    /\ DeadTasks

JobRecords == [status : {"none", "pending", "running", "dead"}, stop : BOOLEAN, over : 0..MaxPlacements]
AllocRecords == [client : {"none", "pending", "running", "complete", "failed", "lost"},
                 task : {"none", "pending", "running", "dead"}, failed : BOOLEAN, index : 0..MaxPlacements]

(* The types of the Nomad variables, named.                                *)
LEMMA NmTypes ==
  NmTypeOK <=> /\ jobs \in [JobIds -> JobRecords]
               /\ allocs \in [JobIds -> AllocRecords]
               /\ jobsSeen = NotFetched \/ jobsSeen \in [JobIds -> {"none", "pending", "running", "dead"}]
               /\ nmRun \in [NmRuns -> {"none", "INITIALIZING", "RUNNING", "RECOVERING", "STOPPED", "FAILED"}]
BY DEF NmTypeOK, JobRecords, AllocRecords

(* The same after a step.                                                  *)
LEMMA NmTypesNext ==
  NmTypeOK' <=> /\ jobs' \in [JobIds -> JobRecords]
                /\ allocs' \in [JobIds -> AllocRecords]
                /\ jobsSeen' = NotFetched \/ jobsSeen' \in [JobIds -> {"none", "pending", "running", "dead"}]
                /\ nmRun' \in [NmRuns -> {"none", "INITIALIZING", "RUNNING", "RECOVERING", "STOPPED", "FAILED"}]
BY DEF NmTypeOK, JobRecords, AllocRecords

(* The invariant holds at first.                                           *)
LEMMA NmInitInv == ASSUME NmInit PROVE NmInv
  <1> USE NomadAssumption, NmInit DEF NmInit
  <1>1. NoJob \in JobRecords /\ NoAlloc \in AllocRecords /\ NoAlloc.task = "none"
    BY DEF NoJob, NoAlloc, JobRecords, AllocRecords
  <1>2. ~Live(NoAlloc)
    BY DEF NoAlloc, Live
  <1> QED
    BY <1>1, <1>2, NmTypes DEF NmInv, SeenGone, LiveIndexed, DeadTasks

-----------------------------------------------------------------------------
(* One job is another, or its allocation is; the others are what they were. *)
LEMMA JobStepKeeps ==
  ASSUME NmInv,
         NEW j \in JobIds, NEW job \in JobRecords, NEW alloc \in AllocRecords,
         jobs' = [jobs EXCEPT ![j] = job],
         allocs' = [allocs EXCEPT ![j] = alloc],
         UNCHANGED jobsSeen,
         nmRun' \in [NmRuns -> {"none", "INITIALIZING", "RUNNING", "RECOVERING", "STOPPED", "FAILED"}],
         jobsSeen # NotFetched /\ jobs[j].status \in {"dead", "none"} => job.status \in {"dead", "none"},
         Live(alloc) => alloc.index > 0,
         alloc.task = "dead" =>
            /\ ~Live(alloc)
            /\ alloc.index > 0
            /\ \/ alloc.failed
               \/ job.status \in {"dead", "none"} \/ job.stop
               \/ job.over > 0 /\ alloc.index = job.over
  PROVE  NmInv'
  <1>1. NmTypeOK'
    BY NmTypes, NmTypesNext DEF NmInv
  <1>2. /\ jobs'[j] = job /\ allocs'[j] = alloc
        /\ \A i \in JobIds : i # j => jobs'[i] = jobs[i] /\ allocs'[i] = allocs[i]
    BY NmTypes DEF NmInv
  <1>3. SeenGone'
    BY <1>2 DEF NmInv, SeenGone
  <1>4. DeadTasks'
    <2> SUFFICES ASSUME NEW i \in JobIds, allocs'[i].task = "dead"
                 PROVE  /\ ~Live(allocs'[i])
                        /\ allocs'[i].index > 0
                        /\ allocs'[i].failed \/ GivenUp(i)' \/ NotPlacedAgain(i)'
      BY DEF DeadTasks
    <2>1. CASE i = j
      BY <1>2, <2>1 DEF GivenUp, NotPlacedAgain
    <2>2. CASE i # j
      BY <1>2, <2>2 DEF NmInv, DeadTasks, GivenUp, NotPlacedAgain
    <2> QED
      BY <2>1, <2>2
  <1>5. LiveIndexed'
    BY <1>2 DEF NmInv, LiveIndexed
  <1> QED
    BY <1>1, <1>3, <1>4, <1>5 DEF NmInv

(* NmRunModel keeps the invariant.                                         *)
LEMMA NmRunModelKeeps ==
  ASSUME NmInv, NEW r \in NmRuns, NmRunModel(r)
  PROVE  NmInv'
  <1> DEFINE j == JobId[r]
             job == Registered(jobs[j], allocs[j])
  <1>1. j \in JobIds /\ jobs \in [JobIds -> JobRecords] /\ allocs \in [JobIds -> AllocRecords]
    BY NmTypes DEF NmInv, JobIds
  <1>2. /\ job \in JobRecords
        /\ ~Live(allocs[j]) => job.over = allocs[j].index
    BY <1>1, NomadAssumption DEF Registered, JobRecords, AllocRecords
  <1>3. allocs' = [allocs EXCEPT ![j] = allocs[j]]
    BY <1>1 DEF NmRunModel
  <1>4. /\ jobs' = [jobs EXCEPT ![j] = job]
        /\ UNCHANGED jobsSeen
        /\ jobsSeen = NotFetched
        /\ nmRun' \in [NmRuns -> {"none", "INITIALIZING", "RUNNING", "RECOVERING", "STOPPED", "FAILED"}]
    BY NmTypes DEF NmRunModel, NmInv
  <1>5. /\ allocs[j].task = "dead" => ~Live(allocs[j]) /\ allocs[j].index > 0
        /\ Live(allocs[j]) => allocs[j].index > 0
    BY <1>1 DEF NmInv, DeadTasks, LiveIndexed
  <1> HIDE DEF job, j
  <1> QED
    BY <1>1, <1>2, <1>3, <1>4, <1>5, JobStepKeeps

(* NmStop keeps the invariant.                                             *)
LEMMA NmStopKeeps ==
  ASSUME NmInv, NEW r \in NmRuns, NmStop(r)
  PROVE  NmInv'
  <1> DEFINE j == JobId[r]
             stopped == jobs[j].stop \/ jobs[j].status # "none"
             job == [jobs[j] EXCEPT !.stop = stopped]
  <1>1. j \in JobIds /\ jobs \in [JobIds -> JobRecords] /\ allocs \in [JobIds -> AllocRecords]
    BY NmTypes DEF NmInv, JobIds
  <1>2. jobs' = [jobs EXCEPT ![j] = job]
    BY DEF NmStop
  <1>3. stopped \in BOOLEAN /\ (jobs[j].stop => stopped)
    BY <1>1 DEF JobRecords
  <1> HIDE DEF stopped
  <1>4. /\ job \in JobRecords
        /\ job.status = jobs[j].status
        /\ job.over = jobs[j].over
        /\ job.stop = stopped
    BY <1>1, <1>3 DEF JobRecords
  <1>5. /\ allocs' = [allocs EXCEPT ![j] = allocs[j]]
        /\ UNCHANGED <<jobsSeen, nmRun>>
        /\ nmRun' \in [NmRuns -> {"none", "INITIALIZING", "RUNNING", "RECOVERING", "STOPPED", "FAILED"}]
    BY <1>1, NmTypes DEF NmStop, NmInv
  <1>6. /\ Live(allocs[j]) => allocs[j].index > 0
        /\ allocs[j].task = "dead" =>
            /\ ~Live(allocs[j])
            /\ allocs[j].index > 0
            /\ \/ allocs[j].failed
               \/ job.status \in {"dead", "none"} \/ job.stop
               \/ job.over > 0 /\ allocs[j].index = job.over
    BY <1>1, <1>3, <1>4 DEF NmInv, LiveIndexed, DeadTasks, GivenUp, NotPlacedAgain
  <1> HIDE DEF job, j
  <1> QED
    BY <1>1, <1>2, <1>4, <1>5, <1>6, JobStepKeeps

(* What Nomad does with its jobs keeps the invariant.                      *)
LEMMA NomadKeeps ==
  ASSUME NmInv, NEW j \in JobIds,
         Placed(j) \/ NomadTaskRuns(j) \/ NomadTaskFails(j) \/ NodeLost(j) \/ JobDies(j) \/ Collected(j)
  PROVE  NmInv'
  <1>1. /\ jobs \in [JobIds -> JobRecords]
        /\ allocs \in [JobIds -> AllocRecords]
        /\ nmRun \in [NmRuns -> {"none", "INITIALIZING", "RUNNING", "RECOVERING", "STOPPED", "FAILED"}]
        /\ MaxPlacements \in Nat
    BY NmTypes, NomadAssumption DEF NmInv
  <1>2. jobs = [jobs EXCEPT ![j] = jobs[j]] /\ allocs = [allocs EXCEPT ![j] = allocs[j]]
    BY <1>1
  <1>3. jobs[j] \in JobRecords /\ allocs[j] \in AllocRecords
    BY <1>1
  <1>4. CASE Placed(j)
    <2> DEFINE job == [jobs[j] EXCEPT !.status = "running"]
               alloc == [client |-> "pending", task |-> "pending", failed |-> FALSE, index |-> allocs[j].index + 1]
    <2>1. job \in JobRecords
      BY <1>3 DEF JobRecords
    <2>2. alloc \in AllocRecords /\ alloc.task # "dead" /\ alloc.index > 0
      BY <1>1, <1>3, <1>4 DEF Placed, AllocRecords
    <2>3. /\ jobs' = [jobs EXCEPT ![j] = job]
          /\ allocs' = [allocs EXCEPT ![j] = alloc]
          /\ UNCHANGED <<jobsSeen, nmRun>>
          /\ jobs[j].status \notin {"dead", "none"}
      BY <1>4 DEF Placed
    <2> HIDE DEF job, alloc
    <2> QED
      BY <1>1, <2>1, <2>2, <2>3, JobStepKeeps
  <1>5. ASSUME NEW alloc \in AllocRecords,
               jobs' = jobs,
               allocs' = [allocs EXCEPT ![j] = alloc],
               UNCHANGED <<jobsSeen, nmRun>>,
               Live(alloc) => alloc.index > 0,
               alloc.task = "dead" => ~Live(alloc) /\ alloc.index > 0 /\ alloc.failed
        PROVE  NmInv'
    BY <1>1, <1>2, <1>3, <1>5, JobStepKeeps
  <1>6. CASE NomadTaskRuns(j)
    <2> DEFINE client == [allocs[j] EXCEPT !.client = "running"]
               alloc == [client EXCEPT !.task = "running"]
    <2>1. client \in AllocRecords /\ client.index = allocs[j].index
      BY <1>3 DEF AllocRecords
    <2>0. allocs[j].index > 0
      BY <1>6 DEF NomadTaskRuns, NmInv, LiveIndexed
    <2> HIDE DEF client
    <2>2. alloc \in AllocRecords /\ alloc.task # "dead" /\ alloc.index = client.index
      BY <2>1 DEF AllocRecords
    <2>3. /\ jobs' = jobs
          /\ allocs' = [allocs EXCEPT ![j] = alloc]
          /\ UNCHANGED <<jobsSeen, nmRun>>
      BY <1>6 DEF NomadTaskRuns, client
    <2> HIDE DEF alloc
    <2> QED
      BY <1>5, <2>0, <2>1, <2>2, <2>3
  <1>7. CASE NomadTaskFails(j)
    <2> DEFINE again == [allocs[j] EXCEPT !.task = "pending"]
               client == [allocs[j] EXCEPT !.client = "failed"]
               dead == [client EXCEPT !.task = "dead"]
               last == [dead EXCEPT !.failed = TRUE]
    <2>1. again \in AllocRecords /\ again.task # "dead" /\ again.index = allocs[j].index
      BY <1>3 DEF AllocRecords
    <2>2. client \in AllocRecords /\ client.client = "failed" /\ client.index = allocs[j].index
      BY <1>3 DEF AllocRecords
    <2> HIDE DEF client
    <2>3. dead \in AllocRecords /\ dead.client = "failed" /\ dead.index = allocs[j].index
      BY <2>2 DEF AllocRecords
    <2> HIDE DEF dead
    <2>4. last \in AllocRecords /\ last.client = "failed" /\ last.index = allocs[j].index /\ last.failed
      BY <2>3 DEF AllocRecords
    <2>5. /\ jobs' = jobs
          /\ \/ allocs' = [allocs EXCEPT ![j] = again]
             \/ allocs' = [allocs EXCEPT ![j] = last]
          /\ UNCHANGED <<jobsSeen, nmRun>>
      BY <1>7 DEF NomadTaskFails, client, dead
    <2>6. allocs[j].index > 0
      BY <1>7 DEF NomadTaskFails, NmInv, LiveIndexed
    <2> HIDE DEF again, last
    <2> QED
      BY <1>5, <2>1, <2>4, <2>5, <2>6 DEF Live
  <1>8. CASE NodeLost(j)
    <2> DEFINE alloc == [allocs[j] EXCEPT !.client = "lost"]
    <2>1. alloc \in AllocRecords /\ alloc.task = allocs[j].task /\ ~Live(alloc)
      BY <1>3 DEF AllocRecords, Live
    <2>2. allocs[j].task # "dead"
      BY <1>8 DEF NodeLost, NmInv, DeadTasks
    <2>3. /\ jobs' = jobs
          /\ allocs' = [allocs EXCEPT ![j] = alloc]
          /\ UNCHANGED <<jobsSeen, nmRun>>
      BY <1>8 DEF NodeLost
    <2> HIDE DEF alloc
    <2> QED
      BY <1>5, <2>1, <2>2, <2>3
  <1>9. CASE JobDies(j)
    <2> DEFINE job == [jobs[j] EXCEPT !.status = "dead"]
               client == [allocs[j] EXCEPT !.client = "complete"]
               ended == [client EXCEPT !.task = "dead"]
               alloc == IF Live(allocs[j]) THEN ended ELSE allocs[j]
    <2>1. job \in JobRecords /\ job.status = "dead"
      BY <1>3 DEF JobRecords
    <2>2. client \in AllocRecords /\ client.client = "complete" /\ client.index = allocs[j].index
      BY <1>3 DEF AllocRecords
    <2> HIDE DEF client
    <2>3. ended \in AllocRecords /\ ended.client = "complete" /\ ended.index = allocs[j].index
      BY <2>2 DEF AllocRecords
    <2>4. /\ jobs' = [jobs EXCEPT ![j] = job]
          /\ allocs' = [allocs EXCEPT ![j] = alloc]
          /\ UNCHANGED <<jobsSeen, nmRun>>
      BY <1>9 DEF JobDies, client
    <2> HIDE DEF ended, job
    <2>5. alloc \in AllocRecords
      BY <1>3, <2>3
    <2>6. ~Live(alloc) /\ (alloc.task = "dead" => alloc.index > 0)
      BY <2>3 DEF NmInv, DeadTasks, LiveIndexed, Live
    <2> HIDE DEF alloc
    <2> QED
      BY <1>1, <2>1, <2>4, <2>5, <2>6, JobStepKeeps
  <1>10. CASE Collected(j)
    <2>1. NoJob \in JobRecords /\ NoJob.status = "none" /\ NoAlloc \in AllocRecords /\ NoAlloc.task = "none" /\ ~Live(NoAlloc)
      BY <1>1 DEF NoJob, NoAlloc, JobRecords, AllocRecords, Live
    <2>2. /\ jobs' = [jobs EXCEPT ![j] = NoJob]
          /\ allocs' = [allocs EXCEPT ![j] = NoAlloc]
          /\ UNCHANGED <<jobsSeen, nmRun>>
      BY <1>10 DEF Collected
    <2> QED
      BY <1>1, <2>1, <2>2, JobStepKeeps
  <1> QED
    BY <1>4, <1>6, <1>7, <1>8, <1>9, <1>10

(* LoadStatusesNm keeps the invariant.                                     *)
LEMMA LoadStatusesNmKeeps ==
  ASSUME NmInv, GetJobs \/ GetAllocations \/ GetAllocationsFails
  PROVE  NmInv'
  <1>1. CASE GetJobs
    <2>1. jobsSeen' = [j \in JobIds |-> jobs[j].status] /\ UNCHANGED <<jobs, allocs, nmRun>>
      BY <1>1 DEF GetJobs
    <2>2. jobsSeen' \in [JobIds -> {"none", "pending", "running", "dead"}]
      BY <2>1, NmTypes DEF NmInv, JobRecords
    <2>3. NmTypeOK'
      BY <2>1, <2>2, NmTypes, NmTypesNext DEF NmInv
    <2>4. (SeenGone /\ LiveIndexed /\ DeadTasks)'
      BY <2>1 DEF NmInv, SeenGone, LiveIndexed, DeadTasks, GivenUp, NotPlacedAgain
    <2> QED
      BY <2>3, <2>4 DEF NmInv
  <1>2. CASE GetAllocations \/ GetAllocationsFails
    <2>1. jobsSeen' = NotFetched /\ UNCHANGED <<jobs, allocs>>
      BY <1>2 DEF GetAllocations, GetAllocationsFails
    <2>2. nmRun' \in [NmRuns -> {"none", "INITIALIZING", "RUNNING", "RECOVERING", "STOPPED", "FAILED"}]
      <3>1. \A job, alloc : ResolveStatus(job, alloc) \in {"INITIALIZING", "RUNNING", "RECOVERING", "STOPPED", "FAILED"}
        BY DEF ResolveStatus, TaskStatus
      <3> QED
        BY <1>2, <3>1, NmTypes DEF GetAllocations, GetAllocationsFails, NmInv
    <2>3. NmTypeOK'
      BY <2>1, <2>2, NmTypes, NmTypesNext DEF NmInv
    <2>4. (SeenGone /\ LiveIndexed /\ DeadTasks)'
      BY <2>1 DEF NmInv, SeenGone, LiveIndexed, DeadTasks, GivenUp, NotPlacedAgain
    <2> QED
      BY <2>3, <2>4 DEF NmInv
  <1> QED
    BY <1>1, <1>2

(* Every step keeps the invariant.                                         *)
LEMMA NmNextKeeps ==
  ASSUME NmInv, [NmNext]_nmVars
  PROVE  NmInv'
  <1>1. CASE UNCHANGED nmVars
    BY <1>1 DEF nmVars, NmInv, NmTypeOK, SeenGone, LiveIndexed, DeadTasks, GivenUp, NotPlacedAgain
  <1>2. CASE NmNext
    BY <1>2, NmRunModelKeeps, NmStopKeeps, LoadStatusesNmKeeps, NomadKeeps DEF NmNext
  <1> QED
    BY <1>1, <1>2

(* A step of the backends moves the Nomad variables as NmNext does, or not *)
(* at all.                                                                 *)
LEMMA NomadStepOnly ==
  ASSUME [Next]_backendVars
  PROVE  [NmNext]_nmVars
BY DEF Next, PhalaStep, AwsStep, NomadStep, LocalStep, backendVars

(* What the two requests of load_statuses have seen of a job agrees with   *)
(* Nomad: the invariant GivesUpWithNomad follows from.                     *)
THEOREM NomadInvariance == Spec => []NmInv
  <1>1. Init => NmInv
    BY NmInitInv DEF Init
  <1>2. NmInv /\ [Next]_backendVars => NmInv'
    BY NomadStepOnly, NmNextKeeps
  <1> QED
    BY <1>1, <1>2, PTL DEF Spec

-----------------------------------------------------------------------------
(* What the two requests bring together when a run is given up.            *)
LEMMA GivenUpWithNomad ==
  ASSUME NmInv, GetAllocations,
         NEW r \in NmTracked, nmRun'[r] \in {"STOPPED", "FAILED"}
  PROVE  GivenUp(JobId[r]) \/ NotPlacedAgain(JobId[r])
  <1> DEFINE j == JobId[r]
  <1>1. r \in NmRuns /\ j \in JobIds
    BY DEF NmTracked, JobIds
  <1>2. jobsSeen # NotFetched /\ nmRun'[r] = ResolveStatus(jobsSeen[j], allocs[j])
    BY <1>1 DEF GetAllocations
  <1>3. CASE jobsSeen[j] \in {"none", "dead"}
    BY <1>1, <1>2, <1>3 DEF NmInv, SeenGone, GivenUp
  <1>4. CASE jobsSeen[j] \notin {"none", "dead"}
    <2>1. /\ ~allocs[j].failed
          /\ nmRun'[r] = TaskStatus(allocs[j].task)
      BY <1>2, <1>4 DEF ResolveStatus
    <2>2. allocs[j].task = "dead"
      BY <2>1 DEF TaskStatus
    <2> QED
      BY <1>1, <2>1, <2>2 DEF NmInv, DeadTasks
  <1> QED
    BY <1>3, <1>4

(* A run is given up only when its job is, or has been registered again    *)
(* and not been placed yet, though jobs and allocations are not fetched at *)
(* the same time.                                                          *)
THEOREM GivesUpWithNomad == Spec => NmGivesUpWithNomad
  <1> DEFINE GivesUp == \A r \in NmTracked :
                nmRun'[r] \in {"STOPPED", "FAILED"} => GivenUp(JobId[r]) \/ NotPlacedAgain(JobId[r])
  <1>1. NmInv /\ [Next]_backendVars => [GivesUp]_nmVars
    <2> SUFFICES ASSUME NmInv, NmNext,
                        NEW r \in NmTracked, nmRun'[r] \in {"STOPPED", "FAILED"}
                 PROVE  GivenUp(JobId[r]) \/ NotPlacedAgain(JobId[r])
      BY NomadStepOnly
    <2>1. nmRun[r] \in {"INITIALIZING", "RUNNING", "RECOVERING"} /\ r \in NmRuns
      BY DEF NmTracked
    <2>2. CASE GetAllocations
      BY <2>2, GivenUpWithNomad
    <2>3. CASE ~GetAllocations
      <3>1. \A q \in NmRuns : nmRun'[q] \in {nmRun[q], "INITIALIZING"}
        BY <2>3, NmTypes DEF NmNext, NmRunModel, NmStop, GetJobs, GetAllocationsFails, Placed, NomadTaskRuns,
           NomadTaskFails, NodeLost, JobDies, Collected, NmInv
      <3> QED
        BY <2>1, <3>1
    <2> QED
      BY <2>2, <2>3
  <1> QED
    BY <1>1, NomadInvariance, PTL DEF Spec, NmGivesUpWithNomad

-----------------------------------------------------------------------------
(* The local backend.                                                      *)

(* A build that has succeeded and not been read yet is of this process.    *)
SuccessIsCurrent == \A i \in Images : pending[i] = "SUCCESS" => images[i] = "current"

LoInv ==
    /\ LoTypeOK
    /\ SuccessIsCurrent

LoStatuses == {"none", "BUILDING", "INITIALIZING", "RUNNING", "STOPPED", "FAILED", "lost"}

(* The invariant holds at first.                                           *)
LEMMA LoInitInv == ASSUME LoInit PROVE LoInv
BY LocalBackendAssumption DEF LoInit, LoInv, LoTypeOK, SuccessIsCurrent

(* The image of a run is one of the images.                                *)
LEMMA ImageOfRun == \A r \in LoRuns : Image[r] \in Images
BY DEF Images

(* A launch gives the runs their statuses and touches containers only.     *)
LEMMA LaunchedTypes ==
  ASSUME LoInv, NEW rs \in SUBSET LoRuns, NEW statuses,
         \A r \in LoRuns : r \notin rs => statuses[r] \in LoStatuses,
         Launched(rs, statuses)
  PROVE  /\ containers' \in [LoRuns -> {"none", "running", "exited"}]
         /\ loRun' \in [LoRuns -> LoStatuses]
         /\ \A r \in LoRuns : containers'[r] = "running" => containers[r] = "running" \/ r \in rs
  <1>1. PICK created \in SUBSET {r \in rs : images[Image[r]] # "none"} :
        /\ \E removed \in {rs, created} :
            containers' = [r \in LoRuns |-> IF r \in created THEN "running" ELSE RemovedFor(removed)[r]]
        /\ loRun' = [r \in LoRuns |-> IF r \in created THEN "INITIALIZING"
                                      ELSE IF r \in rs THEN "FAILED" ELSE statuses[r]]
    BY DEF Launched
  <1>2. \A removed : /\ RemovedFor(removed) \in [LoRuns -> {"none", "running", "exited"}]
                     /\ \A r \in LoRuns : RemovedFor(removed)[r] = "running" => containers[r] = "running"
    BY DEF LoInv, LoTypeOK, RemovedFor
  <1>3. loRun' \in [LoRuns -> LoStatuses]
    BY <1>1 DEF LoStatuses
  <1> QED
    BY <1>1, <1>2, <1>3

-----------------------------------------------------------------------------
(* LoStart keeps the invariant.                                            *)
LEMMA LoStartKeeps ==
  ASSUME LoInv, NEW r \in LoRuns, LoStartBuilt(r) \/ LoStartBuild(r)
  PROVE  LoInv'
  <1>1. CASE LoStartBuilt(r)
    <2>1. Launched({r}, loRun) /\ UNCHANGED <<images, pending, threads, loRestarts>>
      BY <1>1 DEF LoStartBuilt
    <2>2. containers' \in [LoRuns -> {"none", "running", "exited"}] /\ loRun' \in [LoRuns -> LoStatuses]
      BY <2>1, LaunchedTypes DEF LoInv, LoTypeOK, LoStatuses
    <2> QED
      BY <2>1, <2>2 DEF LoInv, LoTypeOK, LoStatuses, SuccessIsCurrent
  <1>2. CASE LoStartBuild(r)
    BY <1>2, ImageOfRun DEF LoStartBuild, LoInv, LoTypeOK, SuccessIsCurrent
  <1> QED
    BY <1>1, <1>2

(* ThreadEnds keeps the invariant.                                         *)
LEMMA ThreadEndsKeeps ==
  ASSUME LoInv, NEW r \in LoRuns, ThreadEnds(r)
  PROVE  LoInv'
  <1>1. PICK ok \in BOOLEAN :
        /\ threads' = [threads EXCEPT ![r] = IF ok THEN "SUCCESS" ELSE "FAILED"]
        /\ pending' = [pending EXCEPT ![Image[r]] = IF ok THEN "SUCCESS" ELSE "FAILED"]
        /\ images' = IF ok THEN [images EXCEPT ![Image[r]] = "current"] ELSE images
    BY DEF ThreadEnds
  <1>2. UNCHANGED <<containers, loRun, loRestarts>>
    BY DEF ThreadEnds
  <1>3. CASE ok = TRUE
    BY <1>1, <1>2, <1>3, ImageOfRun DEF LoInv, LoTypeOK, SuccessIsCurrent
  <1>4. CASE ok = FALSE
    BY <1>1, <1>2, <1>4, ImageOfRun DEF LoInv, LoTypeOK, SuccessIsCurrent
  <1> QED
    BY <1>3, <1>4

(* What the builds that are polled are told, and what is launched of them. *)
LEMMA PolledBuilds ==
  ASSUME LoInv, LoBuildsPolled
  PROVE  /\ \E rs \in SUBSET LoRuns : \E statuses :
              /\ Launched(rs, statuses)
              /\ \A r \in rs : images[Image[r]] = "current"
              /\ \A r \in LoRuns : r \notin rs => statuses[r] \in LoStatuses
         /\ pending' \in [Images -> {"none", "BUILDING", "SUCCESS", "FAILED"}]
         /\ \A i \in Images : pending'[i] = "SUCCESS" => pending[i] = "SUCCESS"
         /\ UNCHANGED <<images, threads, loRestarts>>
  <1> DEFINE Read(first, r) == GetStatus(IF r \in first THEN pending[Image[r]] ELSE AfterRead(pending[Image[r]]))
  <1>1. PICK first \in SUBSET InBuild :
          Launched({r \in InBuild : Read(first, r) = "SUCCESS"},
                   [r \in LoRuns |-> IF r \in InBuild THEN Read(first, r) ELSE loRun[r]])
    BY DEF LoBuildsPolled
  <1>2. /\ pending' = [i \in Images |-> IF \E r \in InBuild : Image[r] = i THEN AfterRead(pending[i]) ELSE pending[i]]
        /\ UNCHANGED <<images, threads, loRestarts>>
    BY DEF LoBuildsPolled
  <1>3. /\ pending \in [Images -> {"none", "BUILDING", "SUCCESS", "FAILED"}]
        /\ \A i \in Images : AfterRead(pending[i]) \in {"none", "BUILDING"}
    BY DEF LoInv, LoTypeOK, AfterRead
  <1>4. InBuild \subseteq LoRuns
    BY DEF InBuild
  <1>5. \A r \in InBuild : /\ Read(first, r) \in {"BUILDING", "SUCCESS", "FAILED"}
                           /\ Read(first, r) = "SUCCESS" => images[Image[r]] = "current"
    BY <1>3, <1>4, ImageOfRun DEF GetStatus, LoInv, SuccessIsCurrent
  <1> DEFINE rs == {r \in InBuild : Read(first, r) = "SUCCESS"}
             statuses == [r \in LoRuns |-> IF r \in InBuild THEN Read(first, r) ELSE loRun[r]]
  <1>6. \A r \in LoRuns : r \notin rs => statuses[r] \in LoStatuses
    <2> HIDE DEF Read
    <2> QED
      BY <1>5 DEF LoInv, LoTypeOK, LoStatuses
  <1>7. rs \in SUBSET LoRuns /\ \A r \in rs : images[Image[r]] = "current"
    <2> HIDE DEF Read
    <2> QED
      BY <1>4, <1>5
  <1>8. Launched(rs, statuses)
    BY <1>1
  <1>9. \E ss, st : /\ ss \in SUBSET LoRuns
                    /\ Launched(ss, st)
                    /\ \A r \in ss : images[Image[r]] = "current"
                    /\ \A r \in LoRuns : r \notin ss => st[r] \in LoStatuses
    <2> HIDE DEF rs, statuses
    <2> QED
      BY <1>6, <1>7, <1>8, Zenon
  <1> QED
    BY <1>2, <1>3, <1>9

(* LoBuildsPolled keeps the invariant.                                     *)
LEMMA LoBuildsPolledKeeps ==
  ASSUME LoInv, LoBuildsPolled
  PROVE  LoInv'
  <1>1. containers' \in [LoRuns -> {"none", "running", "exited"}] /\ loRun' \in [LoRuns -> LoStatuses]
    BY PolledBuilds, LaunchedTypes
  <1> QED
    BY <1>1, PolledBuilds DEF LoInv, LoTypeOK, LoStatuses, SuccessIsCurrent

(* LoRunsPolled keeps the invariant.                                       *)
LEMMA LoRunsPolledKeeps ==
  ASSUME LoInv, LoRunsPolled
  PROVE  LoInv'
  <1>1. PICK f \in [LoRuns -> {"RUNNING", "STOPPED", "FAILED"} \cup {loRun[r] : r \in LoRuns}] : loRun' = f
    BY DEF LoRunsPolled
  <1>2. loRun' \in [LoRuns -> LoStatuses]
    BY <1>1 DEF LoInv, LoTypeOK, LoStatuses
  <1> QED
    BY <1>2 DEF LoRunsPolled, LoInv, LoTypeOK, LoStatuses, SuccessIsCurrent

(* ContainersChange keeps the invariant.                                   *)
LEMMA ContainersChangeKeeps ==
  ASSUME LoInv, NEW r \in LoRuns, LoStop(r) \/ ContainerExits(r)
  PROVE  LoInv'
BY DEF LoStop, ContainerExits, LoInv, LoTypeOK, SuccessIsCurrent

(* LoRestart keeps the invariant.                                          *)
LEMMA LoRestartKeeps ==
  ASSUME LoInv, LoRestart
  PROVE  LoInv'
  <1>1. /\ pending' = [i \in Images |-> "none"]
        /\ threads' = [r \in LoRuns |-> IF threads[r] = "running" THEN "killed" ELSE threads[r]]
        /\ loRun' = [r \in LoRuns |-> IF r \in InBuild THEN "lost" ELSE loRun[r]]
        /\ UNCHANGED containers
    BY DEF LoRestart
  <1>2. images' \in [Images -> {"none", "earlier", "current"}]
    BY DEF LoRestart
  <1>3. loRestarts' \in 0..MaxLoRestarts
    BY LocalBackendAssumption DEF LoRestart, LoInv, LoTypeOK
  <1> QED
    BY <1>1, <1>2, <1>3 DEF LoInv, LoTypeOK, SuccessIsCurrent

(* Every step keeps the invariant.                                         *)
LEMMA LoNextKeeps ==
  ASSUME LoInv, [LoNext]_loVars
  PROVE  LoInv'
  <1>1. CASE UNCHANGED loVars
    BY <1>1 DEF loVars, LoInv, LoTypeOK, SuccessIsCurrent
  <1>2. CASE LoNext
    BY <1>2, LoStartKeeps, ThreadEndsKeeps, LoBuildsPolledKeeps, LoRunsPolledKeeps, ContainersChangeKeeps,
       LoRestartKeeps DEF LoNext
  <1> QED
    BY <1>1, <1>2

(* A step of the backends moves the local variables as LoNext does, or not *)
(* at all.                                                                 *)
LEMMA LocalStepOnly ==
  ASSUME [Next]_backendVars
  PROVE  [LoNext]_loVars
BY DEF Next, PhalaStep, AwsStep, NomadStep, LocalStep, backendVars

(* A build that has succeeded and was not polled yet belongs to this       *)
(* process: the invariant ImageOfThisProcess follows from.                 *)
THEOREM LocalInvariance == Spec => []LoInv
  <1>1. Init => LoInv
    BY LoInitInv DEF Init
  <1>2. LoInv /\ [Next]_backendVars => LoInv'
    BY LocalStepOnly, LoNextKeeps
  <1> QED
    BY <1>1, <1>2, PTL DEF Spec

-----------------------------------------------------------------------------
(* With a rebuild mode, a container that is launched runs an image of the  *)
(* process that launches it, never one an earlier process has left.        *)
THEOREM ImageOfThisProcess == Spec => LoImageOfThisProcess
  <1> DEFINE OwnImage == \A r \in LoRuns :
                (containers[r] = "none" /\ containers'[r] = "running" /\ ~RebuildDisabled)
                    => images[Image[r]] = "current"
  <1>1. LoInv /\ [Next]_backendVars => [OwnImage]_loVars
    <2> SUFFICES ASSUME LoInv, LoNext,
                        NEW r \in LoRuns,
                        containers[r] = "none", containers'[r] = "running", ~RebuildDisabled
                 PROVE  images[Image[r]] = "current"
      BY LocalStepOnly
    <2>1. ASSUME NEW q \in LoRuns, LoStartBuilt(q)
          PROVE  images[Image[r]] = "current"
      <3>1. Launched({q}, loRun) /\ images[Image[q]] = "current"
        BY <2>1 DEF LoStartBuilt, Exists
      <3>2. r \in {q}
        BY <3>1, LaunchedTypes DEF LoInv, LoTypeOK, LoStatuses
      <3> QED
        BY <3>1, <3>2
    <2>2. ASSUME LoBuildsPolled
          PROVE  images[Image[r]] = "current"
      BY <2>2, PolledBuilds, LaunchedTypes
    <2>3. ASSUME NEW q \in LoRuns, LoStop(q) \/ ContainerExits(q)
          PROVE  FALSE
      BY <2>3 DEF LoStop, ContainerExits, LoInv, LoTypeOK
    <2>4. ASSUME \/ \E q \in LoRuns : LoStartBuild(q) \/ ThreadEnds(q)
                 \/ LoRunsPolled
                 \/ LoRestart
          PROVE  FALSE
      BY <2>4 DEF LoStartBuild, ThreadEnds, LoRunsPolled, LoRestart
    <2> QED
      BY <2>1, <2>2, <2>3, <2>4 DEF LoNext
  <1> QED
    BY <1>1, LocalInvariance, PTL DEF Spec, LoImageOfThisProcess

(* The variables of the four backends have their types.                    *)
THEOREM BackendsTyped == Spec => []TypeOK
  <1>1. Spec => [](backend \in Kinds)
    <2>1. Init => backend \in Kinds
      BY DEF Init
    <2>2. backend \in Kinds /\ [Next]_backendVars => (backend \in Kinds)'
      BY DEF Next, PhalaStep, AwsStep, NomadStep, LocalStep, backendVars
    <2> QED
      BY <2>1, <2>2, PTL DEF Spec
  <1>2. backend \in Kinds /\ PhInv /\ EcInv /\ NmInv /\ LoInv => TypeOK
    BY DEF PhInv, EcInv, NmInv, LoInv, TypeOK
  <1> QED
    BY <1>1, <1>2, PhalaInvariance, AwsInvariance, NomadInvariance, LocalInvariance, PTL
=============================================================================
