------------------------- MODULE PhalaClusterProofs -------------------------
(***************************************************************************)
(* Proofs about the Phala backend, for any number of runs, CVMs, tasks and *)
(* restarts: its tasks are routed to the CVMs that have them, and there is *)
(* a CVM for the next build.  The theorems are about the specification of  *)
(* Backends, whose runs check the same properties.                         *)
(***************************************************************************)
EXTENDS Backends, TLAPS

(* What is known to the process has been deployed: a CVM that is deployed  *)
(* later has no task and is not known under its name yet.                  *)
Deployed ==
    /\ \A c \in cvms : platform[c] # "absent"
    /\ \A t \in TaskIds : tasks[t].cvm # NoCvm => platform[tasks[t].cvm] # "absent"

(* A task that does not exist yet has no CVM. *)
UnusedTasksFree ==
    \A t \in TaskIds : tasks[t].status = "none" => tasks[t].cvm = NoCvm /\ tasks[t].op = "build"

(* The job id of a run that is building or running is a task of a CVM.     *)
JobsAreTasks ==
    \A r \in InBuildPhase \cup InRunPhase :
        /\ phRun[r].task \in TaskIds
        /\ tasks[phRun[r].task].status # "none"
        /\ tasks[phRun[r].task].cvm # NoCvm

TaskRecords ==
    [cvm : CVMs \cup {NoCvm}, submission : {Submission[r] : r \in PhRuns} \cup {NoCvm},
     op : {"build", "start", "stop"}, status : {"none", "pending", "completed", "failed"}]

RunRecords ==
    [status : {"none", "BUILDING", "INITIALIZING", "RUNNING", "STOPPED", "FAILED", "lost"}, task : 0..MaxTasks]

PhInv ==
    /\ PhTypeOK
    /\ PhRoutedToOwner
    /\ PhHeadKnown
    /\ PhLiveTasksRoutable
    /\ Deployed
    /\ UnusedTasksFree
    /\ JobsAreTasks

(* The invariant holds at first.                                           *)
LEMMA PhInitInv == ASSUME PhInit PROVE PhInv
  <1> USE PhalaClusterAssumption, PhInit
  <1> USE DEF PhInit, CVMs, TaskIds, NoTask, NotBegun, InBuildPhase, InRunPhase
  <1>1. PhTypeOK
    BY DEF PhTypeOK
  <1>2. InBuildPhase \cup InRunPhase = {}
    OBVIOUS
  <1>3. PhRoutedToOwner /\ PhHeadKnown /\ Deployed /\ UnusedTasksFree
    BY DEF PhRoutedToOwner, PhHeadKnown, Deployed, UnusedTasksFree
  <1>4. PhLiveTasksRoutable /\ JobsAreTasks
    BY <1>2 DEF PhLiveTasksRoutable, JobsAreTasks
  <1> QED
    BY <1>1, <1>3, <1>4 DEF PhInv

-----------------------------------------------------------------------------
(* A task that the CVMs do not have yet.                                   *)
LEMMA FreshTaskFree ==
  ASSUME TasksLeft
  PROVE  FreshTask \in TaskIds /\ tasks[FreshTask].status = "none"
BY DEF TasksLeft, FreshTask

(* What ensure_capacity leaves of the cluster: nothing that was known or   *)
(* deployed is forgotten, the head is known, and what is new was not there. *)
LEMMA CapacityKeeps ==
  ASSUME PhInv,
         NEW r \in PhRuns, NEW yes \in SUBSET Running, NEW silent \in SUBSET cvms,
         NEW outcome \in EnsureCapacity(r, yes, silent)
  PROVE  /\ outcome.platform \in [CVMs -> {"absent", "running", "stopped"}]
         /\ outcome.cvms \subseteq CVMs
         /\ cvms \subseteq outcome.cvms
         /\ \A c \in CVMs : platform[c] # "absent" => outcome.platform[c] # "absent"
         /\ \A c \in outcome.cvms : outcome.platform[c] # "absent"
         /\ \A c \in outcome.cvms \ cvms : platform[c] = "absent"
         /\ outcome.head \in CVMs \cup {NoCvm}
         /\ outcome.cvms # {} => outcome.head \in outcome.cvms
         /\ ~outcome.raises => outcome.head \in outcome.cvms
  <1> USE PhalaClusterAssumption DEF CVMs
  <1> DEFINE Fine(o) ==
         /\ o.platform \in [CVMs -> {"absent", "running", "stopped"}]
         /\ o.cvms \subseteq CVMs
         /\ cvms \subseteq o.cvms
         /\ \A c \in CVMs : platform[c] # "absent" => o.platform[c] # "absent"
         /\ \A c \in o.cvms : o.platform[c] # "absent"
         /\ \A c \in o.cvms \ cvms : platform[c] = "absent"
         /\ o.head \in CVMs \cup {NoCvm}
         /\ o.cvms # {} => o.head \in o.cvms
         /\ ~o.raises => o.cvms = {} \/ o.head \in o.cvms
  <1>1. /\ PhTypeOK /\ PhHeadKnown
        /\ \A c \in cvms : platform[c] # "absent"
    BY DEF PhInv, Deployed
  <1> HIDE DEF CVMs
  <1>2. Fine(Unchanged) /\ Fine(Raised)
    BY <1>1 DEF Unchanged, Raised, Outcome, PhTypeOK, PhHeadKnown
  <1>3. \A c \in yes : Fine(Outcome(FALSE, cvms, c, platform))
    BY <1>1 DEF Outcome, PhTypeOK, Running
  <1>4. \A o \in Provision : Fine(o)
    <2>1. \A o \in LeftBehind : Fine(o)
      BY <1>1 DEF LeftBehind, New, CVMs, Outcome, PhTypeOK, PhHeadKnown
    <2>2. \A o \in CleanedUp : Fine(o)
      BY <1>1 DEF CleanedUp, New, CVMs, Outcome, PhTypeOK, PhHeadKnown
    <2>3. \A o \in NewHead : Fine(o)
      BY <1>1 DEF NewHead, New, CVMs, Outcome, PhTypeOK
    <2> HIDE DEF Fine
    <2> QED
      BY <2>1, <2>2, <2>3, <1>2 DEF Provision
  <1>5. Fine(outcome)
    <2>1. Preferred(yes \ {head}) \subseteq yes
      BY DEF Preferred
    <2> HIDE DEF Fine
    <2> QED
      BY <1>2, <1>3, <1>4, <2>1 DEF EnsureCapacity
  <1>6. ~outcome.raises => outcome.head \in outcome.cvms
    <2>1. head \in cvms => outcome.cvms # {}
      BY <1>5
    <2>2. head \notin cvms => outcome.raises
      BY DEF EnsureCapacity, Raised, Outcome
    <2> QED
      BY <2>1, <2>2, <1>5
  <1> QED
    BY <1>5, <1>6

-----------------------------------------------------------------------------
(* Every operation keeps the invariant.                                    *)

(* A start changes the operation of a task that a CVM has, and the status  *)
(* of one run, which has this task from then on.                           *)
LEMMA StartedKeeps ==
  ASSUME PhInv,
         NEW r \in PhRuns, NEW t \in TaskIds,
         Started(r, t),
         tasks[t].status # "none", tasks[t].cvm # NoCvm,
         taskMap' \in [TaskIds -> CVMs \cup {NoCvm}],
         taskMap' = taskMap \/ taskMap' = [taskMap EXCEPT ![t] = tasks[t].cvm],
         tasks[t].cvm \in cvms => taskMap'[t] \in cvms,
         UNCHANGED <<platform, cvms, head, restarts>>
  PROVE  PhInv'
  <1> USE PhalaClusterAssumption
  <1>1. PhTypeOK'
    <2>1. tasks' \in [TaskIds -> TaskRecords]
      <3>1. tasks[t] \in TaskRecords /\ tasks \in [TaskIds -> TaskRecords]
        BY DEF PhInv, PhTypeOK, TaskRecords
      <3>2. [tasks[t] EXCEPT !.op = "start", !.status = "pending"] \in TaskRecords
        BY <3>1 DEF TaskRecords
      <3> HIDE DEF TaskRecords
      <3>3. tasks' = tasks \/ tasks' = [tasks EXCEPT ![t] = [tasks[t] EXCEPT !.op = "start", !.status = "pending"]]
        BY DEF Started
      <3> QED
        BY <3>1, <3>2, <3>3
    <2>2. phRun' \in [PhRuns -> RunRecords]
      <3>1. phRun \in [PhRuns -> RunRecords] /\ t \in 0..MaxTasks
        BY DEF PhInv, PhTypeOK, RunRecords, TaskIds
      <3>2. \/ phRun' = [phRun EXCEPT ![r] = [status |-> "INITIALIZING", task |-> t]]
            \/ phRun' = [phRun EXCEPT ![r] = [status |-> "FAILED", task |-> t]]
        BY DEF Started
      <3> QED
        BY <3>1, <3>2 DEF RunRecords
    <2> QED
      BY <2>1, <2>2 DEF PhInv, PhTypeOK, TaskRecords, RunRecords
  <1>2. /\ \A u \in TaskIds : tasks'[u].cvm = tasks[u].cvm
        /\ \A u \in TaskIds : tasks'[u].status # "none" <=> tasks[u].status # "none"
        /\ \A u \in TaskIds : u # t => tasks'[u] = tasks[u]
        /\ \A q \in PhRuns : q # r => phRun'[q] = phRun[q]
        /\ phRun'[r].task = t
    <2>1. /\ \A u \in TaskIds : tasks'[u].cvm = tasks[u].cvm
          /\ \A u \in TaskIds : u # t => tasks'[u] = tasks[u]
          /\ \A u \in TaskIds : tasks'[u].status # "none" <=> tasks[u].status # "none"
      <3> DEFINE begun == [tasks[t] EXCEPT !.op = "start", !.status = "pending"]
      <3>1. tasks' = tasks \/ tasks' = [tasks EXCEPT ![t] = begun]
        BY DEF Started
      <3>2. tasks \in [TaskIds -> TaskRecords]
        BY DEF PhInv, PhTypeOK, TaskRecords
      <3>3. begun.cvm = tasks[t].cvm /\ begun.status = "pending"
        BY <3>2 DEF TaskRecords
      <3> HIDE DEF begun
      <3> QED
        BY <3>1, <3>2, <3>3
    <2>2. /\ \A q \in PhRuns : q # r => phRun'[q] = phRun[q]
          /\ phRun'[r].task = t
      <3>1. \/ phRun' = [phRun EXCEPT ![r] = [status |-> "INITIALIZING", task |-> t]]
            \/ phRun' = [phRun EXCEPT ![r] = [status |-> "FAILED", task |-> t]]
        BY DEF Started
      <3> QED
        BY <3>1 DEF PhInv, PhTypeOK
    <2> QED
      BY <2>1, <2>2
  <1>3. PhRoutedToOwner' /\ PhHeadKnown' /\ Deployed' /\ UnusedTasksFree'
    <2>1. UnusedTasksFree'
      BY <1>2 DEF PhInv, UnusedTasksFree
    <2> QED
      BY <1>2, <2>1 DEF PhInv, PhTypeOK, PhRoutedToOwner, PhHeadKnown, Deployed
  <1>4. JobsAreTasks'
    BY <1>2 DEF PhInv, PhTypeOK, JobsAreTasks, InBuildPhase, InRunPhase
  <1>5. PhLiveTasksRoutable'
    <2> SUFFICES ASSUME NEW q \in (InBuildPhase \cup InRunPhase)',
                        (tasks[phRun[q].task].status # "failed")', (tasks[phRun[q].task].cvm \in cvms)'
                 PROVE  Routable(phRun[q].task)'
      BY DEF PhLiveTasksRoutable
    <2> DEFINE u == phRun'[q].task
    <2>1. u = t => taskMap'[u] \in cvms'
      BY <1>2 DEF PhInv, PhTypeOK
    <2>2. u # t => q \in InBuildPhase \cup InRunPhase /\ phRun[q].task = u /\ u \in TaskIds
      BY <1>2 DEF PhInv, JobsAreTasks, InBuildPhase, InRunPhase
    <2>3. u # t => taskMap[u] \in cvms
      BY <1>2, <2>2 DEF PhInv, PhLiveTasksRoutable, Routable
    <2> QED
      BY <2>1, <2>2, <2>3 DEF Routable, PhInv, PhTypeOK
  <1> QED
    BY <1>1, <1>3, <1>4, <1>5 DEF PhInv

(* A run that was building or running has another status; all the rest is  *)
(* what it was.                                                            *)
LEMMA EndedKeeps ==
  ASSUME PhInv,
         NEW r \in InBuildPhase \cup InRunPhase,
         NEW s \in {"INITIALIZING", "RUNNING", "STOPPED", "FAILED"},
         phRun' = [phRun EXCEPT ![r].status = s],
         UNCHANGED <<tasks, platform, cvms, head, taskMap, restarts>>
  PROVE  PhInv'
  <1>1. r \in PhRuns /\ phRun \in [PhRuns -> RunRecords]
    BY DEF InBuildPhase, InRunPhase, PhInv, PhTypeOK, RunRecords
  <1>2. phRun' \in [PhRuns -> RunRecords]
    BY <1>1 DEF RunRecords
  <1>3. /\ \A q \in PhRuns : phRun'[q].task = phRun[q].task
        /\ (InBuildPhase \cup InRunPhase)' \subseteq InBuildPhase \cup InRunPhase
    BY <1>1 DEF InBuildPhase, InRunPhase
  <1>4. PhTypeOK'
    BY <1>2 DEF PhInv, PhTypeOK, RunRecords
  <1>5. (PhRoutedToOwner /\ PhHeadKnown /\ Deployed /\ UnusedTasksFree)'
    BY DEF PhInv, PhRoutedToOwner, PhHeadKnown, Deployed, UnusedTasksFree
  <1>6. PhLiveTasksRoutable'
    BY <1>3 DEF PhInv, PhLiveTasksRoutable, Routable, InBuildPhase, InRunPhase
  <1>7. JobsAreTasks'
    BY <1>3 DEF PhInv, JobsAreTasks, InBuildPhase, InRunPhase
  <1> QED
    BY <1>4, <1>5, <1>6, <1>7 DEF PhInv

(* StartBuilt keeps the invariant.                                         *)
LEMMA StartBuiltKeeps ==
  ASSUME PhInv, NEW r \in PhRuns, StartBuilt(r)
  PROVE  PhInv'
  <1> PICK yes \in SUBSET Running :
        \E t \in ImagesOf(r, yes) :
            /\ taskMap' = [taskMap EXCEPT ![t] = tasks[t].cvm]
            /\ Started(r, t)
    BY DEF StartBuilt
  <1>1. PICK t \in ImagesOf(r, yes) :
            /\ taskMap' = [taskMap EXCEPT ![t] = tasks[t].cvm]
            /\ Started(r, t)
    OBVIOUS
  <1>2. /\ t \in TaskIds
        /\ tasks[t].cvm \in cvms
        /\ tasks[t].op # "build" \/ tasks[t].status = "completed"
    BY DEF ImagesOf, Running
  <1>3. /\ tasks[t].cvm \in CVMs
        /\ tasks[t].cvm # NoCvm
        /\ tasks[t].status # "none"
    BY <1>2, PhalaClusterAssumption DEF PhInv, PhTypeOK, UnusedTasksFree
  <1>4. taskMap' \in [TaskIds -> CVMs \cup {NoCvm}] /\ taskMap'[t] \in cvms
    BY <1>1, <1>2, <1>3 DEF PhInv, PhTypeOK
  <1> QED
    BY <1>1, <1>2, <1>3, <1>4, StartedKeeps DEF StartBuilt

(* BuildPolled keeps the invariant.                                        *)
LEMMA BuildPolledKeeps ==
  ASSUME PhInv, NEW r \in PhRuns, BuildPolled(r)
  PROVE  PhInv'
  <1> DEFINE t == phRun[r].task
  <1>1. /\ r \in InBuildPhase
        /\ Routable(t)
        /\ UNCHANGED <<platform, cvms, head, taskMap, restarts>>
    BY DEF BuildPolled, InBuildPhase
  <1>2. /\ t \in TaskIds
        /\ tasks[t].status # "none"
        /\ tasks[t].cvm # NoCvm
    BY <1>1 DEF PhInv, JobsAreTasks
  <1>3. CASE Started(r, t)
    BY <1>1, <1>2, <1>3, StartedKeeps DEF PhInv, PhTypeOK, Routable
  <1>4. CASE phRun' = [phRun EXCEPT ![r].status = "FAILED"] /\ UNCHANGED tasks
    BY <1>1, <1>4, EndedKeeps
  <1> QED
    BY <1>3, <1>4 DEF BuildPolled

(* RunPolled keeps the invariant.                                          *)
LEMMA RunPolledKeeps ==
  ASSUME PhInv, NEW r \in PhRuns, RunPolled(r)
  PROVE  PhInv'
  <1>1. /\ r \in InRunPhase
        /\ RunnerStatusOf(phRun[r].task) \in {"INITIALIZING", "RUNNING", "STOPPED", "FAILED"}
        /\ phRun' = [phRun EXCEPT ![r].status = RunnerStatusOf(phRun[r].task)]
        /\ UNCHANGED <<tasks, platform, cvms, head, taskMap, restarts>>
    BY DEF RunPolled, RunnerStatusOf
  <1> QED
    BY <1>1, EndedKeeps

(* The status or the operation of a task that a CVM has is another one,    *)
(* and the task had not failed if it has not now.                          *)
LEMMA TaskStepKeeps ==
  ASSUME PhInv,
         NEW t \in TaskIds, NEW op \in {"build", "start", "stop"},
         NEW s \in {"pending", "completed", "failed"},
         tasks[t].status # "none",
         s = "failed" \/ tasks[t].status # "failed",
         tasks' = [tasks EXCEPT ![t].op = op, ![t].status = s],
         UNCHANGED <<platform, cvms, head, taskMap, phRun, restarts>>
  PROVE  PhInv'
  <1> DEFINE changed == [tasks[t] EXCEPT !.op = op, !.status = s]
  <1>1. tasks \in [TaskIds -> TaskRecords] /\ tasks' = [tasks EXCEPT ![t] = changed]
    BY DEF PhInv, PhTypeOK, TaskRecords
  <1>2. changed \in TaskRecords /\ changed.cvm = tasks[t].cvm /\ changed.status = s
    BY <1>1 DEF TaskRecords
  <1> HIDE DEF changed
  <1>3. /\ tasks' \in [TaskIds -> TaskRecords]
        /\ \A u \in TaskIds : tasks'[u].cvm = tasks[u].cvm
        /\ \A u \in TaskIds : tasks'[u].status # "failed" => tasks[u].status # "failed"
        /\ \A u \in TaskIds : tasks[u].status # "none" => tasks'[u].status # "none"
        /\ \A u \in TaskIds : u # t => tasks'[u] = tasks[u]
        /\ tasks'[t].status # "none"
    BY <1>1, <1>2
  <1>4. PhTypeOK'
    BY <1>3 DEF PhInv, PhTypeOK, TaskRecords
  <1>5. (PhRoutedToOwner /\ PhHeadKnown /\ Deployed)'
    BY <1>3 DEF PhInv, PhRoutedToOwner, PhHeadKnown, Deployed
  <1>6. UnusedTasksFree'
    BY <1>3 DEF PhInv, UnusedTasksFree
  <1>7. (InBuildPhase \cup InRunPhase)' = InBuildPhase \cup InRunPhase
    BY DEF InBuildPhase, InRunPhase
  <1>8. JobsAreTasks'
    BY <1>3, <1>7 DEF PhInv, JobsAreTasks
  <1>9. PhLiveTasksRoutable'
    BY <1>3, <1>7 DEF PhInv, PhLiveTasksRoutable, Routable, JobsAreTasks
  <1> QED
    BY <1>4, <1>5, <1>6, <1>8, <1>9 DEF PhInv

(* TasksChange keeps the invariant.                                        *)
LEMMA TasksChangeKeeps ==
  ASSUME PhInv,
         \/ \E r \in PhRuns : StopRun(r)
         \/ \E t \in TaskIds : TaskEnds(t) \/ ContainerDies(t)
  PROVE  PhInv'
  <1>1. ASSUME NEW r \in PhRuns, StopRun(r)
        PROVE  PhInv'
    <2> DEFINE t == phRun[r].task
    <2>1. t \in TaskIds /\ tasks[t].status # "none"
      BY <1>1 DEF StopRun, PhInv, JobsAreTasks
    <2> QED
      BY <1>1, <2>1, TaskStepKeeps DEF StopRun
  <1>2. ASSUME NEW t \in TaskIds, TaskEnds(t) \/ ContainerDies(t)
        PROVE  PhInv'
    <2> DEFINE changed(s) == [tasks EXCEPT ![t].op = tasks[t].op, ![t].status = s]
    <2>1. \A s : [tasks EXCEPT ![t].status = s] = changed(s)
      BY DEF PhInv, PhTypeOK
    <2>2. /\ tasks[t].op \in {"build", "start", "stop"}
          /\ tasks[t].status \notin {"none", "failed"}
      BY <1>2 DEF TaskEnds, ContainerDies, PhInv, PhTypeOK
    <2>3. \E s \in {"completed", "failed"} :
            /\ tasks' = changed(s)
            /\ UNCHANGED <<platform, cvms, head, taskMap, phRun, restarts>>
      BY <1>2, <2>1 DEF TaskEnds, ContainerDies
    <2> QED
      BY <2>2, <2>3, TaskStepKeeps
  <1> QED
    BY <1>1, <1>2

(* CvmsChange keeps the invariant.                                         *)
LEMMA CvmsChangeKeeps ==
  ASSUME PhInv, NEW c \in CVMs, CvmStops(c) \/ CvmStarts(c)
  PROVE  PhInv'
  <1>1. /\ platform' \in [CVMs -> {"absent", "running", "stopped"}]
        /\ \A d \in CVMs : platform[d] # "absent" => platform'[d] # "absent"
        /\ UNCHANGED <<tasks, cvms, head, taskMap, phRun, restarts>>
    BY DEF CvmStops, CvmStarts, PhInv, PhTypeOK
  <1>2. PhTypeOK'
    BY <1>1 DEF PhInv, PhTypeOK
  <1>3. Deployed'
    BY <1>1 DEF PhInv, PhTypeOK, Deployed
  <1>4. (PhRoutedToOwner /\ PhHeadKnown /\ UnusedTasksFree)'
    BY <1>1 DEF PhInv, PhRoutedToOwner, PhHeadKnown, UnusedTasksFree
  <1>5. (PhLiveTasksRoutable /\ JobsAreTasks)'
    BY <1>1 DEF PhInv, PhLiveTasksRoutable, JobsAreTasks, Routable, InBuildPhase, InRunPhase
  <1> QED
    BY <1>2, <1>3, <1>4, <1>5 DEF PhInv

(* A restart maps every task of a CVM that answers but the failed ones.    *)
LEMMA RestartKeeps ==
  ASSUME PhInv, Restart
  PROVE  PhInv'
  <1> DEFINE up == {c \in CVMs : platform[c] = "running"}
  <1>1. /\ cvms' = up
        /\ \E yes \in SUBSET up :
            IF yes # {} THEN head' \in Preferred(yes)
            ELSE IF up # {} THEN Registry \in up /\ head' = Registry
            ELSE head' = NoCvm
        /\ taskMap' = [t \in TaskIds |-> IF tasks[t].cvm \in up /\ tasks[t].status \in RoutableStatuses
                                         THEN tasks[t].cvm ELSE NoCvm]
        /\ phRun' = [r \in PhRuns |-> IF r \in InBuildPhase THEN [phRun[r] EXCEPT !.status = "lost"] ELSE phRun[r]]
        /\ UNCHANGED <<tasks, platform>>
    BY DEF Restart
  <1>0. restarts' \in 0..MaxRestarts
    BY PhalaClusterAssumption DEF Restart, PhInv, PhTypeOK
  <1>2. phRun' \in [PhRuns -> RunRecords]
    <2>1. phRun \in [PhRuns -> RunRecords]
      BY DEF PhInv, PhTypeOK, RunRecords
    <2> QED
      BY <1>1, <2>1 DEF RunRecords
  <1>3. InBuildPhase' = {} /\ InRunPhase' \subseteq InRunPhase /\ \A r \in InRunPhase' : phRun'[r] = phRun[r]
    BY <1>1 DEF InBuildPhase, InRunPhase, PhInv, PhTypeOK
  <1>4. head' \in CVMs \cup {NoCvm} /\ PhHeadKnown'
    BY <1>1 DEF PhHeadKnown, Preferred
  <1>5. PhTypeOK'
    BY <1>0, <1>1, <1>2, <1>4 DEF PhInv, PhTypeOK, RunRecords
  <1>6. (PhRoutedToOwner /\ UnusedTasksFree /\ Deployed)'
    BY <1>1 DEF PhInv, PhRoutedToOwner, UnusedTasksFree, Deployed
  <1>7. JobsAreTasks'
    BY <1>1, <1>3 DEF PhInv, JobsAreTasks
  <1>8. PhLiveTasksRoutable'
    <2> SUFFICES ASSUME NEW r \in (InBuildPhase \cup InRunPhase)',
                        tasks'[phRun'[r].task].status # "failed", tasks'[phRun'[r].task].cvm \in cvms'
                 PROVE  taskMap'[phRun'[r].task] \in cvms'
      BY DEF PhLiveTasksRoutable, Routable
    <2>0. r \in InRunPhase /\ phRun'[r] = phRun[r]
      BY <1>3
    <2>1. phRun[r].task \in TaskIds /\ tasks[phRun[r].task].status \in {"pending", "completed"}
      BY <1>1, <2>0 DEF PhInv, PhTypeOK, JobsAreTasks
    <2> QED
      BY <1>1, <2>0, <2>1 DEF RoutableStatuses
  <1> QED
    BY <1>4, <1>5, <1>6, <1>7, <1>8 DEF PhInv

(* StartBuild keeps the invariant.                                         *)
LEMMA StartBuildKeeps ==
  ASSUME PhInv, NEW r \in PhRuns, StartBuild(r)
  PROVE  PhInv'
  <1> DEFINE fresh == FreshTask
             failed == phRun' = [phRun EXCEPT ![r].status = "FAILED"] /\ UNCHANGED taskMap
             task(h) == [cvm |-> h, submission |-> Submission[r], op |-> "build", status |-> "pending"]
             Begun(o) ==
               /\ platform' = o.platform
               /\ cvms' = o.cvms
               /\ head' = o.head
               /\ \/ failed /\ UNCHANGED tasks
                  \/ /\ ~o.raises
                     /\ TasksLeft
                     /\ tasks' = [tasks EXCEPT ![fresh] = task(o.head)]
                     /\ \/ failed
                        \/ /\ taskMap' = [taskMap EXCEPT ![fresh] = o.head]
                           /\ phRun' = [phRun EXCEPT ![r] = [status |-> "BUILDING", task |-> fresh]]
  <1> PICK yes \in SUBSET Running, silent \in SUBSET cvms :
        \E outcome \in EnsureCapacity(r, yes, silent) : Begun(outcome)
    BY DEF StartBuild
  <1>1. PICK outcome \in EnsureCapacity(r, yes, silent) : Begun(outcome)
    OBVIOUS
  <1>2. phRun[r].status = "none" /\ restarts' = restarts
    BY DEF StartBuild
  <1>3. /\ platform' \in [CVMs -> {"absent", "running", "stopped"}]
        /\ cvms' \subseteq CVMs
        /\ cvms \subseteq cvms'
        /\ \A c \in CVMs : platform[c] # "absent" => platform'[c] # "absent"
        /\ \A c \in cvms' : platform'[c] # "absent"
        /\ \A c \in cvms' \ cvms : platform[c] = "absent"
        /\ head' \in CVMs \cup {NoCvm}
        /\ cvms' # {} => head' \in cvms'
        /\ ~outcome.raises => head' \in cvms'
    <2>1. /\ outcome.platform \in [CVMs -> {"absent", "running", "stopped"}]
          /\ outcome.cvms \subseteq CVMs
          /\ cvms \subseteq outcome.cvms
          /\ \A c \in CVMs : platform[c] # "absent" => outcome.platform[c] # "absent"
          /\ \A c \in outcome.cvms : outcome.platform[c] # "absent"
          /\ \A c \in outcome.cvms \ cvms : platform[c] = "absent"
          /\ outcome.head \in CVMs \cup {NoCvm}
          /\ outcome.cvms # {} => outcome.head \in outcome.cvms
          /\ ~outcome.raises => outcome.head \in outcome.cvms
      BY CapacityKeeps
    <2>2. platform' = outcome.platform /\ cvms' = outcome.cvms /\ head' = outcome.head
      BY <1>1
    <2> HIDE DEF Begun
    <2> QED
      BY <2>1, <2>2
  <1>4. /\ task(head') \in TaskRecords \/ outcome.raises
        /\ task(head').cvm = head'
        /\ task(head').status = "pending"
    BY <1>3 DEF TaskRecords
  <1> HIDE DEF task
  <1>5. /\ tasks \in [TaskIds -> TaskRecords]
        /\ taskMap \in [TaskIds -> CVMs \cup {NoCvm}]
        /\ phRun \in [PhRuns -> RunRecords]
    BY DEF PhInv, PhTypeOK, TaskRecords, RunRecords
  <1>6. TasksLeft => fresh \in TaskIds /\ tasks[fresh].status = "none"
    BY FreshTaskFree
  <1> HIDE DEF fresh
  <1>7. /\ tasks' \in [TaskIds -> TaskRecords]
        /\ taskMap' \in [TaskIds -> CVMs \cup {NoCvm}]
        /\ \A t \in TaskIds :
              \/ tasks'[t] = tasks[t] /\ taskMap'[t] = taskMap[t]
              \/ /\ tasks[t].status = "none"
                 /\ tasks'[t] = task(head')
                 /\ head' \in cvms'
                 /\ taskMap'[t] \in {taskMap[t], head'}
    BY <1>1, <1>3, <1>4, <1>5, <1>6
  <1>8. /\ phRun' \in [PhRuns -> RunRecords]
        /\ \A q \in PhRuns : q # r => phRun'[q] = phRun[q]
        /\ \/ phRun'[r].status = "FAILED"
           \/ /\ phRun'[r].task \in TaskIds
              /\ tasks'[phRun'[r].task] = task(head')
              /\ taskMap'[phRun'[r].task] = head'
              /\ head' \in cvms'
    <2>1. CASE phRun' = [phRun EXCEPT ![r].status = "FAILED"]
      BY <1>5, <2>1 DEF RunRecords
    <2>2. CASE /\ ~outcome.raises
               /\ TasksLeft
               /\ tasks' = [tasks EXCEPT ![fresh] = task(head')]
               /\ taskMap' = [taskMap EXCEPT ![fresh] = head']
               /\ phRun' = [phRun EXCEPT ![r] = [status |-> "BUILDING", task |-> fresh]]
      <3>1. [status |-> "BUILDING", task |-> fresh] \in RunRecords
        BY <1>6, <2>2, PhalaClusterAssumption DEF RunRecords, TaskIds
      <3> QED
        BY <1>3, <1>5, <1>6, <2>2, <3>1
    <2> QED
      BY <1>1, <2>1, <2>2
  <1> HIDE DEF Begun
  <1>9. PhTypeOK'
    BY <1>2, <1>3, <1>7, <1>8 DEF PhInv, PhTypeOK, TaskRecords, RunRecords
  <1>10. PhHeadKnown'
    BY <1>3 DEF PhHeadKnown
  <1>11. NoCvm \notin CVMs /\ head' \in cvms' => head' # NoCvm
    BY <1>3, PhalaClusterAssumption
  <1>12. Deployed'
    BY <1>3, <1>4, <1>5, <1>7 DEF PhInv, Deployed, TaskRecords
  <1>13. PhRoutedToOwner' /\ UnusedTasksFree'
    BY <1>4, <1>7 DEF PhInv, PhRoutedToOwner, UnusedTasksFree
  <1>14. ASSUME NEW q \in (InBuildPhase \cup InRunPhase)', q # r
         PROVE  /\ q \in InBuildPhase \cup InRunPhase
                /\ phRun'[q] = phRun[q]
                /\ phRun[q].task \in TaskIds
                /\ tasks'[phRun[q].task] = tasks[phRun[q].task]
                /\ taskMap'[phRun[q].task] = taskMap[phRun[q].task]
    <2>1. q \in InBuildPhase \cup InRunPhase /\ phRun'[q] = phRun[q]
      BY <1>8, <1>14 DEF InBuildPhase, InRunPhase
    <2> QED
      BY <1>7, <2>1 DEF PhInv, JobsAreTasks
  <1>15. ASSUME r \in (InBuildPhase \cup InRunPhase)'
         PROVE  /\ phRun'[r].task \in TaskIds
                /\ tasks'[phRun'[r].task] = task(head')
                /\ taskMap'[phRun'[r].task] = head'
                /\ head' \in cvms'
    BY <1>8, <1>15 DEF InBuildPhase, InRunPhase
  <1>16. JobsAreTasks'
    BY <1>4, <1>11, <1>14, <1>15, PhalaClusterAssumption DEF PhInv, JobsAreTasks
  <1>17. PhLiveTasksRoutable'
    <2> SUFFICES ASSUME NEW q \in (InBuildPhase \cup InRunPhase)',
                        tasks'[phRun'[q].task].status # "failed", tasks'[phRun'[q].task].cvm \in cvms'
                 PROVE  taskMap'[phRun'[q].task] \in cvms'
      BY DEF PhLiveTasksRoutable, Routable
    <2>1. CASE q = r
      BY <1>15, <2>1
    <2>2. CASE q # r
      <3> DEFINE t == phRun[q].task
      <3>1. /\ q \in InBuildPhase \cup InRunPhase
            /\ t \in TaskIds
            /\ tasks[t].status # "failed"
            /\ tasks[t].cvm \in cvms'
            /\ tasks[t].cvm # NoCvm
            /\ phRun'[q] = phRun[q]
            /\ taskMap'[t] = taskMap[t]
        BY <1>14, <2>2 DEF PhInv, JobsAreTasks
      <3>2. tasks[t].cvm \in cvms
        BY <1>3, <3>1 DEF PhInv, Deployed
      <3> QED
        BY <1>3, <3>1, <3>2 DEF PhInv, PhLiveTasksRoutable, Routable
    <2> QED
      BY <2>1, <2>2
  <1> QED
    BY <1>9, <1>10, <1>12, <1>13, <1>16, <1>17 DEF PhInv

-----------------------------------------------------------------------------
(* Every step keeps the invariant.                                         *)
LEMMA PhNextKeeps ==
  ASSUME PhInv, [PhNext]_phVars
  PROVE  PhInv'
  <1>1. CASE UNCHANGED phVars
    BY <1>1 DEF phVars, PhInv, PhTypeOK, PhRoutedToOwner, PhHeadKnown, PhLiveTasksRoutable, Deployed,
                UnusedTasksFree, JobsAreTasks, InBuildPhase, InRunPhase, Routable
  <1>2. CASE PhNext
    BY <1>2, StartBuiltKeeps, StartBuildKeeps, BuildPolledKeeps, RunPolledKeeps, RestartKeeps,
       TasksChangeKeeps, CvmsChangeKeeps DEF PhNext
  <1> QED
    BY <1>1, <1>2

(* In any number of steps of any backend.                                  *)
THEOREM PhalaInvariance == Spec => []PhInv
  <1>1. Init => PhInv
    BY PhInitInv DEF Init
  <1>2. PhInv /\ [Next]_backendVars => PhInv'
    <2> SUFFICES ASSUME PhInv, [Next]_backendVars PROVE PhInv'
      OBVIOUS
    <2>1. [PhNext]_phVars
      BY DEF Next, PhalaStep, AwsStep, NomadStep, LocalStep, backendVars
    <2> QED
      BY <2>1, PhNextKeeps
  <1> QED
    BY <1>1, <1>2, PTL DEF Spec

(* A task is routed to the CVM that has it, whatever CVM was the head when *)
(* it was built and however often the process has been restarted.          *)
THEOREM TasksRoutedToOwner == Spec => []PhRoutedToOwner
  BY PhalaInvariance, PTL DEF PhInv

(* The calls about a run reach its CVM, unless its task has failed or its  *)
(* CVM was not running when the process started.                           *)
THEOREM LiveTasksRoutable == Spec => []PhLiveTasksRoutable
  BY PhalaInvariance, PTL DEF PhInv

(* There is a CVM for the next build as long as there is any.              *)
THEOREM HeadKnown == Spec => []PhHeadKnown
  BY PhalaInvariance, PTL DEF PhInv

-----------------------------------------------------------------------------
(* As long as the process has not been restarted it can reach whatever it  *)
(* builds and runs, failed or not.                                         *)
JobsRoutable == \A r \in InBuildPhase \cup InRunPhase : Routable(phRun[r].task)

(* No call forgets a CVM or the way to a task, and the run that a call is  *)
(* about is given a task that can be reached, if it is given one.          *)
LEMMA RoutableKept ==
  ASSUME PhInv, JobsRoutable, NEW r \in PhRuns,
         cvms \subseteq cvms',
         \A t \in TaskIds : taskMap'[t] = taskMap[t] \/ taskMap'[t] \in cvms',
         \A q \in PhRuns : q # r => phRun'[q] = phRun[q],
         \/ phRun'[r].status \notin {"BUILDING", "INITIALIZING", "RUNNING"}
         \/ taskMap'[phRun'[r].task] \in cvms'
  PROVE  JobsRoutable'
  <1> SUFFICES ASSUME NEW q \in (InBuildPhase \cup InRunPhase)'
               PROVE  taskMap'[phRun'[q].task] \in cvms'
    BY DEF JobsRoutable, Routable
  <1>1. CASE q = r
    BY <1>1 DEF InBuildPhase, InRunPhase
  <1>2. CASE q # r
    <2>1. q \in InBuildPhase \cup InRunPhase /\ phRun'[q] = phRun[q]
      BY <1>2 DEF InBuildPhase, InRunPhase
    <2>2. phRun[q].task \in TaskIds /\ taskMap[phRun[q].task] \in cvms
      BY <2>1 DEF PhInv, JobsAreTasks, JobsRoutable, Routable
    <2> QED
      BY <2>1, <2>2
  <1> QED
    BY <1>1, <1>2

(* Every step but a restart leaves what was routable routable.             *)
LEMMA PhNextRoutable ==
  ASSUME PhInv, JobsRoutable, [PhNext]_phVars, ~Restart
  PROVE  JobsRoutable'
  <1>1. /\ phRun \in [PhRuns -> RunRecords]
        /\ taskMap \in [TaskIds -> CVMs \cup {NoCvm}]
        /\ \A q \in InBuildPhase \cup InRunPhase : q \in PhRuns /\ taskMap[phRun[q].task] \in cvms
    BY DEF PhInv, PhTypeOK, RunRecords, JobsRoutable, Routable, InBuildPhase, InRunPhase
  <1>2. CASE UNCHANGED <<cvms, taskMap, phRun>>
    BY <1>2 DEF JobsRoutable, Routable, InBuildPhase, InRunPhase
  <1>3. ASSUME NEW r \in PhRuns, NEW t \in TaskIds, Started(r, t), cvms' = cvms, taskMap'[t] \in cvms,
               taskMap' = taskMap \/ taskMap' = [taskMap EXCEPT ![t] = tasks[t].cvm]
        PROVE  JobsRoutable'
    <2>1. phRun'[r].task = t /\ \A q \in PhRuns : q # r => phRun'[q] = phRun[q]
      BY <1>1, <1>3 DEF Started
    <2>2. \A u \in TaskIds : taskMap'[u] = taskMap[u] \/ taskMap'[u] \in cvms'
      BY <1>1, <1>3
    <2> QED
      BY <1>3, <2>1, <2>2, RoutableKept
  <1>4. ASSUME NEW r \in InBuildPhase \cup InRunPhase, NEW s,
               phRun' = [phRun EXCEPT ![r].status = s], UNCHANGED <<cvms, taskMap>>
        PROVE  JobsRoutable'
    <2>1. /\ r \in PhRuns
          /\ phRun'[r].task = phRun[r].task
          /\ \A q \in PhRuns : q # r => phRun'[q] = phRun[q]
      BY <1>1, <1>4 DEF RunRecords
    <2> QED
      BY <1>1, <1>4, <2>1, RoutableKept
  <1>5. ASSUME NEW r \in PhRuns, StartBuilt(r)
        PROVE  JobsRoutable'
    <2> PICK yes \in SUBSET Running :
          \E t \in ImagesOf(r, yes) : taskMap' = [taskMap EXCEPT ![t] = tasks[t].cvm] /\ Started(r, t)
      BY <1>5 DEF StartBuilt
    <2>1. PICK t \in ImagesOf(r, yes) : taskMap' = [taskMap EXCEPT ![t] = tasks[t].cvm] /\ Started(r, t)
      OBVIOUS
    <2>2. t \in TaskIds /\ tasks[t].cvm \in cvms /\ cvms' = cvms
      BY <1>5 DEF ImagesOf, Running, StartBuilt
    <2> QED
      BY <1>1, <1>3, <2>1, <2>2
  <1>6. ASSUME NEW r \in PhRuns, StartBuild(r)
        PROVE  JobsRoutable'
    <2> DEFINE Left(o) ==
             /\ cvms' = o.cvms
             /\ \/ phRun' = [phRun EXCEPT ![r].status = "FAILED"] /\ UNCHANGED taskMap
                \/ /\ ~o.raises
                   /\ TasksLeft
                   /\ taskMap' = [taskMap EXCEPT ![FreshTask] = o.head]
                   /\ phRun' = [phRun EXCEPT ![r] = [status |-> "BUILDING", task |-> FreshTask]]
    <2> PICK yes \in SUBSET Running, silent \in SUBSET cvms :
          \E outcome \in EnsureCapacity(r, yes, silent) : Left(outcome)
      BY <1>6, Zenon DEF StartBuild
    <2> PICK outcome \in EnsureCapacity(r, yes, silent) : Left(outcome)
      OBVIOUS
    <2>1. cvms \subseteq cvms' /\ (~outcome.raises => outcome.head \in cvms')
      <3>1. cvms \subseteq outcome.cvms /\ (~outcome.raises => outcome.head \in outcome.cvms)
        BY CapacityKeeps
      <3>2. cvms' = outcome.cvms
        OBVIOUS
      <3> HIDE DEF Left
      <3> QED
        BY <3>1, <3>2
    <2>2. CASE phRun' = [phRun EXCEPT ![r].status = "FAILED"] /\ UNCHANGED taskMap
      <3>1. phRun'[r].status = "FAILED" /\ \A q \in PhRuns : q # r => phRun'[q] = phRun[q]
        BY <1>1, <2>2 DEF RunRecords
      <3> QED
        BY <2>1, <2>2, <3>1, RoutableKept
    <2>3. CASE /\ ~outcome.raises
               /\ TasksLeft
               /\ taskMap' = [taskMap EXCEPT ![FreshTask] = outcome.head]
               /\ phRun' = [phRun EXCEPT ![r] = [status |-> "BUILDING", task |-> FreshTask]]
      <3>1. FreshTask \in TaskIds
        BY <2>3, FreshTaskFree
      <3>2. phRun'[r].task = FreshTask /\ \A q \in PhRuns : q # r => phRun'[q] = phRun[q]
        BY <1>1, <2>3
      <3>3. /\ taskMap'[FreshTask] \in cvms'
            /\ \A u \in TaskIds : taskMap'[u] = taskMap[u] \/ taskMap'[u] \in cvms'
        BY <1>1, <2>1, <2>3, <3>1
      <3> QED
        BY <2>1, <3>2, <3>3, RoutableKept
    <2> QED
      BY <2>2, <2>3
  <1>7. ASSUME NEW r \in PhRuns, BuildPolled(r)
        PROVE  JobsRoutable'
    <2>1. r \in InBuildPhase /\ UNCHANGED <<cvms, taskMap>>
      BY <1>7 DEF BuildPolled, InBuildPhase
    <2>2. phRun[r].task \in TaskIds
      BY <2>1 DEF PhInv, JobsAreTasks
    <2>3. Started(r, phRun[r].task) \/ phRun' = [phRun EXCEPT ![r].status = "FAILED"]
      BY <1>7 DEF BuildPolled
    <2> QED
      BY <1>1, <1>3, <1>4, <2>1, <2>2, <2>3
  <1>8. ASSUME NEW r \in PhRuns, RunPolled(r)
        PROVE  JobsRoutable'
    BY <1>4, <1>8 DEF RunPolled
  <1>9. CASE \/ \E r \in PhRuns : StopRun(r)
             \/ \E t \in TaskIds : TaskEnds(t) \/ ContainerDies(t)
             \/ \E c \in CVMs : CvmStops(c) \/ CvmStarts(c)
    BY <1>2, <1>9 DEF StopRun, TaskEnds, ContainerDies, CvmStops, CvmStarts
  <1> QED
    BY <1>2, <1>5, <1>6, <1>7, <1>8, <1>9 DEF PhNext, phVars

(* The promise of rebuild_task_map, that nothing relevant is left out, is  *)
(* only broken by a restart: until the first one the task of every run in  *)
(* run phase is in the map of a CVM that is known, whatever has failed.    *)
THEOREM RoutableUntilRestart == Spec => [](restarts = 0 => PhTrackedTasksRoutable)
  <1>1. Init => (restarts = 0 => JobsRoutable)
    BY DEF Init, PhInit, NotBegun, JobsRoutable, InBuildPhase, InRunPhase
  <1>2. PhInv /\ (restarts = 0 => JobsRoutable) /\ [Next]_backendVars => (restarts = 0 => JobsRoutable)'
    <2> SUFFICES ASSUME PhInv, restarts = 0 => JobsRoutable, [Next]_backendVars, restarts' = 0
                 PROVE  JobsRoutable'
      OBVIOUS
    <2>1. [PhNext]_phVars
      BY DEF Next, PhalaStep, AwsStep, NomadStep, LocalStep, backendVars
    <2>2. restarts \in Nat
      BY DEF PhInv, PhTypeOK
    <2>3. ~Restart
      BY <2>2 DEF Restart
    <2>4. restarts = 0
      <3>1. \A r \in PhRuns : StartBuilt(r) \/ StartBuild(r) \/ BuildPolled(r) \/ RunPolled(r) \/ StopRun(r)
                => restarts' = restarts
        BY Zenon DEF StartBuilt, StartBuild, BuildPolled, RunPolled, StopRun
      <3>2. \A t \in TaskIds : TaskEnds(t) \/ ContainerDies(t) => restarts' = restarts
        BY Zenon DEF TaskEnds, ContainerDies
      <3>3. \A c \in CVMs : CvmStops(c) \/ CvmStarts(c) => restarts' = restarts
        BY Zenon DEF CvmStops, CvmStarts
      <3>4. restarts' = restarts
        BY <2>1, <2>3, <3>1, <3>2, <3>3, Zenon DEF PhNext, phVars
      <3> QED
        BY <3>4
    <2> QED
      BY <2>1, <2>3, <2>4, PhNextRoutable
  <1>3. (restarts = 0 => JobsRoutable) => (restarts = 0 => PhTrackedTasksRoutable)
    BY DEF JobsRoutable, PhTrackedTasksRoutable
  <1> QED
    BY <1>1, <1>2, <1>3, PhalaInvariance, PTL DEF Spec
=============================================================================
