---------------------------- MODULE LocalBackend ----------------------------
(***************************************************************************)
(* The local backend: images built by threads of the process, containers   *)
(* of the Docker daemon next to it.  A build is known by its image, the    *)
(* status a thread leaves is read once, and the process forgets its builds *)
(* when it ends; a container is known by its submission, so that a new run *)
(* removes the container of the run it replaces.                           *)
(***************************************************************************)
EXTENDS Naturals, FiniteSets

CONSTANTS
    LoRuns,          \* model runs
    Image,           \* Image[r]: the submission of run r, which names its image and its container
    RebuildDisabled, \* TRUE: an image of an earlier process will do
    MaxLoRestarts    \* bound: restarts of the process

ASSUME LocalBackendAssumption ==
    /\ IsFiniteSet(LoRuns)
    /\ RebuildDisabled \in BOOLEAN
    /\ MaxLoRestarts \in Nat

VARIABLES
    images,      \* images[i]: "none", built by an "earlier" process or by the "current" one
    pending,     \* _pending_builds: pending[i] is a status or "none"
    threads,     \* threads[r]: the thread that builds for run r, "none", "running" or how it ended
    containers,  \* containers[r]: that of run r, "none", "running", "exited"
    loRun,       \* loRun[r]: the status of run r
    loRestarts   \* number of restarts so far

loVars == <<images, pending, threads, containers, loRun, loRestarts>>

-----------------------------------------------------------------------------
Images == {Image[r] : r \in LoRuns}
InBuild == {r \in LoRuns : loRun[r] = "BUILDING"}
InRun == {r \in LoRuns : loRun[r] \in {"INITIALIZING", "RUNNING"}}

(* The daemon may have images of a process before the first. *)
LoInit ==
    /\ images \in [Images -> {"none", "earlier"}]
    /\ pending = [i \in Images |-> "none"]
    /\ threads = [r \in LoRuns |-> "none"]
    /\ containers = [r \in LoRuns |-> "none"]
    /\ loRun = [r \in LoRuns |-> "none"]
    /\ loRestarts = 0

(* exists: with a rebuild mode, only an image with the label of this process. *)
Exists(i) == images[i] = "current" \/ (RebuildDisabled /\ images[i] = "earlier")

(* LocalModelRunner.run, for the runs rs: the container of the same name is *)
(* stopped and removed, a new one runs; or Docker raises, before or after. *)
RemovedFor(rs) == [q \in LoRuns |-> IF \E r \in rs : Image[q] = Image[r] THEN "none" ELSE containers[q]]

(* statuses: what the runs become that are not run. *)
Launched(rs, statuses) ==
    \E created \in SUBSET {r \in rs : images[Image[r]] # "none"} :
        /\ \E removed \in {rs, created} :
            containers' = [r \in LoRuns |-> IF r \in created THEN "running" ELSE RemovedFor(removed)[r]]
        /\ loRun' = [r \in LoRuns |-> IF r \in created THEN "INITIALIZING"
                                      ELSE IF r \in rs THEN "FAILED" ELSE statuses[r]]

(* The image is there. *)
LoStartBuilt(r) ==
    /\ loRun[r] = "none"
    /\ Exists(Image[r])
    /\ Launched({r}, loRun)
    /\ UNCHANGED <<images, pending, threads, loRestarts>>

(* _DockerBuild.start. *)
LoStartBuild(r) ==
    /\ loRun[r] = "none"
    /\ ~Exists(Image[r])
    /\ pending' = [pending EXCEPT ![Image[r]] = "BUILDING"]
    /\ threads' = [threads EXCEPT ![r] = "running"]
    /\ loRun' = [loRun EXCEPT ![r] = "BUILDING"]
    /\ UNCHANGED <<images, containers, loRestarts>>

(* The thread: _build, then _report_status. *)
ThreadEnds(r) ==
    /\ threads[r] = "running"
    /\ \E ok \in BOOLEAN :
        /\ threads' = [threads EXCEPT ![r] = IF ok THEN "SUCCESS" ELSE "FAILED"]
        /\ pending' = [pending EXCEPT ![Image[r]] = IF ok THEN "SUCCESS" ELSE "FAILED"]
        /\ images' = IF ok THEN [images EXCEPT ![Image[r]] = "current"] ELSE images
    /\ UNCHANGED <<containers, loRun, loRestarts>>

(* A build that is not known is done. *)
GetStatusUnknownDone(status) == IF status = "none" THEN "SUCCESS" ELSE status

(* A build that is not known has not begun. *)
GetStatusUnknownBuilding(status) == IF status = "none" THEN "BUILDING" ELSE status

(* _get_status: what it returns, and what it leaves to be read. *)
GetStatus(status) == IF status = "none" THEN "FAILED" ELSE status
AfterRead(status) == IF status = "BUILDING" THEN "BUILDING" ELSE "none"

(* load_statuses of the builder: of the runs of an image, the first reads  *)
(* the status that the others no longer find.  A success is run at once.   *)
LoBuildsPolled ==
    /\ InBuild # {}
    /\ \E first \in SUBSET InBuild :
        /\ \A r \in InBuild : Cardinality({q \in first : Image[q] = Image[r]}) = 1
        /\ LET Read(r) == GetStatus(IF r \in first THEN pending[Image[r]] ELSE AfterRead(pending[Image[r]]))
           IN  Launched({r \in InBuild : Read(r) = "SUCCESS"},
                        [r \in LoRuns |-> IF r \in InBuild THEN Read(r) ELSE loRun[r]])
        /\ pending' = [i \in Images |-> IF \E r \in InBuild : Image[r] = i THEN AfterRead(pending[i]) ELSE pending[i]]
    /\ UNCHANGED <<images, threads, loRestarts>>

(* A container that is not there has failed, and one without an address;   *)
(* one that does not run has stopped, whatever it exited with.             *)
ContainerStatus(r) ==
    CASE containers[r] = "none"    -> {"FAILED"}
      [] containers[r] = "running" -> {"RUNNING", "FAILED"}
      [] OTHER                     -> {"STOPPED"}

(* load_statuses of the runner; a Docker that raises leaves all as it was. *)
LoRunsPolled ==
    /\ InRun # {}
    /\ loRun' \in {f \in [LoRuns -> {"RUNNING", "STOPPED", "FAILED"} \cup {loRun[r] : r \in LoRuns}] :
                    \A r \in LoRuns : IF r \in InRun THEN f[r] \in ContainerStatus(r) ELSE f[r] = loRun[r]}
    /\ UNCHANGED <<images, pending, threads, containers, loRestarts>>

(* stop raises if the container has been removed. *)
LoStop(r) ==
    /\ r \in InRun
    /\ containers[r] # "none"
    /\ containers' = [containers EXCEPT ![r] = "exited"]
    /\ UNCHANGED <<images, pending, threads, loRun, loRestarts>>

-----------------------------------------------------------------------------
(* The threads are daemons and end with the process; the daemon may still  *)
(* finish the image.  The next process has a label of its own, and does    *)
(* not load the runs that were being built (ModelRuns!LoadActive).         *)
LoRestart ==
    /\ loRestarts < MaxLoRestarts
    /\ loRestarts' = loRestarts + 1
    /\ pending' = [i \in Images |-> "none"]
    /\ threads' = [r \in LoRuns |-> IF threads[r] = "running" THEN "killed" ELSE threads[r]]
    /\ \E done \in SUBSET {Image[r] : r \in {r \in LoRuns : threads[r] = "running"}} :
        images' = [i \in Images |-> IF i \in done \/ images[i] # "none" THEN "earlier" ELSE "none"]
    /\ loRun' = [r \in LoRuns |-> IF r \in InBuild THEN "lost" ELSE loRun[r]]
    /\ UNCHANGED containers

(* The Docker daemon. *)
ContainerExits(r) ==
    /\ containers[r] = "running"
    /\ containers' = [containers EXCEPT ![r] = "exited"]
    /\ UNCHANGED <<images, pending, threads, loRun, loRestarts>>

LoNext ==
    \/ \E r \in LoRuns : LoStartBuilt(r) \/ LoStartBuild(r) \/ ThreadEnds(r) \/ LoStop(r)
    \/ LoBuildsPolled
    \/ LoRunsPolled
    \/ LoRestart
    \/ \E r \in LoRuns : ContainerExits(r)

LoFairness ==
    /\ \A r \in LoRuns : WF_loVars(ThreadEnds(r))
    /\ WF_loVars(LoBuildsPolled)

-----------------------------------------------------------------------------
LoTypeOK ==
    /\ images \in [Images -> {"none", "earlier", "current"}]
    /\ pending \in [Images -> {"none", "BUILDING", "SUCCESS", "FAILED"}]
    /\ threads \in [LoRuns -> {"none", "running", "SUCCESS", "FAILED", "killed"}]
    /\ containers \in [LoRuns -> {"none", "running", "exited"}]
    /\ loRun \in [LoRuns -> {"none", "BUILDING", "INITIALIZING", "RUNNING", "STOPPED", "FAILED", "lost"}]
    /\ loRestarts \in 0..MaxLoRestarts

(* With a rebuild mode, no container runs an image that an earlier process *)
(* has built, though a run may be told of the build of another run, which  *)
(* may fail and leave the image of the earlier process.                    *)
LoImageOfThisProcess ==
    [][\A r \in LoRuns :
            (containers[r] = "none" /\ containers'[r] = "running" /\ ~RebuildDisabled)
                => images[Image[r]] = "current"]_loVars

(* No run stays in build phase, not even one whose build another run has   *)
(* been told of first.                                                     *)
LoBuildEnds == \A r \in LoRuns : loRun[r] = "BUILDING" ~> loRun[r] # "BUILDING"
=============================================================================
