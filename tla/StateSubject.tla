----------------------------- MODULE StateSubject -----------------------------
(***************************************************************************)
(* ModelsStateSubject and the threads that notify it.  The service tells   *)
(* the subject of every change while it holds its lock, republish_states   *)
(* without it; the subject calls its observers one after the other and     *)
(* catches what each of them raises, so that none disturbs the others.  An *)
(* observer only hands the event to its event loop (call_soon_threadsafe): *)
(* what it does with it later is in WebSocketServer and RabbitMQPublisher, *)
(* which extend this module.                                               *)
(*                                                                         *)
(* The service is kept to what ModelRuns checks of it: a run is listed as  *)
(* running exactly when it has been announced so and is not to be stopped  *)
(* (RunningAsAnnounced).                                                   *)
(***************************************************************************)
EXTENDS Naturals, Sequences

CONSTANTS
    Runs,        \* model runs, all of one crunch
    MaxEvents    \* bound: number of notifications

ASSUME StateSubjectAssumption == MaxEvents \in Nat

VARIABLES
    status,      \* status[r]: the runner status of run r, as last announced
    stopping,    \* the runs whose desired status is STOPPED
    sent         \* number of notifications so far

subjectVars == <<status, stopping, sent>>

-----------------------------------------------------------------------------
(* "unborn": not tracked yet; STOPPED stands for STOPPING and FAILED too,  *)
(* which no observer tells apart.                                          *)
Statuses == {"unborn", "INITIALIZING", "RUNNING", "RECOVERING", "STOPPED"}

Tracked == Statuses \ {"unborn"}

(* A run is announced when it is launched, or given up before that.  Then  *)
(* its status is what its runner reports: a job may be placed again, or be *)
(* read as if nothing had happened after its stop was announced.           *)
StatusMoves ==
    {<<"unborn", "INITIALIZING">>, <<"RUNNING", "RUNNING">>}
    \cup {"RUNNING", "STOPPED"} \X {"INITIALIZING", "RECOVERING", "STOPPED"}
    \cup {"INITIALIZING", "RECOVERING", "STOPPED"} \X {"RUNNING"}
    \cup {"INITIALIZING", "RECOVERING"} \X {"STOPPED"}
    \cup {<<"INITIALIZING", "RECOVERING">>}

Event == [run : Runs, status : Tracked]

(* A restart finds the runs of the table in any state, some to be stopped. *)
SubjectInit ==
    /\ status \in [Runs -> Statuses]
    /\ stopping \in SUBSET {r \in Runs : status[r] # "unborn"}
    /\ sent = 0

(* notify_runner_state_changed: a new status, or the same with a new name  *)
(* or address.                                                             *)
Changed(r, s) ==
    /\ sent < MaxEvents
    /\ <<status[r], s>> \in StatusMoves
    /\ status' = [status EXCEPT ![r] = s]
    /\ sent' = sent + 1
    /\ UNCHANGED stopping

(* stop_model: announced before the runner is asked to stop the job. *)
StopAsked(r) ==
    /\ sent < MaxEvents
    /\ status' = [status EXCEPT ![r] = "STOPPED"]
    /\ stopping' = stopping \cup {r}
    /\ sent' = sent + 1

(* get_running_models_by_crunch_id, under the lock of the service. *)
RunningModels == {r \in Runs \ stopping : status[r] = "RUNNING"}

(* republish_states: the running models are listed under the lock and then *)
(* announced without it, each with the status it has by then.  That is the *)
(* status announced last, or RUNNING for a run that is being stopped,      *)
(* which Changed has.                                                      *)
Republished(r) ==
    /\ sent < MaxEvents
    /\ status[r] \in Tracked
    /\ sent' = sent + 1
    /\ UNCHANGED <<status, stopping>>

(* notify_build_state_changed and notify_failure leave the runner status alone. *)
OtherNews ==
    /\ sent < MaxEvents
    /\ sent' = sent + 1
    /\ UNCHANGED <<status, stopping>>

SubjectTypeOK ==
    /\ status \in [Runs -> Statuses]
    /\ stopping \subseteq Runs
    /\ sent \in 0..MaxEvents
=============================================================================
