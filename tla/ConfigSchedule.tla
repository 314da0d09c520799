---------------------------- MODULE ConfigSchedule ----------------------------
(***************************************************************************)
(* What is asked of ModelRunsService, and by whom.  Two threads read the   *)
(* list of the models that should run: the configuration poller, which     *)
(* applies what has changed since it last looked, and the schedule poller, *)
(* which applies the whole list to a crunch whose schedule has opened or   *)
(* closed.  They share nothing but the list, the clock and the service.    *)
(*                                                                         *)
(* The service is kept to what it promises (RunLifecycle): a model has at  *)
(* most one wanted run, start_model replaces a run of another submission,  *)
(* stop_model stops the oldest run, which is a replaced one if there is    *)
(* any.  Starts refused for a quarantine and runs that end by themselves   *)
(* belong to ModelRuns and are left out.                                   *)
(***************************************************************************)

CONSTANTS
    Models,        \* model ids
    Submissions,   \* what start_model compares in has_changed
    Crunches,      \* crunch ids
    CrunchOf,      \* CrunchOf[m]: the crunch m competes in
    Scheduled,     \* crunches with a run_schedule
    Listings,      \* bound: Listings[m], what may be listed for m
    TornReaders,   \* threads that may read the list while it is written
    DyingThreads   \* threads that an exception may end

NONE == "NONE"      \* Python's None

Threads == {"poller", "scheduler"}

ASSUME ConfigScheduleAssumption ==
    /\ NONE \notin Submissions
    /\ CrunchOf \in [Models -> Crunches]
    /\ Scheduled \subseteq Crunches
    /\ TornReaders \subseteq Threads
    /\ DyingThreads \subseteq Threads

Listing == [submission : Submissions, desired : {"RUNNING", "STOPPED"}]
Unlisted == [submission |-> NONE, desired |-> NONE]
Configs == [Models -> Listing \cup {Unlisted}]

ASSUME ListingsAssumption == Listings \in [Models -> SUBSET (Listing \cup {Unlisted})]

Nothing == [m \in Models |-> Unlisted]

ScheduleStatus == {"IN_SCHEDULE", "OUT_OF_SCHEDULE"}

VARIABLES
    config,     \* the list of models, in the file or on the chain
    clock,      \* clock[c]: what the schedule of c says of the present time
    previous,   \* previous_state: the list read last, {} before the first reading
    poller,     \* the thread of start_polling and its locals
    scheduler,  \* the thread of the schedule poller and its locals
    wanted,     \* wanted[m]: the submission of the run of m that is wanted
    replaced,   \* replaced[m]: a run of m is being replaced
    overlapped, \* history: the last stop of m only stopped a replaced run
    crossed     \* history: the models that two changes at once have left
                \* to chance, see below

service == <<wanted, replaced, overlapped>>
vars == <<config, clock, previous, poller, scheduler, service, crossed>>

-----------------------------------------------------------------------------
ModelsOf(c) == {m \in Models : CrunchOf[m] = c}
Listed(list) == {m \in Models : list[m] # Unlisted}

(* can_model_run_now *)
CanRunNow(c) == c \in Scheduled => clock[c] = "IN_SCHEDULE"

PollerAtRest == [pc |-> "wait", fetched |-> Nothing, changes |-> {}, calls |-> {}]
(* known: _last_known_schedule_states. *)
SchedulerAtRest(known) ==
    [pc |-> "wait", known |-> known, changed |-> {}, calls |-> {}]
NothingKnown == [c \in Scheduled |-> NONE]

Init ==
    /\ config \in Configs
    /\ \A m \in Models : config[m] \in Listings[m]
    /\ clock \in [Scheduled -> ScheduleStatus]
    /\ previous = {}
    /\ poller = PollerAtRest
    /\ scheduler = SchedulerAtRest(NothingKnown)
    /\ wanted = [m \in Models |-> NONE]
    /\ replaced = [m \in Models |-> FALSE]
    /\ overlapped = [m \in Models |-> FALSE]
    /\ crossed = {}

-----------------------------------------------------------------------------
(* crossed says whom the two threads may have served in the wrong order, or *)
(* not at all, because a listing and a schedule changed together or because *)
(* a listing was left out of what the schedule poller read.  Nobody looks   *)
(* at these again until the schedule turns or the process restarts.         *)

(* The schedule poller still has to see the schedule of m, or to call for m. *)
Owed(m) ==
    /\ CrunchOf[m] \in Scheduled
    /\ \/ scheduler.known[CrunchOf[m]] # clock[CrunchOf[m]]
       \/ CrunchOf[m] \in scheduler.changed
       \/ \E call \in scheduler.calls : call.model = m

(* The configuration poller has no listing of m in hand but the present one. *)
PollerCurrent(m) ==
    /\ \A list \in previous : list[m] \in {config[m], Unlisted}
    /\ poller.pc = "groups" => poller.fetched[m] \in {config[m], Unlisted}

(* The schedule of m turns again before the schedule poller is done with the *)
(* last turn, between the decision of the configuration poller to call for m *)
(* and its call, or to open with an older listing in hand.                   *)
CrossedByTurn(m) ==
    \/ Owed(m)
    \/ CanRunNow(CrunchOf[m]) /\ m \in poller.calls
    \/ ~CanRunNow(CrunchOf[m]) /\ ~PollerCurrent(m)

(* At a closing m is stopped, at an opening it is started if it is listed   *)
(* so, whatever went wrong before.                                          *)
MadeGoodByTurn(m) == CanRunNow(CrunchOf[m]) \/ config[m].desired = "RUNNING"

(* m is not in the list that the turn of its schedule is applied to, though *)
(* it is to be stopped or started.                                          *)
MissedIn(list, m) ==
    /\ CrunchOf[m] \in scheduler.changed
    /\ m \notin Listed(list)
    /\ IF scheduler.known[CrunchOf[m]] = "OUT_OF_SCHEDULE"
       THEN wanted[m] # NONE
       ELSE config[m].desired = "RUNNING"

-----------------------------------------------------------------------------
(* ModelRunsService, for one call.                                         *)

StartModel(m, submission) ==
    /\ wanted' = [wanted EXCEPT ![m] = submission]
    /\ replaced' = [replaced EXCEPT ![m] = @ \/ wanted[m] \notin {NONE, submission}]
    /\ overlapped' = [overlapped EXCEPT ![m] = FALSE]

StopModel(m) ==
    IF replaced[m]
    THEN /\ \E more \in BOOLEAN : replaced' = [replaced EXCEPT ![m] = more]
         /\ overlapped' = [overlapped EXCEPT ![m] = TRUE]
         /\ UNCHANGED wanted
    ELSE /\ wanted' = [wanted EXCEPT ![m] = NONE]
         /\ overlapped' = [overlapped EXCEPT ![m] = FALSE]
         /\ UNCHANGED replaced

(* handle_model_state_changed, for one model. *)
HandleModelStateChanged(m, desired, submission) ==
    IF desired = "RUNNING" THEN StartModel(m, submission) ELSE StopModel(m)

(* The update loop has stopped the replaced runs of m. *)
ReplacementEnds(m) ==
    /\ replaced[m]
    /\ replaced' = [replaced EXCEPT ![m] = FALSE]
    /\ UNCHANGED <<config, clock, previous, poller, scheduler, wanted, overlapped, crossed>>

-----------------------------------------------------------------------------
(* Reading the list.  _write_raw_yaml empties the file before it writes    *)
(* it, and no reader waits: a reader may find the first models only.       *)

Readings(thread) ==
    {config} \cup
    IF thread \in TornReaders
    THEN {[m \in Models |-> IF m \in kept THEN config[m] ELSE Unlisted] : kept \in SUBSET Models}
    ELSE {}

-----------------------------------------------------------------------------
(* The configuration poller.                                               *)

(* Defect: a model that is not on the list any more is a change.          *)
CompareConfigsRemoved(old, new) == {m \in Models : \A list \in old : list[m] # new[m]}
(* Defect: a model that is new on the list is not a change.               *)
CompareConfigsKnown(old, new) ==
    {m \in Listed(new) : \A list \in old : list[m] \notin {Unlisted, new[m]}}
(* compare_configs: what is not on the list any more is not a change. *)
CompareConfigs(old, new) == {m \in Listed(new) : \A list \in old : list[m] # new[m]}

PollerReads(fetched) ==
    /\ poller.pc = "wait"
    /\ LET changes == CompareConfigs(previous, fetched)
       IN  IF changes = {}
           THEN previous' = {fetched} /\ UNCHANGED poller
           ELSE /\ poller' = [poller EXCEPT !.pc = "groups", !.fetched = fetched,
                                            !.changes = changes]
                /\ UNCHANGED previous
    /\ UNCHANGED <<config, clock, scheduler, service, crossed>>

(* A fetch_configs that returns None changes nothing. *)
PollerFetch == \E fetched \in Readings("poller") : PollerReads(fetched)

(* An entry is not valid, or cut in its middle: create_models_state raises,  *)
(* and nothing catches it in start_polling.                                  *)
PollerDies ==
    /\ poller.pc = "wait"
    /\ "poller" \in DyingThreads
    /\ poller' = [PollerAtRest EXCEPT !.pc = "dead"]
    /\ UNCHANGED <<config, clock, previous, scheduler, service, crossed>>

(* The changes of a crunch out of its schedule are skipped. *)
Calls(c, changes) == IF CanRunNow(c) THEN changes \cap ModelsOf(c) ELSE {}

(* on_model_state_changed, for one crunch. *)
PollerGroup(c) ==
    /\ poller.pc = "groups"
    /\ poller.calls = {}
    /\ poller.changes \cap ModelsOf(c) # {}
    /\ poller' = [poller EXCEPT !.changes = @ \ ModelsOf(c),
                                !.calls = Calls(c, poller.changes)]
    /\ UNCHANGED <<config, clock, previous, scheduler, service, crossed>>

PollerCall(m) ==
    /\ m \in poller.calls
    /\ HandleModelStateChanged(m, poller.fetched[m].desired, poller.fetched[m].submission)
    /\ poller' = [poller EXCEPT !.calls = @ \ {m}]
    /\ UNCHANGED <<config, clock, previous, scheduler, crossed>>

(* Defect: the list is read again. *)
PollerDoneRereads ==
    /\ poller.pc = "groups"
    /\ poller.calls = {}
    /\ poller.changes = {}
    /\ previous' = {config}
    /\ poller' = PollerAtRest
    /\ UNCHANGED <<config, clock, scheduler, service, crossed>>
(* previous_state is what was read, not what is there now. *)
PollerDone ==
    /\ poller.pc = "groups"
    /\ poller.calls = {}
    /\ poller.changes = {}
    /\ previous' = {poller.fetched}
    /\ poller' = PollerAtRest
    /\ UNCHANGED <<config, clock, scheduler, service, crossed>>

-----------------------------------------------------------------------------
(* The schedule poller.                                                    *)

(* detect_schedule_changes: the new status is known from here on, whether  *)
(* or not it can be applied.                                               *)
SchedulerDetect ==
    /\ scheduler.pc = "wait"
    /\ LET changed == {c \in Scheduled : scheduler.known[c] # clock[c]}
       IN  /\ changed # {}
           /\ scheduler' = [scheduler EXCEPT !.pc = "fetch", !.known = clock,
                                             !.changed = changed]
    /\ UNCHANGED <<config, clock, previous, poller, service, crossed>>

Call(m, desired, submission) == [model |-> m, desired |-> desired, submission |-> submission]

(* Defect: only the models that are to run are stopped.                   *)
StopsRunning(c, list) ==
    {Call(m, "STOPPED", list[m].submission) :
        m \in {n \in ModelsOf(c) : list[n].desired = "RUNNING"}}
(* When c closes, all its models are stopped, whatever they are to be. *)
Stops(c, list) ==
    {Call(m, "STOPPED", list[m].submission) : m \in ModelsOf(c) \cap Listed(list)}
(* When c opens, the models that are to run are started. *)
Starts(c, list) ==
    {Call(m, "RUNNING", list[m].submission) :
        m \in {n \in ModelsOf(c) : list[n].desired = "RUNNING"}}

(* apply_schedule_changes_to_models *)
SchedulerFetch ==
    /\ scheduler.pc = "fetch"
    /\ \E list \in Readings("scheduler") :
        /\ scheduler' = [scheduler EXCEPT
            !.pc = "calls",
            !.changed = {},
            !.calls = UNION {IF scheduler.known[c] = "OUT_OF_SCHEDULE"
                             THEN Stops(c, list) ELSE Starts(c, list) : c \in scheduler.changed}]
        /\ crossed' = crossed \cup {m \in Models : MissedIn(list, m)}
    /\ UNCHANGED <<config, clock, previous, poller, service>>

(* fetch_configs returns None, or an entry is not valid: create_models_state *)
(* raises, and ThreadPoller does not catch it.                               *)
SchedulerDies ==
    /\ scheduler.pc = "fetch"
    /\ "scheduler" \in DyingThreads
    /\ scheduler' = [SchedulerAtRest(scheduler.known) EXCEPT !.pc = "dead"]
    /\ UNCHANGED <<config, clock, previous, poller, service, crossed>>

(* on_schedule_changed, for one model. *)
SchedulerCall(m) ==
    /\ \E call \in {call \in scheduler.calls : call.model = m} :
        /\ HandleModelStateChanged(m, call.desired, call.submission)
        /\ scheduler' = [scheduler EXCEPT !.calls = @ \ {call}]
    /\ UNCHANGED <<config, clock, previous, poller, crossed>>

SchedulerDone ==
    /\ scheduler.pc = "calls"
    /\ scheduler.calls = {}
    /\ scheduler' = SchedulerAtRest(scheduler.known)
    /\ UNCHANGED <<config, clock, previous, poller, service, crossed>>

-----------------------------------------------------------------------------
(* The environment.                                                        *)

(* The HTTP API, the chain or somebody with an editor changes a listing. *)
Edit(m) ==
    /\ \E listing \in Listings[m] \ {config[m]} : config' = [config EXCEPT ![m] = listing]
    /\ crossed' = IF Owed(m) /\ CanRunNow(CrunchOf[m]) THEN crossed \cup {m} ELSE crossed
    /\ UNCHANGED <<clock, previous, poller, scheduler, service>>

(* The schedule of c opens or closes. *)
ClockTurns(c) ==
    /\ \E status \in ScheduleStatus \ {clock[c]} : clock' = [clock EXCEPT ![c] = status]
    /\ crossed' = {m \in crossed : CrunchOf[m] = c => ~MadeGoodByTurn(m)}
                    \cup {m \in ModelsOf(c) : CrossedByTurn(m)}
    /\ UNCHANGED <<config, previous, poller, scheduler, service>>

(* The threads start from nothing; the runs are still there. *)
Restart ==
    /\ previous' = {}
    /\ poller' = PollerAtRest
    /\ scheduler' = SchedulerAtRest(NothingKnown)
    /\ crossed' = {}
    /\ UNCHANGED <<config, clock, service>>

-----------------------------------------------------------------------------
(* What a thread does with what it has read. *)
PollerGoesOn ==
    \/ \E c \in Crunches : PollerGroup(c)
    \/ \E m \in Models : PollerCall(m)
    \/ PollerDone

SchedulerGoesOn ==
    \/ SchedulerDetect \/ SchedulerFetch \/ SchedulerDone
    \/ \E m \in Models : SchedulerCall(m)

Poller == PollerFetch \/ PollerDies \/ PollerGoesOn
Scheduler == SchedulerDies \/ SchedulerGoesOn

Next ==
    \/ Poller \/ Scheduler
    \/ \E m \in Models : Edit(m) \/ ReplacementEnds(m)
    \/ \E c \in Scheduled : ClockTurns(c)
    \/ Restart

Spec == Init /\ [][Next]_vars

(* Both loops go on as long as their threads live, and a file is not       *)
(* always found half written.                                              *)
Fairness ==
    /\ SF_vars(PollerReads(config))
    /\ WF_vars(PollerGoesOn)
    /\ WF_vars(SchedulerGoesOn)
FairSpec == Spec /\ Fairness

-----------------------------------------------------------------------------
(* Properties.                                                             *)

(* Every variable keeps its type, and only listed models are to be called for. *)
TypeOK ==
    /\ config \in Configs
    /\ clock \in [Scheduled -> ScheduleStatus]
    /\ previous \in SUBSET Configs
    /\ poller \in [pc : {"wait", "groups", "dead"}, fetched : Configs,
                   changes : SUBSET Models, calls : SUBSET Models]
    /\ poller.changes \cup poller.calls \subseteq Listed(poller.fetched)
    /\ scheduler \in [pc : {"wait", "fetch", "calls", "dead"},
                      known : [Scheduled -> ScheduleStatus \cup {NONE}],
                      changed : SUBSET Scheduled,
                      calls : SUBSET [model : Models, desired : {"RUNNING", "STOPPED"},
                                      submission : Submissions]]
    /\ wanted \in [Models -> Submissions \cup {NONE}]
    /\ replaced \in [Models -> BOOLEAN]
    /\ overlapped \in [Models -> BOOLEAN]
    /\ crossed \subseteq Models

ShouldRun(m) == config[m].desired = "RUNNING" /\ CanRunNow(CrunchOf[m])
ShouldStop(m) ==
    config[m].desired = "STOPPED" \/ (config[m] # Unlisted /\ ~CanRunNow(CrunchOf[m]))

(* Both threads have seen the listing and the schedule of m. *)
Settled(m) ==
    /\ poller.pc = "wait"
    /\ previous = {config}
    /\ CrunchOf[m] \in Scheduled => scheduler.pc # "dead" /\ ~Owed(m)

(* Once both threads have looked, a model listed RUNNING in a crunch that  *)
(* is open has its listed submission wanted: nothing skipped while the     *)
(* crunch was closed, lost in a half-written file or read before a restart *)
(* stays forgotten, and what two changes at once have left to chance is    *)
(* made good by the next opening, closing or restart.                      *)
RunningFollowed ==
    \A m \in Models \ crossed : Settled(m) /\ ShouldRun(m) => wanted[m] = config[m].submission

(* Once both threads have looked, a model that is listed STOPPED, or whose *)
(* crunch is closed, is not wanted any more, unless the call that was to   *)
(* stop it stopped a run that was being replaced; with the same exception  *)
(* as before of what two changes at once have left to chance.              *)
StoppedFollowed ==
    \A m \in Models \ crossed :
        Settled(m) /\ ShouldStop(m) => wanted[m] = NONE \/ overlapped[m]

(* A listing and a schedule that stay as they are are followed in the end, *)
(* however often the other models change, as long as both threads live, the *)
(* process is not restarted again and again and the last changes did not   *)
(* cross.                                                                  *)
FollowedInTheEnd ==
    <>[][~Restart]_vars =>
    \A m \in Models :
        LET open == CanRunNow(CrunchOf[m])
            excused == poller.pc = "dead" \/ scheduler.pc = "dead" \/ m \in crossed
        IN  /\ <>[]ShouldRun(m) /\ <>[][config[m]' = config[m]]_vars
                => <>[](wanted[m] = config[m].submission \/ excused)
            /\ <>[]ShouldStop(m) /\ <>[][open' = open]_vars
                => <>[](wanted[m] = NONE \/ overlapped[m] \/ excused)

(* apply_schedule_changes_to_models: "we ensure all models are stopped"    *)
(* when their crunch closes.                                               *)
ClosedAllStopped ==
    \A m \in Models \ crossed :
        Settled(m) /\ config[m] # Unlisted /\ ~CanRunNow(CrunchOf[m]) => wanted[m] = NONE

=============================================================================
