# A formal model of model-orchestrator

`model-orchestrator` keeps the models of crunches running: it reads which models are wanted (a YAML
file or a chain), builds an image for each, launches it on a runner (Docker, AWS ECS, Nomad or Phala),
follows its status, stops it when it is not wanted any more, and tells the coordinators about every
change (WebSocket, RabbitMQ). This directory holds TLA+ models of it, the TLC configurations that
check them, and proofs checked by TLAPS.

All source paths are relative to `src/model_orchestrator/`.

    tlc -workers 2 -config MCReplacements.cfg MCModelRuns      # any pair of the table of runs
    tlapm ModelRunsProofs.tla

## 1. Inventory

| Component | State | Operations | Interacts with |
|---|---|---|---|
| `ModelRunsService` (`services/model_runs/model_runs.py`) | the lock, the cluster, `failures_reported` | `start_model`, `stop_model`, `updates_states`, `report_model_runner_failure`, `get_all_models` | called by the pollers, the update loop, the WebSocket server and the HTTP API; owns the three services below |
| `_RunService` (`run.py`), `_BuildService` (`build.py`), `_ErrorHandlingService` (`error_handling.py`) | none of their own | `run_model`, `stop_model`, `update_models_info`, `update_runner_states`; `build`, `is_built`, `update_builder_states`; `handle_error` | the Builder and the Runner, the table, the state subject, each other (a build that succeeds launches the run, an error stops it) |
| `ModelRun`, `ModelRunsCluster` (`entities/`) | desired, runner and builder statuses, job ids, address, failure, quarantine; the list of tracked runs | predicates and queries, `add`, `remove` | everything above |
| model run table (`infrastructure/db/sqlite/_model_run_repository.py`) | one row per run | `load_active`, `load_all_latest`, `save_model`, `is_model_in_quarantine` | read at start-up, written at every change |
| `ModelsStateSubject`, observers, mediator (`state/`, `mediators/`) | the list of observers | `notify_runner_state_changed`, `notify_failure` | fan-out to WebSocket, RabbitMQ and the mediator |
| `Orchestrator` (`orchestrator/_orchestrator.py`) | threads, the event loop | `update_model_states`, `on_schedule_changed`, `on_model_state_changed`, `republish_states`, `stop_all_models`, start and stop | wires every component |
| `CrunchService`, `CrunchScheduleService` (`services/crunch_service.py`) | crunches, on-chain infos, the last decision per crunch | `create_crunches`, `update_onchain_infos`, schedule polling | calls back the orchestrator, which starts and stops models |
| configuration watchers (`infrastructure/config_watcher/`) | the configuration read last; the YAML file | polling, comparison, append and update | call back the orchestrator; the HTTP API writes the YAML file |
| WebSocket server (`infrastructure/messaging/websocket_server.py`) | clients by crunch, a bounded queue | connection handler, init event, broadcast, queue worker, failure reports | event loop thread; called from the update thread |
| RabbitMQ publisher (`infrastructure/messaging/rabbit_mq_publisher.py`) | a queue, a connection | notifications, publishing worker with retry, close | same |
| AWS (`infrastructure/aws/`) | services, tasks, task history, builds | `run`, `stop`, `load_statuses`; `build`, `is_built`, `load_statuses` | Runner and Builder interfaces |
| Phala (`infrastructure/phala/`) | runners, head runner, task map | discovery, capacity, provisioning, approval, routing | same |
| local Docker, Nomad (`infrastructure/local`, `infrastructure/nomad`) | build threads and their statuses; jobs | same | same |
| HTTP APIs, signature verification, tournament API, settings, CLI, scripts | – | – | – |

What makes each correct, and what is hard about it:

* **Model runs service.** A model has one run that is wanted; no job runs in the cloud for nothing; the
  observers know what the table knows; a failure stops its run and leaves an explanation; nothing stays
  for ever in a status that no code looks at again. Hard: the statuses are loaded for all runs and then
  applied one by one while the same loop stops and removes runs; every cloud call may raise, from places
  whose exceptions are caught at different levels; failure reports name an address that may have been
  reassigned; the process may be killed between two saves.
* **Table.** A restart tracks what was tracked: no more (`ActiveRunsTracked`) and no less
  (`WantedRunsTracked`).
* **Schedules and configuration.** At the end of a crunch's schedule its models are stopped and stay so;
  a change of the configuration is applied once and in order. Hard: three threads without a common lock.
* **WebSocket server.** Every client ends up with the last status. Hard: the set of clients changes while
  a broadcast awaits; the init event races with the queue; the queue is bounded.
* **RabbitMQ publisher.** Every status that the queue accepts is published at least once, in order. Hard:
  reconnections that fail half way, publications tried again while new events come in, close.
* **Phala cluster.** A task is sent to the CVM that has its image and followed there; there is always a CVM
  to build on. Hard: a head that changes between the request for room, the build and the registration of
  the task; provisioning that fails half way; a restart after tasks have died.
* **Local builder and runner.** A finished build is reported and what runs is what was built. Hard: a
  status is forgotten when it is read, two runs share it, a restart forgets it.
* **ECS runner.** What it reports makes a sensible story of a run; a service that keeps restarting is failed.
  Hard: one service shared by two runs of a submission; counting over restarts.
* **Nomad runner.** A run ends when Nomad has given its job up, not before and not never. Hard: jobs and
  allocations are fetched one after the other; a job registered again keeps its dead allocations.

## 2. Modules

| Module | What it is |
|---|---|
| `ModelRuns` | `ModelRunsService` and its three services, the cluster, the table, the jobs in the cloud, restarts |
| `RunLifecycle` | the abstract specification: what the service promises about the runs of a model |
| `ModelRunsLifecycle` | the refinement mapping from the first to the second |
| `JobMoves` | what a job does on its own: taken for granted by `ModelRuns`, checked of the AWS runner |
| `ConfigSchedule` | the two pollers that call `start_model` and `stop_model`, the list and the schedules they read |
| `StateSubject` | the notifications, and the service reduced to what observers see of it |
| `WebSocketServer` | one observer: connections, init events, bounded queue, broadcasts cut at each await |
| `RabbitMQPublisher` | the other observer: bounded queue, worker with a pending event, reconnections, close |
| `OrderedDelivery` | the abstract specification of what a publisher promises |
| `Publishers` | composition: the subject and the observers a process is configured with |
| `PhalaCluster` | the Phala backend: cluster, builder and runner, CVMs that come, go and fail |
| `AwsEcsRunner` | the AWS runner: services that ECS restarts, task history |
| `NomadModelRunner` | the Nomad runner: jobs and allocations, fetched one after the other |
| `LocalBackend` | Docker: build threads, their statuses, containers named after a submission |
| `Backends` | composition: the backend a process is configured with |
| `MCModelRuns`, `MCModelRunsLifecycle`, `MCConfigSchedule`, `MCPublishers`, `MCBackends` | instances for TLC |
| `ModelRunsProofs`, `RunLifecycleProofs`, `ModelRunsLifecycleProofs` | proofs about the service, the abstract specification, the refinement |
| `PublishersProofs` | proofs about both observers, and that RabbitMQ implements `OrderedDelivery` |
| `ConfigScheduleProofs` | proofs about the two pollers |
| `PhalaClusterProofs`, `AwsEcsRunnerProofs`, `BackendsProofs` | proofs about the backends; the last one about Nomad, Docker and all four |

How they hang together: `ConfigSchedule` is who calls the service, `ModelRuns` is the service, the backends
are what it calls and the publishers are whom it tells. The first and the last two see the service as the
module in between promises it: one wanted run per model (`RunLifecycle`), a run listed as running
exactly when it has been announced so and is not to be stopped (`RunningAsAnnounced`), one call at a time (the lock).

### How `ModelRuns` corresponds to the code

* **One lock, one call in progress.** `ModelRunsService.lock` is held for the whole of every public call,
  so one variable `op` describes the call that holds it: the point it has reached and its locals
  (statuses loaded and not yet applied, replaced runs still to be stopped, errors collected). `op.pc = "idle"`
  means that the lock is free. A call is cut into steps where it talks to the Builder or the Runner, since
  the jobs go on meanwhile, and where a crash would leave a row worth telling apart (for example between
  the save of a failure and the stop of the run, `halt`).
* **One variable for memory and table.** Every setter used by these services is followed by `save_model`
  before anything else is called, so `row` is both the object and its row. `cluster`, `op` and `reports`
  are lost in a crash, `row` and `cloud` are not. A failure of SQLite itself is not modelled.
* **Public calls**: `StartModel`, `StopModel`, `UpdatesStates`, `ReportModelRunnerFailure`, `GetAllModels`.
  `start_model` goes on with `IsBuilt`, `Build`/`BuildRaises` or `Run`/`Launched`/`RunRaises`;
  `stop_model` with `Stop`/`StopRaises`; `updates_states` with `HandleReport`, `UpdateModelsInfo`, then
  `LoadRunnerStates`(`Raises`), `UpdateRunnerState`, `StopReplaced`, `RunnerStatesDone`, `HandleErrors`,
  `ErrorsDone`, then the same for builds. The fragments that several callers share (`HandleError`,
  `StopRun`, `RunModel`, `FinalizeModelCleanup`) take the value that `op` gets on return.
* **Exceptions.** `Faults` says which of the cloud calls may raise. Where the exception goes is modelled
  as the code has it: `start_model` and `stop_model` handle it, the loop over replaced runs collects it,
  out of `update_builder_states` and out of `handle_error` it escapes `updates_states`, which only catches
  `OrchestratorErrors`, and everything collected so far is lost.
* **Cloud.** `cloud[r]` is the runner job and the build job of run `r`. `TaskMove` and `ImageMove` let them
  change at any time, along `TaskMoves` (`JobMoves`): `EcsMoves` is what the AWS runner reports for an ECS
  service, with tasks that are replaced and get a new address, `RunnerMoves` adds what Nomad does, `PlainMoves`
  is a runner without restarts. An ECS job goes down without a stop of its run too (`DownMoves`): the service
  is shared by a run and the one that replaces it, and may be deleted. The other moves leave STOPPING to `Stop`.
* **Reports of failures.** The mediator gives an address, and `HandleReport` hits the first tracked run of the
  model that has it: after an address has been given away, possibly another run than the one that failed. No
  property says that it is the one; they say what the run that is hit goes through.
* **History.** `told` is the last status each run's observers were given. It influences nothing.
* **Data left out.** Names, ports, logs, failure texts, timestamps; a configuration is one value standing
  for submission, resource and hardware; the four model-runner errors that the code treats alike are one.

### `RunLifecycle`

A run goes from *unborn* to *wanted*, *replacing*, *stopping*, *gone*, never backwards; a new run of a model
displaces the wanted one, and only that. `StageOf` maps a run to its stage: untracked runs are gone,
tracked ones are where their desired status says. The refinement holds whatever call raises and whenever
the process restarts: it is the part of the promise that no failure may break.

### How `ConfigSchedule` corresponds to the code

* **Two threads, no common lock.** `poller` is `ModelStateConfigPolling.start_polling` with its callback
  `on_model_state_changed`; `scheduler` is the `ThreadPoller` over `apply_schedule_changes_to_models` and
  `on_schedule_changed`. Each is cut where it reads something the others change: the list, the clock
  (`can_model_run_now`, once for each crunch of a reading), the service (once for each call).
* **What a thread remembers.** `previous` is `previous_state`, set after the callbacks to what was read
  before them; `scheduler.known` is `_last_known_schedule_states`, set before the list is read. Both are
  lost in a restart, which is what makes the threads apply everything again.
* **The list.** `config` is the YAML file or the answer of the chain; `Edit` is any of the writers.
  `_write_raw_yaml` empties the file and rewrites it in place, so a reader in `TornReaders` may find only
  some of the models. A reading that fails is no step of the poller and the end of the schedule thread; an
  entry that is not valid is the end of either (`PollerDies`, `SchedulerDies`): no thread is started again.
* **The service** is kept to what `RunLifecycle` says of it: one wanted run per model, a start replaces a run
  of another submission, a stop goes to a replaced run if there is one. `overlapped` records that the
  last stop of a model did the latter.
* **What is left to chance.** `crossed` is a history variable: the models for which a change of the list and
  a turn of the schedule have crossed between the two threads (section 3). It excepts them from the
  properties, guards nothing, and a model leaves it at the next turn of its schedule that does not cross again
  (for an opening: if the model is listed RUNNING), or at a restart.
* **Left out.** Signatures, names, hardware; calls that raise; starts refused for a quarantine; runs that
  end by themselves (all of which are in `ModelRuns` or, for signatures, change nothing).

### How `Publishers` and its parts correspond to the code

* **The threads that notify** (`StateSubject`) hold the service's lock, all but `republish_states`: it reads the
  list of runs under the lock and announces them without it, each with the status it has by then, which is what
  `Republished` does with any run that was tracked. Each event is handed to an observer's event loop (`call_soon_threadsafe(put_nowait)`), so the two only meet in the list of callbacks. All observers
  are told of everything in the same order; what one raises is caught. `status` is what was announced last and
  `stopping` the runs that `stop_model` was called for, which are no longer listed as running whatever is
  announced of them. `Changed` takes any status a runner may report, the same again with a new name or address
  included; The statuses no observer tells apart are one. INITIALIZING is
  told to no client, so that a client whose run is placed again believes it RUNNING until its next status
  (`UpToDate`).
* **`WebSocketServer`.** The loop is one thread, cut where its coroutines await: `WsPut` is the callback,
  `WsGet` the worker taking an event, `WsSend(c)` the iteration over the clients reaching `c`, `WsCastDone` and
  `WsCastRaises` its end. `WsConnect` is the handler up to its first wait for a message: registration and
  init event in one step, since `ws.send` writes before it awaits. The iteration is over a live Python set:
  it raises when the size has changed, and may pass over clients when one left and another came (`churned`).
  `missed` records who was not reached, which the properties exclude: that such a client is never told is
  how the code is, see below.
* **`RabbitMQPublisher`.** One action per await of `_process_queue`, with the outcomes of the call. Events are
  numbered, so that order can be stated; connections are numbered, so that an exchange that belongs to a dead
  one can be told from a good one. `RmReconnectFails` has both halves of `_setup_connection` failing. That
  `connect_robust` may reconnect by itself and what `is_closed` then says are the library's affair and not
  modelled: a dead connection stays dead.
* **Left out.** The handshake, what messages say, the messages of clients (they are the `Reports` of
  `ModelRuns`). A client that stops reading blocks a broadcast for good (`ping_timeout` is None): the model's
  fairness takes it that sockets let their bytes go or are closed.

### How `Backends` and its parts correspond to the code

* **One backend at a time**, chosen when the process is set up. All builder and runner calls are made under
  the service's lock, so a call is one action, except where two requests see different states and it matters
  (`GetJobs` and `GetAllocations` of the Nomad runner).
* **`PhalaCluster`.** `tasks` and `platform` are what the CVMs and the Phala cloud have; `cvms`, `head` and
  `taskMap` are the fields of `PhalaCluster`, lost in a restart and made again by `discover` and
  `rebuild_task_map` (`Restart`). `EnsureCapacity` gives every outcome `ensure_capacity` may have, with
  `_provision_new_runner` inside it, since it runs to its end before the build goes on: refused by the cap or
  by a silent head, nothing to do, another CVM that has room, a new head, a failure that leaves a CVM behind
  in the cloud, a failure that returns as if nothing were wrong. In each call, each CVM says that it accepts
  models, that it does not, or nothing (`yes`, `silent`). `StartBuilt` is a model whose image is there: it asks
  for no capacity and is not counted.
* **`AwsEcsRunner`.** `services[s]` is what `describe_services` and `list_tasks` say; `EcLoadStatuses` is
  `load_statuses` with the batches that fail (`undescribed`) and lists cut short (`unlisted`);
  `EcLoadStatusesRaises` is the same call when the stop of a service that failed too often raises (`ecs.py:179`,
  re-raised at `486-487`): no run is told anything, the services of the runs before it are stopped, and the
  histories have grown up to it. `PendingAgain` is the rule that tells recovering from initializing, with the entry of a service shared by runs; `WithTask`
  and `Excessive` are `_check_excessive_restarts`, the window being a point in the sequence of tasks. ECS
  itself starts, ends and gives up tasks as its API documents them; restarts of the orchestrator are
  not in this module: the history it loses with them is the table's `runner_info`. Three history variables
  guard nothing: `raised` counts the polls that raised, `broughtDown` has the services that were scaled to 0 or
  deleted since they were last deployed, `redeployed` the runs that were STOPPING when another one was deployed
  over their service.
* **`NomadModelRunner`.** `jobs` and `allocs` are Nomad's; `ResolveStatus` is `_resolve_status`.
* **`LocalBackend`.** `threads` are the `_DockerBuild` threads, `pending` the map `_pending_builds` they report to
  and `_get_status` takes from; `images` and `containers` are Docker's. `Launched` removes the container of the
  same name and runs the new one, or raises before or after that. A restart forgets the builds.
* **Not composed with `ModelRuns`.** The composition has too many states. What is checked instead is that the
  statuses of the ECS runner are those `ModelRuns` takes for granted: `EcReportsFollow` says when each may be
  told, and `ReportsMove` (section 4) that these are moves of `EcsMoves`, all but the revival of a STOPPING run
  by the deployment of another one, which `ModelRuns` leaves out (section 3). Runs that were being built when the process ends are `lost` to the backends as they are to
  `load_active`.


## 3. Runs

| Run | Instance | Checks |
|---|---|---|
| `replacements` | 1 model, 2 configurations, 3 runs; no fault, no crash | `LiveJobsWanted`, `NoGhostAnnounced`, `ReplacedRunsRetired`, `WantedRunsTracked`, `SettledForever` |
| `ecs_service` | 1 model, 2 runs, moves of any runner, 2 addresses, 1 pending report, quarantine | `TypeOK`, `ObserversInformed`, `FailedRunsStopped`, `FailureExplained`, `NoStuckRun` |
| `failures` | 1 model, 2 runs, every call may raise, 1 crash, 1 pending report | `CallInv`, `OneWantedRun`, `ActiveRunsTracked`, `RunningAsAnnounced`, `ImplementsLifecycle` |
| `liveness` | 1 model, 2 runs, ECS moves, builds may raise | `StartSettles`, `StopCompletes` |
| `schedule` | 2 models, 2 submissions, 1 crunch with a schedule and 1 without; half-written readings of both threads, dying threads, any number of restarts | `TypeOK`, `RunningFollowed`, `StoppedFollowed`, `FollowedInTheEnd` |
| `publishers` | 1 run, 3 events; either 2 clients, a queue of 2 and 2 connections, or RabbitMQ with a queue of 2, 3 connections and 2 failures | `TypeOK`, `WsClientsInformed`, `WsInformedInTheEnd`, `RmDeliversInOrder`, `RmPublishedInTheEnd` |
| `backends` | each backend with 2 runs of one submission; 2 CVMs, 2 tasks, 1 restart; 2 ECS tasks, 1 restart of a task; 2 Nomad placements; 1 restart of the local process, rebuilds on | `TypeOK`, `PhRoutedToOwner`, `PhLiveTasksRoutable`, `PhHeadKnown`, `PhFailuresSeen`, `EcReportsFollow`, `EcRestartsBounded`, `NmGivesUpWithNomad`, `NmEndSeen`, `LoImageOfThisProcess`, `LoBuildEnds` |
| `closed_crunch` | `schedule` without failures | `ClosedAllStopped`, violated |
| `restart` | 1 run, 1 crash | `WantedRunsTracked`, violated |
| `self_replace` | 2 runs, ECS moves | `ReplacedByAnother`, violated |
| `phala_restart` | Phala, 2 runs, 1 CVM, 1 restart | `PhTrackedTasksRoutable`, violated |
| `phala_cap` | Phala, 2 runs, `max_models` = 2 | `PhCapNotBelowMaximum`, violated |

**Bounds.** `MaxRuns` bounds the runs ever created. Three of one model give a replacement of a run that is
being replaced, which is where the interesting orders are (two REPLACING runs, a REPLACING run that comes
RUNNING first); two are enough where the question is about one run and the one after it. One model is
enough because runs of different models only meet in the lists of one update, where the runs of one model
meet too. Two addresses let a report name an
address that has been given up; one pending report may already be late, and several are handled one after
the other by the same action. One crash at any point: a second one starts from a state that has
the same shape as any state after the first. Two configurations, symmetric, are what `has_changed` needs.

In `schedule` the model of the crunch with a schedule has every listing of two submissions, of which one may be
listed STOPPED, or none; the other one is listed RUNNING or not at all (`Listings`): it is there to come and go
between the readings and to keep the poller busy while the schedule moves. Nothing else is bounded: lists,
schedules and the process change and restart as often as they like.

In `publishers` each observer is alone (`OneObserver`): they share nothing but the notifications, which both
are given in the same way. Three events fill a queue of two while one is being sent; two clients let one
come while another leaves in the middle of a broadcast, which is the case the code's live iteration is about;
two connections of one client, or one of each. One run is enough as events of different runs are independent
but for the order of the queue; the proofs are for any number. Three connections to the broker let the first
one die and a reconnection fail half way and be tried again; two failures let a publication fail, and its retry.

In `backends` two runs of one submission share what is named after it (an ECS service, a Nomad job, a local
image and container) or is looked up by it (a Phala image). With one CVM besides the registry, the head
moves once, which is when a task can be routed to the wrong one. `MaxModels` is 0 (no cap) but in `phala_cap`.
Two ECS tasks with one restart allowed are one more than may be, and one poll may raise because the stop of a
run with too many does (`MaxStopFailures`): that poll takes the run one task past its limit, and the theorem
is for any number of either. Two Nomad placements are the first and the one
after a failure. One restart is enough for the same reason as in `ModelRuns`.

`ecs_service` and `liveness` use different moves of the jobs. `RunnerMoves` lets a RUNNING job be INITIALIZING
again, which Nomad reports while it places a job elsewhere; a job that does so for ever never settles, so
`StartSettles` is about `EcsMoves`. A run that is STOPPING and comes up again, because a run that shares its
service is deployed over it (`redeployed` in `AwsEcsRunner`), is left out of the moves of every run, the
instances with it being too large for a complete search at these bounds; it was searched once with a single
address and report. The theorems hold for any moves, but for the two that assume `NoRevival`.

**What `schedule` excepts.** The two threads have no lock in common, and the code does lose the right order when a
listing and a schedule change within one look of each other. These are steps of the model like any others; the
models they concern are in `crossed`, and the properties are about the rest:

* *A listing changes while the schedule poller still owes its model a start* (`Edit`). It reads the list, the
  configuration poller applies a newer submission, and the schedule poller starts the older one it has in
  hand, which neither looks at again.
* *A crunch closes between a decision of the configuration poller and its call* (`CrossedByTurn`, second case).
  The schedule poller stops the models, then the late call starts one for the whole of the closed time.
* *A schedule turns again before the schedule poller has dealt with the last turn* (first case): it calls for
  the turn before the last, or sees no turn at all.
* *A crunch opens while the configuration poller holds an older listing* (third case): it skips the change as
  of a closed crunch, or applies what is no longer listed after the schedule poller has started what is.
* *The list that a turn is applied to lacks a model* that had to be called for (`MissedIn`): it was half
  written, or the model was not listed at the time. Nobody asks again until the next turn.

None of these may be dropped: without any one of them, TLC finds `RunningFollowed` or `StoppedFollowed`
violated. Whatever else happens, in any order, the two properties hold; and since a model leaves `crossed`,
they also say that a later turn or a restart repairs what these orders have broken.

**Where properties stop holding.** The properties of `replacements` and `ecs_service` are about calls that do not raise.
With a Runner or Builder that raises, TLC finds `ObserversInformed` and `NoStuckRun` violated (the update
loop escaped by an exception leaves a run half processed until the next update); with a stop that raises,
`LiveJobsWanted`, and with three runs `NoGhostAnnounced` and `SettledForever` (the run leaves the cluster
while its job goes on); with a crash, `FailureExplained`, `FailedRunsStopped`, `ReplacedRunsRetired`, `LiveJobsWanted`,
`WantedRunsTracked` and `NoStuckRun` (a crash between two saves leaves the rest of the call undone). `CallInv`,
`OneWantedRun`, `ActiveRunsTracked`, `RunningAsAnnounced` and the refinement hold in all these cases, and are
proved without an assumption on the faults.

**Fairness** (`FairSpec`). `Proceed`: a call that holds the lock is sequential code whose cloud calls return
or raise. `UpdatesStates`: `update_model_states` calls it every few seconds for ever; weak fairness is
enough because the bounds of the model let users call only finitely often. `TaskMove`, `ImageMove`: a job does not stay
for ever in a status it can leave. Nothing is assumed of users, coordinators and crashes. Liveness is not
claimed when `Runner.run` raises (a failed build whose error was dropped stays tracked for ever: TLC shows
it for `StartSettles` with the fault `run`), when `load_statuses` may raise for ever, nor with failure reports that never end (each
unmatched one makes an update return early, `model_runs.py:212`).

In `ConfigSchedule` every step of a living thread is weakly fair (both loops go round for ever and their
calls return), and reading a file that nobody is writing is strongly fair: a reading is an instant, a write
too, so the poller does not find the file half written every time. `FollowedInTheEnd` is about a process that is
not restarted again and again: each restart makes both threads begin anew.

`WsFairness`: the event loop runs what is ready, and a handler notices a connection that is lost. `RmFairness`:
the worker's calls return or raise; the broker owes nothing, but its failures and the connections that die are
bounded, without which nothing would ever be published. `PhFairness`: the service polls for ever; strong fairness
because a CVM that stops may come back between two polls. `NmFairness`: weak for the first request, strong for
the second, since not every second request fails. `LoFairness`: a build thread ends, the service polls. The
CVMs, ECS, Nomad and Docker owe nothing.

**Disagreements found.** Each is a run of its own:

* `restart`: `load_active` is documented to load every run that is not stopped, but its SQL condition is
  NULL for a row without a runner status: a run that is being built is lost by a restart.
* `self_replace`: a run that was replaced while it was starting stops itself when it comes RUNNING, since
  it is in the list of REPLACING runs of its model; the model then has no running run until the new one is up.
* `closed_crunch`: a crunch that closes is to have all its models stopped, but the one call to `stop_model`
  for a model whose run is being replaced stops the replaced run; the new one runs on until the next closing.

* `phala_restart`: the task map is rebuilt without the tasks that have failed, "since their routing is no longer
  relevant"; a model that died while the process was down has such a task while its run is still tracked, and
  the poll of every run raises from then on.
* `phala_cap`: the cap counts the run that is to be built among the active ones: with `max_models` = N a build is
  refused when N - 1 other models are active.

**Behaviour worth knowing that contradicts no document:**

* `stop_model` stops one run of the model, the oldest. A refused start of a quarantined configuration still
  leaves the old run REPLACING; the quarantine is only looked at on creation. A run that its user has stopped
  and that fails on its way is quarantined. A model taken off the list is not stopped, not even when its crunch
  closes.
* At a stop request the observers are told STOPPED early, "to prevent any undesired communication" (`run.py:57`),
  and told RUNNING by the next update if the job was starting (`run.py:125`). A launch that the provider
  refuses is recorded RUN_EXCEPTION through `start_model`, but UNKNOWN, with a quarantine, when it is made at
  the end of a build (`build.py:94`).
* WebSocket: a client passed over by a broadcast that raised, or connected when the queue was full, is not told
  again until the run's next event (`missed`). A client that connects while older events wait is told the
  present, then the past, then the present. `close` shuts the queue down and closes the connections without
  waiting for it to empty, and callbacks still on their way to the loop are lost. A run that Nomad places again
  goes from RUNNING to INITIALIZING, which `on_runner_state_changed` tells no client (`websocket_server.py:191`).
* RabbitMQ: a reconnection that fails after the connection and before the channel leaves an open connection
  with a dead channel, and nothing reconnects (`RmStranded`). `close` does not wait for the worker, although it
  logs that it waits for the queue to empty; with an event pending, the worker opens a connection again.
* Phala: a model whose image is built bypasses the cap; a provisioning that fails after the deployment may
  leave a CVM running that nobody knows; a build whose answer is lost leaves a task that nobody asks about.
* ECS: `register_task_definition` returns one value where its caller unpacks two when no definition can be
  reused (`ecs.py:367`). A run and the one that replaces it for its resource or hardware share the service: when
  the new one is RUNNING, the stop of the old one (`run.py:132`) scales the service to 0 (`ecs.py:238-241`). The new
  one is told STOPPING, then STOPPED, and ends as one that was not asked to stop. The other way round, a run
  deployed while the old one is still STOPPING brings that one up again. A stop that raises in `load_statuses`
  (`ecs.py:179`) takes with it the statuses of all runs, and the run that failed too often stays tracked, with
  more tasks than it may have, until a poll comes through.
* Nomad: a run whose job was registered again is told how the one before ended until the job is placed
  (`NotPlacedAgain`). The table of statuses maps a lost allocation to FAILED, but allocations are looked up by the
  state of the task, so that a run on a node that is gone is RUNNING until Nomad places it again.
* Local: two runs of one submission share the status of their build, and the one that reads it second is told
  that its build failed.


## 4. Proofs

`ModelRunsProofs` proves, for every value of the constants that `ModelRunsAssumption` allows (any number of
models, runs, addresses, reports and crashes, any moves of the jobs, any set of faults):

* `Invariance`: `Spec => []Inv`, with `Inv == TypeOK /\ CallInv /\ OneWantedRun /\ ActiveRunsTracked`;
* `TypeCorrect`, `CallConsistent`, `AtMostOneWantedRun`, `NothingRevived`: its parts, which runs check.

`Inv` is inductive. `OneWantedRun` alone is not: a restart could bring a second wanted run back unless what
the table would give is tracked already (`ActiveRunsTracked`); that in turn needs that a status is never
applied to a run that has left the cluster, and a status in hand is only known to belong to a tracked run
because of where the call is (`CallInv`, which ties the locals of the call to the cluster at each point).
The argument: all steps but `StartModel` only let runs go (`OnlyForward`: no run becomes wanted, none
enters the cluster), and such steps keep `OneWantedRun`; `StartModel` first displaces the oldest wanted run
of the model, which by `OneWantedRun` is the only one. There is a lemma for each shared fragment
(`HandleErrorKeeps`, `StopRunKeeps`, `RunModelKeeps`) and one per action.

The other properties of `ModelRuns` hold under some faults and not under others, and the theorems name as an
assumption the faults that break them:

* `EndInvariance`, with `NothingTouchedAgain` and `NoGhosts`, assumes `"stop" \notin Faults`: `Runner.stop` does not
  raise. `EndInv` says that a run owed a clean-up (a lost job or an error to be handled) is not up and, if STOPPED,
  still tracked (`OwedEnds`), that a tracked run which has had a status from the Runner has a job (`Known`: hence
  a run told to be up is active, and by `ActiveRunsTracked` tracked), and where the run in hand is (`InHand`, `Loops`).
  A stop that raises owes a clean-up to a run that may be up.
* `FollowInvariance`, with `FailuresStop`, `FailuresExplained`, `ReplacedRetire`, `WantedTracked` and `ObserversKnow`,
  assumes `MaxCrashes = 0`, and allows every other fault (`ObserversKnow` also assumes `"run" \notin Faults`, a launch that
  does not raise). Each of these properties speaks of the moments when no call is in progress; `FollowInv` says
  what the call in progress still has to do for it: a tracked run with an error is stopped or the one in hand
  (`Halted`), a FAILED run has an error or is still tracked (`Explained`, `Recorded`), a wanted run that is not settled is
  tracked (`Kept`), a run that was replaced by a RUNNING one is still in the loop (`Retiring`),
  and what the observers know differs from the table only for the run being launched (`Announced`, `Launching`). A crash between
  saving a run and stopping or launching it leaves the rest undone, which the run `restart` shows.
* `ShownInvariance`, with `ShownAsAnnounced`, assumes nothing: what the coordinators that connect are sent is what the
  others were announced, at every step of every call. `ShownInv` keeps of `EndInv` what no fault can take away: a
  run with an error may be up after all, but then it is marked to be stopped (`ShownOwed`: the stop that raised has
  marked it first), and a run that is to be stopped is not listed. The run in hand is not up before it is launched
  (`ShownInHand`), and what is still to be applied belongs to a run with a job (`ShownLoops`).
* `JobInvariance`, with `LiveWanted` and `NoRunStuck`, assumes `CallsReturn`: no launch and no stop raises, the process does
  not restart, and no job comes to life again by itself (`NoRevival`, which the moves of every runner satisfy: `RunnersNeverRevive`);
  builds and loads may still raise. What `LiveJobsWanted` says of a job needs that the table never says of a job
  that is alive that it is not, and that no status still to be applied does (`JobFollowed`): otherwise a
  clean-up, which does not stop anything, could remove the run. `NoStuckRun` needs that what no update would look
  at again has an error to be handled in this one (`InProgress`), and that an error only concerns a run that is
  over or was never launched (`ErrorsOver`). `EndInv` and `FollowInv` are used on the way: a status in hand belongs to a run
  with a job and no error, and a launch happens in `start_model` or in the loop over builds.

`ModelRunsLifecycleProofs` proves `Implementation`: `Spec => ImplementsLifecycle`, the refinement that the run
`failures` checks. On top of `Inv` it needs `Created`: only runs that were created are tracked, and exactly
those have a model. Every step but `StartModel` and `Crash` touches at most one run and takes it forward, which
is `Retire`, `Settle` or a stutter of `RunLifecycle` (`OneRunLifecycle`, with a lemma for each shared
fragment); `StartModel` is `Create`, because by `OneWantedRun` the run it displaces is the only wanted one;
`Crash` is `Settle` of the runs the table does not give back, because by `ActiveRunsTracked` it gives back no
other. `RunLifecycleProofs` proves of the abstract specification that a model never has two wanted runs
(`OneWantedAlways`), which is inductive there as it stands.

`PublishersProofs`, for any number of runs, events, clients and connections and any sizes of the queues:

* `RabbitMQInvariance`, `DeliversInOrder`: the publisher implements `OrderedDelivery`, with the refinement mapping
  `given <- sent, lost <- dropped, delivered <- published`. That `published` never goes back does not follow from
  itself: it needs that the worker, the queue and the callbacks hold the events in increasing order, one part
  after the other (`InOrder`), none of them refused (`HeldNotDropped`), and that every event between the last
  published and the last given is held or was refused (`NothingSkipped`), which makes the pending event the
  oldest outstanding one. A publication that is tried again is a stutter.
* `WebSocketInvariance`, `ClientsInformed`: a client to whom nothing is on its way knows what is. Not inductive as
  it stands: when the last event reaches the client, one has to know that it says what is true. `NewestIsTrue`
  says so of the newest event of a run among the callbacks, and in the queue or the broadcast unless a later one
  was refused, of the runs of which clients are told (not INITIALIZING); `UnbornUntold` and `NoServer` are the
  cases where there is none.
* `PublishersTyped`, the types and bounds of both, from the two invariants and `Bounded`: a queue never holds more than
  its maximum, and the worker of the publisher only has exchanges of connections that were opened.

`PhalaClusterProofs`, for any number of CVMs, runs, tasks and restarts: `TasksRoutedToOwner`, `LiveTasksRoutable`,
`HeadKnown`, from `PhInv`, which adds to them that what the process knows has been deployed (a CVM deployed later
is therefore new, and has no tasks), that unused tasks belong to nobody, and that a job id in use is a task.
`RoutableUntilRestart` says of the promise that the run `phala_restart` refutes that only a restart breaks it: no
call forgets a CVM or the way to a task, so that until then what is built or runs can be reached, failed or not.

`AwsEcsRunnerProofs`, for any number of runs, names, tasks and polls that raise: `RestartsBounded`, from `EcInv`:
the history kept for a run is what it has been told of, so that the count the code makes is the count the
property is about. A run that is still tracked after a poll has no more tasks in the window than it may have;
a poll that raises adds at most the one listed task, which is the one more that the bound grants for it. And
`ReportsFollow`: a run is told STOPPING or STOPPED only of a service that was brought down, since a service that
is not active, or is to have no task, was scaled to 0 or deleted after its last deployment (`ServicesDown`), and
a run that is STOPPING is only told that it is up when another one was deployed over it (`StoppingDown`).
`ReportsMove` is the link with `ModelRuns`: from one poll to the next, a run makes a move of `EcsMoves`, but for
that last case. `BackendsProofs`: `GivesUpWithNomad`,
from `NmInv`: what the first request found gone has not come back when the second is answered (`SeenGone`), and
a dead task means that its job failed, was given up, or has not been placed since it was registered again
(`DeadTasks`); `ImageOfThisProcess`, from: a success that has not been read yet is of an image of
this process (`SuccessIsCurrent`); and `BackendsTyped`, the types of all four.

All are theorems of the composed specification (`Publishers!Spec`, `Backends!Spec`): a step of another component
leaves the variables of this one alone.

`ConfigScheduleProofs`, for any models, crunches, submissions, listings, readings and restarts, and with no
assumption on the constants but their types: `ScheduleTyped`, and

* `RunningIsFollowed`, `StoppedIsFollowed`, from `ScheduleInvariance`. A model of a crunch without a schedule belongs
  to the configuration poller: what it has read and not in hand is followed (`UnscheduledFollowed`). A model of a
  crunch with one belongs to either thread in turn, unless it is crossed. While the crunch is closed the
  configuration poller does not call for it, and it is stopped unless the schedule poller owes it that call
  (`ClosedFollowed`). While it is open, what the configuration poller has dealt with is followed, unless the
  schedule poller owes the model a start; as long as it does, the configuration poller must know nothing but the
  present listing, or its own late call would undo the start (`OpenFollowed`). Each clause of `crossed` is
  used once: what the schedule poller has in hand for a model that is not crossed is about its present
  schedule and listing (`SchedulerCurrent`: the edit during a start, the early turn), the closed model is not
  called for (the late call), the opened one is known by its present listing only (the older listing in hand), and
  what a reading leaves out was not to be called for (`MissedIn`). A turn that clears a crossed model starts its
  clause anew: a closing leaves the stop to be made, an opening the start.

Every invariant and every action property of the passing runs, and both refinements, are stated by a theorem. Only
model-checked are the liveness properties (`StartSettles`, `StopCompletes`, `FollowedInTheEnd`, `WsInformedInTheEnd`,
`RmPublishedInTheEnd`, `PhFailuresSeen`, `NmEndSeen`, `LoBuildEnds`), which TLAPS cannot prove (no ENABLED, no fairness).
No recursive operator is used.

## 5. Not modelled, and what is left

Not modelled, and why:

* HTTP request parsing, signature verification, settings, the command line and the maintenance scripts
  keep no state that others depend on. The Phala HTTP client and gateway credentials are modelled as far as
  what a request may answer; headers and keys are data.
* The set-up of AWS clusters, networks, log groups and CodeBuild projects: a sequence of idempotent calls made once.
  CodeBuild keeps no state between calls; its statuses are those of a build in `ModelRuns`.
* A failure of SQLite: `save_model` is taken to succeed.
* Start-up and shutdown of the orchestrator: `stop_all_models` (the local backend only), the models of deactivated
  crunches, and the order of the finishers. `close` of the publishers is modelled, not who calls it.
* `create_crunches` and `update_onchain_infos`: crunches are a constant of `ConfigSchedule`.

Left for later: start-up and shutdown as a module over `Publishers` (events notified while the
publishers close).
