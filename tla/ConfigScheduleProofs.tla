------------------------ MODULE ConfigScheduleProofs ------------------------
(***************************************************************************)
(* Proofs about the two threads that call ModelRunsService, for any models,*)
(* crunches, submissions and restarts, and whatever each of them reads half*)
(* written: a listing and a schedule that both threads have seen are       *)
(* followed, but for what two changes at once have left to chance.         *)
(***************************************************************************)
EXTENDS ConfigSchedule, TLAPS

(* Every variable has its type, what is listed may be, and a configuration *)
(* poller that is waiting has nothing left to call for.                    *)
Typed ==
    /\ TypeOK
    /\ \A m \in Models : config[m] \in Listings[m]
    /\ poller.pc # "groups" => poller.calls = {}

(* The listing is followed: the submission it names is wanted, or none is  *)
(* if the model is to be stopped.                                          *)
Applied(m, listing) ==
    /\ listing.desired = "RUNNING" => wanted[m] = listing.submission
    /\ listing.desired = "STOPPED" => wanted[m] = NONE \/ overlapped[m]

(* What the configuration poller has seen of m and dealt with is followed. *)
PollerFollowed(m) ==
    IF poller.pc = "groups"
    THEN m \in poller.changes \cup poller.calls \/ Applied(m, poller.fetched[m])
    ELSE \A list \in previous : Applied(m, list[m])

(* The schedule poller does one thing at a time, and what it does for a    *)
(* model is about the present: its schedule does not turn, and no listing  *)
(* that was read of it changes, before its call has been made.             *)
SchedulerCurrent ==
    /\ scheduler.pc # "fetch" => scheduler.changed = {}
    /\ scheduler.pc # "calls" => scheduler.calls = {}
    /\ \A call \in scheduler.calls : CrunchOf[call.model] \in Scheduled
    /\ \A m \in Models \ crossed : CrunchOf[m] \in scheduler.changed =>
            scheduler.known[CrunchOf[m]] = clock[CrunchOf[m]]
    /\ \A call \in scheduler.calls : call.model \notin crossed =>
            /\ scheduler.known[CrunchOf[call.model]] = clock[CrunchOf[call.model]]
            /\ IF clock[CrunchOf[call.model]] = "OUT_OF_SCHEDULE"
               THEN call.desired = "STOPPED"
               ELSE /\ call.desired = "RUNNING"
                    /\ config[call.model].desired = "RUNNING"
                    /\ config[call.model].submission = call.submission

(* A model whose crunch has no schedule belongs to the configuration       *)
(* poller alone.                                                           *)
UnscheduledFollowed ==
    \A m \in Models : CrunchOf[m] \notin Scheduled => PollerFollowed(m)

(* A model of a closed crunch is not called for by the configuration       *)
(* poller, and is stopped once the schedule poller has called.             *)
ClosedFollowed ==
    \A m \in Models \ crossed :
        CrunchOf[m] \in Scheduled /\ clock[CrunchOf[m]] = "OUT_OF_SCHEDULE" =>
            /\ m \notin poller.calls
            /\ scheduler.pc = "dead" \/ Owed(m) \/ wanted[m] = NONE \/ overlapped[m]

(* A model of an open crunch belongs to the configuration poller, but for  *)
(* the start that the schedule poller still owes it, during which the      *)
(* configuration poller knows nothing else of it.                          *)
OpenFollowed ==
    \A m \in Models \ crossed :
        /\ CrunchOf[m] \in Scheduled
        /\ clock[CrunchOf[m]] = "IN_SCHEDULE"
        /\ scheduler.pc # "dead"
        => /\ Owed(m) => PollerCurrent(m)
           /\ PollerFollowed(m) \/ (Owed(m) /\ config[m].desired = "RUNNING")

FollowInv ==
    SchedulerCurrent /\ UnscheduledFollowed /\ ClosedFollowed /\ OpenFollowed

-----------------------------------------------------------------------------
(* Types.                                                                  *)

(* What is listed names a submission and a desired status.                 *)
LEMMA ListingTypes ==
  /\ Nothing \in Configs
  /\ \A list \in Configs, m \in Models :
        /\ list[m] = Unlisted <=> m \notin Listed(list)
        /\ m \in Listed(list) => /\ list[m].submission \in Submissions
                                 /\ list[m].desired \in {"RUNNING", "STOPPED"}
        /\ list[m].desired \in {"RUNNING", "STOPPED"} => m \in Listed(list)
BY DEF Nothing, Configs, Listed, Listing, Unlisted, NONE

(* What a thread starts from has its type.                                 *)
LEMMA RestTypes ==
  /\ PollerAtRest \in [pc : {"wait", "groups", "dead"}, fetched : Configs,
                       changes : SUBSET Models, calls : SUBSET Models]
  /\ NothingKnown \in [Scheduled -> ScheduleStatus \cup {NONE}]
  /\ \A known \in [Scheduled -> ScheduleStatus \cup {NONE}] :
        SchedulerAtRest(known) \in
            [pc : {"wait", "fetch", "calls", "dead"},
             known : [Scheduled -> ScheduleStatus \cup {NONE}],
             changed : SUBSET Scheduled,
             calls : SUBSET [model : Models, desired : {"RUNNING", "STOPPED"},
                             submission : Submissions]]
BY ListingTypes DEF PollerAtRest, NothingKnown, SchedulerAtRest

(* A reading gives the listings of some models, all of them if it is not   *)
(* torn.                                                                   *)
LEMMA ReadingTypes ==
  ASSUME TypeOK, NEW thread
  PROVE  /\ Readings(thread) \subseteq Configs
         /\ \A list \in Readings(thread), m \in Models : list[m] \in {config[m], Unlisted}
         /\ thread \notin TornReaders => Readings(thread) = {config}
BY DEF TypeOK, Readings, Configs

(* What one call of the service does to its model, and to no other.        *)
LEMMA CallTypes ==
  ASSUME TypeOK, NEW m \in Models, NEW desired, NEW submission \in Submissions,
         HandleModelStateChanged(m, desired, submission)
  PROVE  /\ wanted' \in [Models -> Submissions \cup {NONE}]
         /\ replaced' \in [Models -> BOOLEAN]
         /\ overlapped' \in [Models -> BOOLEAN]
         /\ desired = "RUNNING" => wanted'[m] = submission
         /\ desired # "RUNNING" => wanted'[m] = NONE \/ overlapped'[m]
         /\ \A n \in Models \ {m} : wanted'[n] = wanted[n] /\ overlapped'[n] = overlapped[n]
BY DEF TypeOK, HandleModelStateChanged, StartModel, StopModel

(* The types hold at first.                                                *)
LEMMA InitTyped == ASSUME Init PROVE Typed
BY ConfigScheduleAssumption, RestTypes DEF Init, Typed, TypeOK, PollerAtRest

(* Every step keeps the types.                                             *)
LEMMA NextTyped == ASSUME Typed, [Next]_vars PROVE Typed'
<1>1. ASSUME NEW fetched \in Configs, PollerReads(fetched)
      PROVE  Typed'
  <2>1. /\ CompareConfigs(previous, fetched) \subseteq Listed(fetched)
        /\ CompareConfigs(previous, fetched) \subseteq Models
    BY DEF CompareConfigs, Listed
  <2>2. /\ poller.pc = "wait" /\ poller.calls = {}
        /\ UNCHANGED <<config, clock, scheduler, wanted, replaced, overlapped, crossed>>
    BY <1>1 DEF PollerReads, service, Typed
  <2>3. CASE previous' = {fetched} /\ UNCHANGED poller
    BY <2>2, <2>3 DEF Typed, TypeOK
  <2>4. CASE /\ poller' = [poller EXCEPT !.pc = "groups", !.fetched = fetched,
                                         !.changes = CompareConfigs(previous, fetched)]
             /\ UNCHANGED previous
    BY <2>1, <2>2, <2>4 DEF Typed, TypeOK
  <2> QED
    BY <1>1, <2>3, <2>4 DEF PollerReads
<1>2. CASE PollerFetch
  BY <1>1, <1>2, ReadingTypes DEF PollerFetch, Typed
<1>3. CASE PollerDies
  BY <1>3, RestTypes DEF PollerDies, PollerAtRest, service, Typed, TypeOK
<1>4. CASE PollerDone
  <2>1. /\ previous' = {poller.fetched} /\ poller' = PollerAtRest
        /\ UNCHANGED <<config, clock, scheduler, wanted, replaced, overlapped, crossed>>
    BY <1>4 DEF PollerDone, service
  <2> QED
    BY <2>1, RestTypes DEF PollerAtRest, Typed, TypeOK
<1>5. ASSUME NEW c \in Crunches, PollerGroup(c)
      PROVE  Typed'
  <2>1. Calls(c, poller.changes) \subseteq poller.changes
    BY DEF Calls
  <2>2. /\ poller.pc = "groups" /\ poller.calls = {}
        /\ poller' = [poller EXCEPT !.changes = @ \ ModelsOf(c), !.calls = Calls(c, poller.changes)]
        /\ UNCHANGED <<config, clock, previous, scheduler, wanted, replaced, overlapped, crossed>>
    BY <1>5 DEF PollerGroup, service
  <2> QED
    BY <2>1, <2>2 DEF Typed, TypeOK
<1>6. ASSUME NEW m \in Models, PollerCall(m)
      PROVE  Typed'
  <2>1. /\ m \in poller.calls
        /\ HandleModelStateChanged(m, poller.fetched[m].desired, poller.fetched[m].submission)
        /\ poller' = [poller EXCEPT !.calls = @ \ {m}]
        /\ UNCHANGED <<config, clock, previous, scheduler, crossed>>
    BY <1>6 DEF PollerCall
  <2>2. poller.fetched[m].submission \in Submissions
    BY <2>1, ListingTypes DEF Typed, TypeOK
  <2>3. /\ wanted' \in [Models -> Submissions \cup {NONE}]
        /\ replaced' \in [Models -> BOOLEAN]
        /\ overlapped' \in [Models -> BOOLEAN]
    BY <2>1, <2>2, CallTypes DEF Typed
  <2> QED
    BY <2>1, <2>3 DEF Typed, TypeOK
<1>7. ASSUME UNCHANGED <<config, clock, previous, poller, service>>, crossed' \subseteq Models,
             scheduler' \in [pc : {"wait", "fetch", "calls", "dead"},
                             known : [Scheduled -> ScheduleStatus \cup {NONE}],
                             changed : SUBSET Scheduled,
                             calls : SUBSET [model : Models, desired : {"RUNNING", "STOPPED"},
                                             submission : Submissions]]
      PROVE  Typed'
  BY <1>7 DEF Typed, TypeOK, service
<1>8. CASE SchedulerDetect
  <2>1. clock \in [Scheduled -> ScheduleStatus \cup {NONE}]
    BY DEF Typed, TypeOK
  <2> QED
    BY <1>7, <1>8, <2>1 DEF SchedulerDetect, Typed, TypeOK
<1>9. CASE SchedulerFetch
  <2>1. PICK list \in Readings("scheduler") :
          /\ scheduler' = [scheduler EXCEPT
              !.pc = "calls",
              !.changed = {},
              !.calls = UNION {IF scheduler.known[c] = "OUT_OF_SCHEDULE"
                               THEN Stops(c, list) ELSE Starts(c, list) : c \in scheduler.changed}]
          /\ crossed' = crossed \cup {m \in Models : MissedIn(list, m)}
    BY <1>9 DEF SchedulerFetch
  <2>2. list \in Configs
    BY ReadingTypes DEF Typed
  <2>3. \A c : /\ Stops(c, list) \subseteq [model : Models, desired : {"RUNNING", "STOPPED"},
                                            submission : Submissions]
               /\ Starts(c, list) \subseteq [model : Models, desired : {"RUNNING", "STOPPED"},
                                             submission : Submissions]
    BY <2>2, ListingTypes DEF Stops, Starts, Call, ModelsOf
  <2>4. UNION {IF scheduler.known[c] = "OUT_OF_SCHEDULE"
               THEN Stops(c, list) ELSE Starts(c, list) : c \in scheduler.changed}
          \in SUBSET [model : Models, desired : {"RUNNING", "STOPPED"}, submission : Submissions]
    BY <2>3
  <2> QED
    BY <1>7, <1>9, <2>1, <2>4 DEF SchedulerFetch, Typed, TypeOK
<1>10. CASE SchedulerDies
  <2>1. scheduler.known \in [Scheduled -> ScheduleStatus \cup {NONE}]
    BY DEF Typed, TypeOK
  <2> QED
    BY <1>7, <1>10, <2>1 DEF SchedulerDies, SchedulerAtRest, Typed, TypeOK
<1>11. CASE SchedulerDone
  BY <1>7, <1>11, RestTypes DEF SchedulerDone, Typed, TypeOK
<1>12. ASSUME NEW m \in Models, SchedulerCall(m)
       PROVE  Typed'
  <2>1. PICK call \in scheduler.calls :
          /\ call.model = m
          /\ HandleModelStateChanged(m, call.desired, call.submission)
          /\ scheduler' = [scheduler EXCEPT !.calls = @ \ {call}]
    BY <1>12 DEF SchedulerCall
  <2>2. call.submission \in Submissions
    BY DEF Typed, TypeOK
  <2>3. /\ wanted' \in [Models -> Submissions \cup {NONE}]
        /\ replaced' \in [Models -> BOOLEAN]
        /\ overlapped' \in [Models -> BOOLEAN]
    BY <2>1, <2>2, CallTypes DEF Typed
  <2>4. UNCHANGED <<config, clock, previous, poller, crossed>>
    BY <1>12 DEF SchedulerCall
  <2> QED
    BY <2>1, <2>3, <2>4 DEF Typed, TypeOK
<1>13. ASSUME NEW m \in Models, Edit(m)
       PROVE  Typed'
  <2>1. PICK listing \in Listings[m] : config' = [config EXCEPT ![m] = listing]
    BY <1>13 DEF Edit
  <2>2. listing \in Listing \cup {Unlisted}
    BY ListingsAssumption
  <2> QED
    BY <1>13, <2>1, <2>2 DEF Edit, service, Typed, TypeOK, Configs
<1>14. ASSUME NEW m \in Models, ReplacementEnds(m)
       PROVE  Typed'
  BY <1>14 DEF ReplacementEnds, Typed, TypeOK
<1>15. ASSUME NEW c \in Scheduled, ClockTurns(c)
       PROVE  Typed'
  <2>1. crossed' \subseteq Models
    BY <1>15 DEF ClockTurns, ModelsOf, Typed, TypeOK
  <2> QED
    BY <1>15, <2>1 DEF ClockTurns, service, Typed, TypeOK
<1>16. CASE Restart
  <2>1. /\ crossed' = {} /\ previous' = {}
        /\ poller' = PollerAtRest /\ scheduler' = SchedulerAtRest(NothingKnown)
        /\ UNCHANGED <<config, clock, wanted, replaced, overlapped>>
    BY <1>16 DEF Restart, service
  <2> QED
    BY <2>1, RestTypes DEF PollerAtRest, Typed, TypeOK
<1>17. CASE UNCHANGED vars
  BY <1>17 DEF vars, service, Typed, TypeOK
<1> QED
  BY <1>2, <1>3, <1>4, <1>5, <1>6, <1>8, <1>9, <1>10, <1>11, <1>12, <1>13, <1>14, <1>15, <1>16, <1>17
  DEF Next, Poller, PollerGoesOn, Scheduler, SchedulerGoesOn

(* Every variable of the two threads, the list and the service has its     *)
(* type, whatever threads die and whatever is read of the list.            *)
THEOREM ScheduleTyped == Spec => []TypeOK
<1>1. Init => Typed
  BY InitTyped
<1>2. Typed /\ [Next]_vars => Typed'
  BY NextTyped
<1>3. Typed => TypeOK
  BY DEF Typed
<1> QED
  BY <1>1, <1>2, <1>3, PTL DEF Spec

-----------------------------------------------------------------------------
(* What each thread has dealt with is followed.                            *)

(* The invariant holds at first.                                           *)
LEMMA InitFollows == ASSUME Init PROVE FollowInv
<1>1. /\ previous = {} /\ poller.pc = "wait" /\ poller.calls = {}
      /\ scheduler.pc = "wait" /\ scheduler.calls = {} /\ scheduler.changed = {}
      /\ scheduler.known = NothingKnown
  BY DEF Init, PollerAtRest, SchedulerAtRest
<1>2. \A m \in Models : PollerFollowed(m) /\ PollerCurrent(m)
  BY <1>1 DEF PollerFollowed, PollerCurrent
<1>3. \A m \in Models : CrunchOf[m] \in Scheduled => Owed(m)
  BY <1>1 DEF Init, Owed, NothingKnown, ScheduleStatus, NONE
<1> QED
  BY <1>1, <1>2, <1>3
  DEF FollowInv, SchedulerCurrent, UnscheduledFollowed, ClosedFollowed, OpenFollowed

(* The configuration poller goes on, without a call.                       *)
LEMMA PollerMoves ==
  ASSUME FollowInv, UNCHANGED <<config, clock, scheduler, service, crossed>>,
         \A m \in Models : m \in poller'.calls =>
            m \in poller.calls \/ CrunchOf[m] \notin Scheduled \/ clock[CrunchOf[m]] # "OUT_OF_SCHEDULE",
         \A m \in Models :
            CrunchOf[m] \notin Scheduled \/ clock[CrunchOf[m]] # "OUT_OF_SCHEDULE" =>
                (PollerFollowed(m) => PollerFollowed(m)'),
         \A m \in Models : PollerCurrent(m) => PollerCurrent(m)'
  PROVE  FollowInv'
<1>1. UNCHANGED <<wanted, overlapped>> /\ \A m \in Models : Owed(m)' = Owed(m)
  BY DEF service, Owed
<1>2. SchedulerCurrent'
  BY DEF FollowInv, SchedulerCurrent
<1>3. UnscheduledFollowed'
  BY DEF FollowInv, UnscheduledFollowed
<1>4. ClosedFollowed'
  BY <1>1 DEF FollowInv, ClosedFollowed
<1>5. OpenFollowed'
  BY <1>1 DEF FollowInv, OpenFollowed
<1> QED
  BY <1>2, <1>3, <1>4, <1>5 DEF FollowInv

(* PollerFetch: what is no change has been dealt with already.             *)
LEMMA PollerReadsFollows ==
  ASSUME Typed, FollowInv, PollerFetch
  PROVE  FollowInv'
<1>1. PICK fetched \in Readings("poller") : PollerReads(fetched)
  BY DEF PollerFetch
<1>2. /\ poller.pc = "wait" /\ poller.calls = {}
      /\ UNCHANGED <<config, clock, scheduler, service, crossed>>
      /\ UNCHANGED <<wanted, overlapped>>
  BY <1>1 DEF PollerReads, Typed, service
<1>3. fetched \in Configs /\ \A m \in Models : fetched[m] \in {config[m], Unlisted}
  BY <1>1, ReadingTypes DEF Typed
<1>4. ASSUME NEW m \in Models, PollerFollowed(m), m \notin CompareConfigs(previous, fetched)
      PROVE  Applied(m, fetched[m])
  <2>1. CASE fetched[m] = Unlisted
    BY <2>1 DEF Applied, Unlisted, NONE
  <2>2. CASE fetched[m] # Unlisted
    <3>1. PICK list \in previous : list[m] = fetched[m]
      BY <1>4, <2>2 DEF CompareConfigs, Listed
    <3>2. Applied(m, list[m])
      BY <1>2, <1>4 DEF PollerFollowed
    <3> QED
      BY <3>1, <3>2
  <2> QED
    BY <2>1, <2>2
<1>5. \A m \in Models : \A listing : Applied(m, listing)' = Applied(m, listing)
  BY <1>2 DEF Applied
<1>6. CASE /\ CompareConfigs(previous, fetched) = {}
           /\ previous' = {fetched} /\ UNCHANGED poller
  <2>1. \A m \in Models : PollerFollowed(m) => PollerFollowed(m)'
    BY <1>2, <1>4, <1>5, <1>6 DEF PollerFollowed
  <2>2. \A m \in Models : PollerCurrent(m)'
    BY <1>2, <1>3, <1>6 DEF PollerCurrent
  <2> QED
    BY <1>2, <1>6, <2>1, <2>2, PollerMoves
<1>7. CASE /\ poller' = [poller EXCEPT !.pc = "groups", !.fetched = fetched,
                                       !.changes = CompareConfigs(previous, fetched)]
           /\ UNCHANGED previous
  <2>1. /\ poller'.pc = "groups" /\ poller'.fetched = fetched /\ poller'.calls = {}
        /\ poller'.changes = CompareConfigs(previous, fetched)
    BY <1>2, <1>7 DEF Typed, TypeOK
  <2>2. \A m \in Models : PollerFollowed(m) => PollerFollowed(m)'
    BY <1>4, <1>5, <2>1 DEF PollerFollowed
  <2>3. \A m \in Models : PollerCurrent(m) => PollerCurrent(m)'
    BY <1>2, <1>3, <1>7, <2>1 DEF PollerCurrent
  <2> QED
    BY <1>2, <2>1, <2>2, <2>3, PollerMoves
<1> QED
  BY <1>1, <1>6, <1>7 DEF PollerReads

(* PollerDone: all changes have been dealt with.                           *)
LEMMA PollerDoneFollows ==
  ASSUME Typed, FollowInv, PollerDone
  PROVE  FollowInv'
<1>1. /\ poller.pc = "groups" /\ poller.calls = {} /\ poller.changes = {}
      /\ previous' = {poller.fetched} /\ poller'.pc = "wait" /\ poller'.calls = {}
      /\ UNCHANGED <<config, clock, scheduler, service, crossed>>
      /\ UNCHANGED <<wanted, overlapped>>
  BY DEF PollerDone, PollerAtRest, service
<1>2. \A m \in Models : PollerFollowed(m) => PollerFollowed(m)'
  BY <1>1 DEF PollerFollowed, Applied
<1>3. \A m \in Models : PollerCurrent(m) => PollerCurrent(m)'
  BY <1>1 DEF PollerCurrent
<1> QED
  BY <1>1, <1>2, <1>3, PollerMoves

(* PollerDies keeps the invariant.                                         *)
LEMMA PollerDiesFollows ==
  ASSUME Typed, FollowInv, PollerDies
  PROVE  FollowInv'
<1>1. /\ poller.pc = "wait" /\ poller'.pc = "dead" /\ poller'.calls = {}
      /\ UNCHANGED <<config, clock, previous, scheduler, service, crossed>>
      /\ UNCHANGED <<wanted, overlapped>>
  BY DEF PollerDies, PollerAtRest, service
<1>2. \A m \in Models : PollerFollowed(m) => PollerFollowed(m)'
  BY <1>1 DEF PollerFollowed, Applied
<1>3. \A m \in Models : PollerCurrent(m) => PollerCurrent(m)'
  BY <1>1 DEF PollerCurrent
<1> QED
  BY <1>1, <1>2, <1>3, PollerMoves

(* PollerGroup: changes are skipped in closed crunches only.               *)
LEMMA PollerGroupFollows ==
  ASSUME Typed, FollowInv, NEW c \in Crunches, PollerGroup(c)
  PROVE  FollowInv'
<1>1. /\ poller.pc = "groups" /\ poller.calls = {}
      /\ poller'.pc = "groups" /\ poller'.fetched = poller.fetched
      /\ poller'.changes = poller.changes \ ModelsOf(c)
      /\ poller'.calls = Calls(c, poller.changes)
      /\ UNCHANGED <<config, clock, previous, scheduler, service, crossed>>
      /\ UNCHANGED <<wanted, overlapped>>
  BY DEF PollerGroup, Typed, TypeOK, service
<1>2. \A m \in Models : m \in Calls(c, poller.changes) =>
                           CrunchOf[m] \notin Scheduled \/ clock[CrunchOf[m]] # "OUT_OF_SCHEDULE"
  BY DEF Calls, CanRunNow, ModelsOf
<1>3. ASSUME NEW m \in Models,
             CrunchOf[m] \notin Scheduled \/ clock[CrunchOf[m]] # "OUT_OF_SCHEDULE",
             PollerFollowed(m)
      PROVE  PollerFollowed(m)'
  <2>1. CanRunNow(CrunchOf[m])
    BY <1>3 DEF CanRunNow, Typed, TypeOK, ScheduleStatus
  <2>2. m \in poller.changes => m \in poller'.changes \cup poller'.calls
    BY <1>1, <2>1 DEF Calls, ModelsOf
  <2> QED
    BY <1>1, <1>3, <2>2 DEF PollerFollowed, Applied
<1>4. \A m \in Models : PollerCurrent(m) => PollerCurrent(m)'
  BY <1>1 DEF PollerCurrent
<1> QED
  BY <1>1, <1>2, <1>3, <1>4, PollerMoves

(* PollerCall: the listing that was read is followed.                      *)
LEMMA PollerCallFollows ==
  ASSUME Typed, FollowInv, NEW m \in Models, PollerCall(m)
  PROVE  FollowInv'
<1>1. /\ m \in poller.calls
      /\ HandleModelStateChanged(m, poller.fetched[m].desired, poller.fetched[m].submission)
      /\ poller' = [poller EXCEPT !.calls = @ \ {m}]
      /\ UNCHANGED <<config, clock, previous, scheduler, crossed>>
  BY DEF PollerCall
<1>2. /\ poller.pc = "groups" /\ poller'.pc = "groups" /\ poller'.fetched = poller.fetched
      /\ poller'.changes = poller.changes /\ poller'.calls = poller.calls \ {m}
  BY <1>1 DEF Typed, TypeOK
<1>3. /\ poller.fetched[m].submission \in Submissions
      /\ poller.fetched[m].desired \in {"RUNNING", "STOPPED"}
  BY <1>1, ListingTypes DEF Typed, TypeOK
<1>4. /\ Applied(m, poller.fetched[m])'
      /\ \A n \in Models \ {m} : wanted'[n] = wanted[n] /\ overlapped'[n] = overlapped[n]
  BY <1>1, <1>2, <1>3, CallTypes DEF Typed, Applied
<1>5. PollerFollowed(m)'
  BY <1>2, <1>4 DEF PollerFollowed
<1>6. \A n \in Models \ {m} : PollerFollowed(n) => PollerFollowed(n)'
  BY <1>2, <1>4 DEF PollerFollowed, Applied
<1>7. \A n \in Models : (Owed(n)' = Owed(n)) /\ (PollerCurrent(n) => PollerCurrent(n)')
  BY <1>1, <1>2 DEF Owed, PollerCurrent
<1>8. SchedulerCurrent'
  BY <1>1 DEF FollowInv, SchedulerCurrent
<1>9. UnscheduledFollowed'
  BY <1>1, <1>5, <1>6 DEF FollowInv, UnscheduledFollowed
<1>10. ClosedFollowed'
  BY <1>1, <1>2, <1>4, <1>7 DEF FollowInv, ClosedFollowed
<1>11. OpenFollowed'
  BY <1>1, <1>5, <1>6, <1>7 DEF FollowInv, OpenFollowed
<1> QED
  BY <1>8, <1>9, <1>10, <1>11 DEF FollowInv

(* The schedule poller goes on, without a call.                            *)
LEMMA SchedulerMoves ==
  ASSUME FollowInv, UNCHANGED <<config, clock, previous, poller, service>>, SchedulerCurrent',
         crossed \subseteq crossed', scheduler'.pc # "dead" => scheduler.pc # "dead",
         scheduler'.pc # "dead" =>
            \A m \in Models \ crossed' : CrunchOf[m] \in Scheduled =>
                /\ Owed(m)' => Owed(m)
                /\ Owed(m) => \/ Owed(m)'
                              \/ IF clock[CrunchOf[m]] = "OUT_OF_SCHEDULE"
                                 THEN wanted[m] = NONE
                                 ELSE config[m].desired # "RUNNING"
  PROVE  FollowInv'
<1>1. UNCHANGED <<wanted, overlapped>>
  BY DEF service
<1>2. \A m \in Models : (PollerFollowed(m)' = PollerFollowed(m)) /\ (PollerCurrent(m)' = PollerCurrent(m))
  BY <1>1 DEF PollerFollowed, PollerCurrent, Applied
<1>3. UnscheduledFollowed'
  BY <1>2 DEF FollowInv, UnscheduledFollowed
<1>4. ClosedFollowed'
  BY <1>1 DEF FollowInv, ClosedFollowed
<1>5. OpenFollowed'
  BY <1>2 DEF FollowInv, OpenFollowed
<1> QED
  BY <1>3, <1>4, <1>5 DEF FollowInv

(* SchedulerDetect keeps the invariant.                                    *)
LEMMA SchedulerDetectFollows ==
  ASSUME Typed, FollowInv, SchedulerDetect
  PROVE  FollowInv'
<1>1. /\ scheduler.pc = "wait" /\ scheduler.calls = {} /\ scheduler.changed = {}
      /\ scheduler'.pc = "fetch" /\ scheduler'.known = clock /\ scheduler'.calls = {}
      /\ scheduler'.changed = {c \in Scheduled : scheduler.known[c] # clock[c]}
      /\ UNCHANGED <<config, clock, previous, poller, service, crossed>>
  BY DEF SchedulerDetect, Typed, TypeOK, FollowInv, SchedulerCurrent
<1>2. SchedulerCurrent'
  BY <1>1 DEF SchedulerCurrent
<1>3. \A m \in Models : Owed(m)' <=> Owed(m)
  BY <1>1 DEF Owed
<1> QED
  BY <1>1, <1>2, <1>3, SchedulerMoves

(* SchedulerFetch: the calls that are owed are the calls to make, but for  *)
(* the models that were left out.                                          *)
LEMMA SchedulerFetchFollows ==
  ASSUME Typed, FollowInv, SchedulerFetch
  PROVE  FollowInv'
<1>1. PICK list \in Readings("scheduler") :
        /\ scheduler' = [scheduler EXCEPT
            !.pc = "calls",
            !.changed = {},
            !.calls = UNION {IF scheduler.known[c] = "OUT_OF_SCHEDULE"
                             THEN Stops(c, list) ELSE Starts(c, list) : c \in scheduler.changed}]
        /\ crossed' = crossed \cup {m \in Models : MissedIn(list, m)}
  BY DEF SchedulerFetch
<1> DEFINE CallsFor(c) == IF scheduler.known[c] = "OUT_OF_SCHEDULE"
                          THEN Stops(c, list) ELSE Starts(c, list)
<1>2. /\ scheduler.pc = "fetch" /\ scheduler.calls = {}
      /\ scheduler'.pc = "calls" /\ scheduler'.known = scheduler.known
      /\ scheduler'.changed = {} /\ scheduler'.calls = UNION {CallsFor(c) : c \in scheduler.changed}
      /\ UNCHANGED <<config, clock, previous, poller, service>>
  BY <1>1 DEF SchedulerFetch, FollowInv, SchedulerCurrent, Typed, TypeOK
<1>3. /\ scheduler.changed \subseteq Scheduled
      /\ \A m \in Models : list[m] \in {config[m], Unlisted}
      /\ \A m \in Models \ crossed : CrunchOf[m] \in scheduler.changed =>
            scheduler.known[CrunchOf[m]] = clock[CrunchOf[m]]
      /\ crossed \subseteq crossed'
  BY <1>1, ReadingTypes DEF Typed, TypeOK, FollowInv, SchedulerCurrent
<1>4. \A c : \A call \in CallsFor(c) :
        /\ call.model \in Models /\ CrunchOf[call.model] = c
        /\ IF scheduler.known[c] = "OUT_OF_SCHEDULE"
           THEN call.desired = "STOPPED"
           ELSE /\ call.desired = "RUNNING"
                /\ list[call.model].desired = "RUNNING"
                /\ list[call.model].submission = call.submission
  BY DEF Stops, Starts, Call, ModelsOf
<1>5. SchedulerCurrent'
  <2>1. \A call \in scheduler'.calls : CrunchOf[call.model] \in Scheduled
    BY <1>2, <1>3, <1>4
  <2>2. ASSUME NEW call \in scheduler'.calls, call.model \notin crossed'
        PROVE  /\ scheduler.known[CrunchOf[call.model]] = clock[CrunchOf[call.model]]
               /\ IF clock[CrunchOf[call.model]] = "OUT_OF_SCHEDULE"
                  THEN call.desired = "STOPPED"
                  ELSE /\ call.desired = "RUNNING"
                       /\ config[call.model].desired = "RUNNING"
                       /\ config[call.model].submission = call.submission
    <3>1. PICK c \in scheduler.changed : call \in CallsFor(c)
      BY <1>2, <2>2
    <3>2. /\ call.model \in Models \ crossed /\ CrunchOf[call.model] = c
          /\ list[call.model] \in {config[call.model], Unlisted}
      BY <1>3, <1>4, <2>2, <3>1
    <3> QED
      BY <1>3, <1>4, <3>1, <3>2 DEF Unlisted, NONE
  <2> QED
    BY <1>2, <2>1, <2>2 DEF SchedulerCurrent
<1>6. ASSUME NEW m \in Models \ crossed', CrunchOf[m] \in Scheduled
      PROVE  /\ Owed(m)' => Owed(m)
             /\ Owed(m) => \/ Owed(m)'
                           \/ IF clock[CrunchOf[m]] = "OUT_OF_SCHEDULE"
                              THEN wanted[m] = NONE
                              ELSE config[m].desired # "RUNNING"
  <2> DEFINE c == CrunchOf[m]
  <2>1. /\ Owed(m) <=> scheduler.known[c] # clock[c] \/ c \in scheduler.changed
        /\ Owed(m)' <=> \/ scheduler.known[c] # clock[c]
                        \/ \E call \in scheduler'.calls : call.model = m
    BY <1>2, <1>6 DEF Owed
  <2>2. (\E call \in scheduler'.calls : call.model = m) => c \in scheduler.changed
    BY <1>2, <1>4
  <2>3. ASSUME c \in scheduler.changed, m \in Listed(list),
               scheduler.known[c] = "OUT_OF_SCHEDULE" \/ list[m].desired = "RUNNING"
        PROVE  \E call \in scheduler'.calls : call.model = m
    <3>1. CASE scheduler.known[c] = "OUT_OF_SCHEDULE"
      <4>1. Call(m, "STOPPED", list[m].submission) \in CallsFor(c)
        BY <2>3, <3>1 DEF Stops, ModelsOf
      <4> QED
        BY <1>2, <2>3, <4>1 DEF Call
    <3>2. CASE scheduler.known[c] # "OUT_OF_SCHEDULE"
      <4>1. m \in {n \in ModelsOf(c) : list[n].desired = "RUNNING"}
        BY <2>3, <3>2 DEF ModelsOf
      <4>2. Call(m, "RUNNING", list[m].submission) \in CallsFor(c)
        BY <3>2, <4>1 DEF Starts
      <4> QED
        BY <1>2, <2>3, <4>2 DEF Call
    <3> QED
      BY <3>1, <3>2
  <2>4. c \in scheduler.changed => scheduler.known[c] = clock[c]
    BY <1>3
  <2>5. c \in scheduler.changed /\ m \notin Listed(list) =>
            IF clock[c] = "OUT_OF_SCHEDULE" THEN wanted[m] = NONE ELSE config[m].desired # "RUNNING"
    BY <1>1, <1>6, <2>4 DEF MissedIn
  <2>6. m \in Listed(list) => list[m] = config[m]
    BY <1>3 DEF Listed
  <2> QED
    BY <2>1, <2>2, <2>3, <2>4, <2>5, <2>6
<1> QED
  BY <1>2, <1>3, <1>5, <1>6, SchedulerMoves

(* SchedulerDies keeps the invariant.                                      *)
LEMMA SchedulerDiesFollows ==
  ASSUME Typed, FollowInv, SchedulerDies
  PROVE  FollowInv'
<1>1. /\ scheduler'.pc = "dead" /\ scheduler'.calls = {} /\ scheduler'.changed = {}
      /\ UNCHANGED <<config, clock, previous, poller, service, crossed>>
  BY DEF SchedulerDies, SchedulerAtRest
<1>2. SchedulerCurrent'
  BY <1>1 DEF SchedulerCurrent
<1> QED
  BY <1>1, <1>2, SchedulerMoves

(* SchedulerDone keeps the invariant.                                      *)
LEMMA SchedulerDoneFollows ==
  ASSUME Typed, FollowInv, SchedulerDone
  PROVE  FollowInv'
<1>1. /\ scheduler.pc = "calls" /\ scheduler.calls = {} /\ scheduler.changed = {}
      /\ scheduler'.pc = "wait" /\ scheduler'.calls = {} /\ scheduler'.changed = {}
      /\ scheduler'.known = scheduler.known
      /\ UNCHANGED <<config, clock, previous, poller, service, crossed>>
  BY DEF SchedulerDone, SchedulerAtRest, FollowInv, SchedulerCurrent
<1>2. SchedulerCurrent'
  BY <1>1 DEF SchedulerCurrent
<1>3. \A m \in Models : Owed(m)' <=> Owed(m)
  BY <1>1 DEF Owed
<1> QED
  BY <1>1, <1>2, <1>3, SchedulerMoves

(* SchedulerCall: a call that was owed has been made.                      *)
LEMMA SchedulerCallFollows ==
  ASSUME Typed, FollowInv, NEW m \in Models, SchedulerCall(m)
  PROVE  FollowInv'
<1>1. PICK call \in scheduler.calls :
        /\ call.model = m
        /\ HandleModelStateChanged(m, call.desired, call.submission)
        /\ scheduler' = [scheduler EXCEPT !.calls = @ \ {call}]
  BY DEF SchedulerCall
<1>2. UNCHANGED <<config, clock, previous, poller, crossed>>
  BY DEF SchedulerCall
<1>3. /\ scheduler.pc = "calls" /\ scheduler'.pc = "calls" /\ scheduler'.known = scheduler.known
      /\ scheduler'.changed = scheduler.changed /\ scheduler'.calls = scheduler.calls \ {call}
  BY <1>1 DEF Typed, TypeOK, FollowInv, SchedulerCurrent
<1>4. /\ CrunchOf[m] \in Scheduled
      /\ call.submission \in Submissions
      /\ m \notin crossed =>
            IF clock[CrunchOf[m]] = "OUT_OF_SCHEDULE"
            THEN call.desired = "STOPPED"
            ELSE /\ call.desired = "RUNNING"
                 /\ config[m].desired = "RUNNING"
                 /\ config[m].submission = call.submission
  BY <1>1 DEF FollowInv, SchedulerCurrent, Typed, TypeOK
<1>5. /\ call.desired = "RUNNING" => wanted'[m] = call.submission
      /\ call.desired # "RUNNING" => wanted'[m] = NONE \/ overlapped'[m]
      /\ \A n \in Models \ {m} : wanted'[n] = wanted[n] /\ overlapped'[n] = overlapped[n]
  BY <1>1, <1>4, CallTypes DEF Typed
<1>6. Owed(m)
  BY <1>1, <1>4 DEF Owed
<1>7. \A n \in Models \ {m} : /\ Owed(n)' <=> Owed(n)
                              /\ PollerFollowed(n)' <=> PollerFollowed(n)
  BY <1>1, <1>2, <1>3, <1>5 DEF Owed, PollerFollowed, Applied
<1>8. \A n \in Models : PollerCurrent(n)' <=> PollerCurrent(n)
  BY <1>2 DEF PollerCurrent
<1>9. SchedulerCurrent'
  BY <1>1, <1>2, <1>3 DEF FollowInv, SchedulerCurrent
<1>10. UnscheduledFollowed'
  BY <1>2, <1>4, <1>7 DEF FollowInv, UnscheduledFollowed
<1>11. ASSUME m \notin crossed, clock[CrunchOf[m]] = "OUT_OF_SCHEDULE"
       PROVE  wanted'[m] = NONE \/ overlapped'[m]
  BY <1>4, <1>5, <1>11
<1>12. ClosedFollowed'
  <2> SUFFICES ASSUME NEW n \in Models \ crossed,
                      CrunchOf[n] \in Scheduled, clock[CrunchOf[n]] = "OUT_OF_SCHEDULE"
               PROVE  /\ n \notin poller.calls
                      /\ Owed(n)' \/ wanted'[n] = NONE \/ overlapped'[n]
    BY <1>2 DEF ClosedFollowed
  <2>1. /\ n \notin poller.calls
        /\ Owed(n) \/ wanted[n] = NONE \/ overlapped[n]
    BY <1>3 DEF FollowInv, ClosedFollowed
  <2>2. CASE n = m
    BY <1>11, <2>1, <2>2
  <2>3. CASE n # m
    BY <1>5, <1>7, <2>1, <2>3
  <2> QED
    BY <2>2, <2>3
<1>13. ASSUME m \notin crossed, clock[CrunchOf[m]] = "IN_SCHEDULE"
       PROVE  PollerFollowed(m)'
  <2>1. PollerCurrent(m)
    BY <1>3, <1>4, <1>6, <1>13 DEF FollowInv, OpenFollowed
  <2>2. Applied(m, config[m])' /\ Applied(m, Unlisted)'
    BY <1>2, <1>4, <1>5, <1>13 DEF Applied, Unlisted, NONE
  <2> QED
    BY <1>2, <2>1, <2>2 DEF PollerCurrent, PollerFollowed, Applied
<1>14. OpenFollowed'
  <2> SUFFICES ASSUME NEW n \in Models \ crossed,
                      CrunchOf[n] \in Scheduled, clock[CrunchOf[n]] = "IN_SCHEDULE"
               PROVE  /\ Owed(n)' => PollerCurrent(n)'
                      /\ PollerFollowed(n)' \/ (Owed(n)' /\ config'[n].desired = "RUNNING")
    BY <1>2 DEF OpenFollowed
  <2>1. /\ Owed(n) => PollerCurrent(n)
        /\ PollerFollowed(n) \/ (Owed(n) /\ config[n].desired = "RUNNING")
    BY <1>3 DEF FollowInv, OpenFollowed
  <2>2. CASE n = m
    BY <1>6, <1>8, <1>13, <2>1, <2>2
  <2>3. CASE n # m
    BY <1>2, <1>7, <1>8, <2>1, <2>3
  <2> QED
    BY <2>2, <2>3
<1> QED
  BY <1>9, <1>10, <1>12, <1>14 DEF FollowInv

(* Edit: a listing that changes while a start is owed crosses it.          *)
LEMMA EditFollows ==
  ASSUME Typed, FollowInv, NEW m \in Models, Edit(m)
  PROVE  FollowInv'
<1>1. /\ \A n \in Models \ {m} : config'[n] = config[n]
      /\ UNCHANGED <<clock, previous, poller, scheduler>>
      /\ UNCHANGED <<wanted, overlapped>>
      /\ crossed' = IF Owed(m) /\ CanRunNow(CrunchOf[m]) THEN crossed \cup {m} ELSE crossed
  BY DEF Edit, service, Typed, TypeOK, Configs
<1>2. /\ \A n \in Models \ {m} : n \in crossed' <=> n \in crossed
      /\ crossed \subseteq crossed'
      /\ m \notin crossed' => m \notin crossed /\ (Owed(m) => ~CanRunNow(CrunchOf[m]))
  BY <1>1
<1>3. \A n \in Models : /\ Owed(n)' <=> Owed(n)
                        /\ PollerFollowed(n)' <=> PollerFollowed(n)
  BY <1>1 DEF Owed, PollerFollowed, Applied
<1>4. \A n \in Models \ {m} : PollerCurrent(n)' <=> PollerCurrent(n)
  BY <1>1 DEF PollerCurrent
<1>5. ASSUME m \notin crossed', Owed(m)
      PROVE  /\ CrunchOf[m] \in Scheduled
             /\ clock[CrunchOf[m]] = "OUT_OF_SCHEDULE"
  BY <1>2, <1>5 DEF CanRunNow, Typed, TypeOK, ScheduleStatus
<1>6. SchedulerCurrent'
  <2>1. ASSUME NEW call \in scheduler.calls, call.model \notin crossed'
        PROVE  /\ scheduler.known[CrunchOf[call.model]] = clock[CrunchOf[call.model]]
               /\ IF clock[CrunchOf[call.model]] = "OUT_OF_SCHEDULE"
                  THEN call.desired = "STOPPED"
                  ELSE /\ call.desired = "RUNNING"
                       /\ config'[call.model].desired = "RUNNING"
                       /\ config'[call.model].submission = call.submission
    <3>1. /\ call.model \in Models \ crossed /\ CrunchOf[call.model] \in Scheduled
          /\ scheduler.known[CrunchOf[call.model]] = clock[CrunchOf[call.model]]
          /\ IF clock[CrunchOf[call.model]] = "OUT_OF_SCHEDULE"
             THEN call.desired = "STOPPED"
             ELSE /\ call.desired = "RUNNING"
                  /\ config[call.model].desired = "RUNNING"
                  /\ config[call.model].submission = call.submission
      BY <1>2, <2>1 DEF FollowInv, SchedulerCurrent, Typed, TypeOK
    <3>2. call.model = m => Owed(m)
      BY <2>1, <3>1 DEF Owed
    <3> QED
      BY <1>1, <1>5, <2>1, <3>1, <3>2
  <2> QED
    BY <1>1, <1>2, <2>1 DEF FollowInv, SchedulerCurrent
<1>7. UnscheduledFollowed'
  BY <1>3 DEF FollowInv, UnscheduledFollowed
<1>8. ClosedFollowed'
  BY <1>1, <1>2, <1>3 DEF FollowInv, ClosedFollowed
<1>9. OpenFollowed'
  BY <1>1, <1>2, <1>3, <1>4, <1>5 DEF FollowInv, OpenFollowed
<1> QED
  BY <1>6, <1>7, <1>8, <1>9 DEF FollowInv

(* ClockTurns: what the schedule poller did before is over when a schedule *)
(* turns, and the configuration poller has nothing older in hand when it   *)
(* opens.                                                                  *)
LEMMA ClockTurnsFollows ==
  ASSUME Typed, FollowInv, NEW c \in Scheduled, ClockTurns(c)
  PROVE  FollowInv'
<1>1. /\ clock'[c] \in ScheduleStatus \ {clock[c]}
      /\ \A d \in Scheduled \ {c} : clock'[d] = clock[d]
      /\ UNCHANGED <<config, previous, poller, scheduler>>
      /\ UNCHANGED <<wanted, overlapped>>
      /\ crossed' = {m \in crossed : CrunchOf[m] = c => ~MadeGoodByTurn(m)}
                        \cup {m \in ModelsOf(c) : CrossedByTurn(m)}
  BY DEF ClockTurns, service, Typed, TypeOK
<1>2. \A m \in Models : CrunchOf[m] # c => (m \in crossed' <=> m \in crossed)
  BY <1>1 DEF ModelsOf
<1>3. \A m \in Models : CrunchOf[m] = c /\ m \notin crossed' =>
        /\ ~Owed(m)
        /\ clock[c] = "IN_SCHEDULE" => m \notin poller.calls
        /\ clock[c] = "OUT_OF_SCHEDULE" =>
            PollerCurrent(m) /\ (m \notin crossed \/ config[m].desired = "RUNNING")
  BY <1>1 DEF ModelsOf, CrossedByTurn, MadeGoodByTurn, CanRunNow
<1>4. \A m \in Models : CrunchOf[m] = c /\ ~Owed(m) =>
        /\ c \notin scheduler.changed
        /\ \A call \in scheduler.calls : call.model # m
        /\ scheduler.known[c] = clock[c]
  BY DEF Owed
<1>5. \A m \in Models : CrunchOf[m] = c /\ m \notin crossed' => Owed(m)'
  BY <1>1, <1>3, <1>4 DEF Owed
<1>6. \A m \in Models : /\ PollerFollowed(m)' <=> PollerFollowed(m)
                        /\ PollerCurrent(m)' <=> PollerCurrent(m)
                        /\ CrunchOf[m] # c => (Owed(m)' <=> Owed(m))
  BY <1>1 DEF PollerFollowed, PollerCurrent, Applied, Owed
<1>7. SchedulerCurrent'
  <2>1. ASSUME NEW m \in Models \ crossed', CrunchOf[m] \in scheduler.changed
        PROVE  scheduler.known[CrunchOf[m]] = clock'[CrunchOf[m]]
    <3>1. CrunchOf[m] # c /\ CrunchOf[m] \in Scheduled /\ m \notin crossed
      BY <1>2, <1>3, <1>4, <2>1 DEF Typed, TypeOK
    <3> QED
      BY <1>1, <2>1, <3>1 DEF FollowInv, SchedulerCurrent
  <2>2. ASSUME NEW call \in scheduler.calls, call.model \notin crossed'
        PROVE  /\ CrunchOf[call.model] # c /\ CrunchOf[call.model] \in Scheduled
               /\ call.model \notin crossed
    <3>1. call.model \in Models /\ CrunchOf[call.model] \in Scheduled
      BY <2>2 DEF FollowInv, SchedulerCurrent, Typed, TypeOK
    <3> QED
      BY <1>2, <1>3, <1>4, <2>2, <3>1
  <2> QED
    BY <1>1, <2>1, <2>2 DEF FollowInv, SchedulerCurrent
<1>8. UnscheduledFollowed'
  BY <1>6 DEF FollowInv, UnscheduledFollowed
<1>9. ClosedFollowed'
  <2> SUFFICES ASSUME NEW m \in Models \ crossed', CrunchOf[m] \in Scheduled,
                      clock'[CrunchOf[m]] = "OUT_OF_SCHEDULE"
               PROVE  /\ m \notin poller.calls
                      /\ scheduler.pc = "dead" \/ Owed(m)' \/ wanted[m] = NONE \/ overlapped[m]
    BY <1>1 DEF ClosedFollowed
  <2>1. CASE CrunchOf[m] = c
    BY <1>1, <1>3, <1>5, <2>1 DEF ScheduleStatus, Typed, TypeOK
  <2>2. CASE CrunchOf[m] # c
    BY <1>1, <1>2, <1>6, <2>2 DEF FollowInv, ClosedFollowed
  <2> QED
    BY <2>1, <2>2
<1>10. ASSUME NEW m \in Models \ crossed', CrunchOf[m] = c, clock'[c] = "IN_SCHEDULE",
              scheduler.pc # "dead"
       PROVE  PollerCurrent(m) /\ (PollerFollowed(m) \/ config[m].desired = "RUNNING")
  <2>1. clock[c] = "OUT_OF_SCHEDULE"
    BY <1>1, <1>10 DEF ScheduleStatus, Typed, TypeOK
  <2>2. PollerCurrent(m) /\ ~Owed(m) /\ (m \notin crossed \/ config[m].desired = "RUNNING")
    BY <1>3, <1>10, <2>1
  <2>3. ASSUME m \notin crossed, config[m].desired # "RUNNING"
        PROVE  PollerFollowed(m)
    <3>1. wanted[m] = NONE \/ overlapped[m]
      BY <1>10, <2>1, <2>2, <2>3 DEF FollowInv, ClosedFollowed
    <3>2. Applied(m, config[m]) /\ Applied(m, Unlisted)
      BY <2>3, <3>1 DEF Applied, Unlisted, NONE
    <3> QED
      BY <2>2, <3>2 DEF PollerCurrent, PollerFollowed
  <2> QED
    BY <2>2, <2>3
<1>11. OpenFollowed'
  <2> SUFFICES ASSUME NEW m \in Models \ crossed', CrunchOf[m] \in Scheduled,
                      clock'[CrunchOf[m]] = "IN_SCHEDULE", scheduler.pc # "dead"
               PROVE  /\ Owed(m)' => PollerCurrent(m)'
                      /\ PollerFollowed(m)' \/ (Owed(m)' /\ config'[m].desired = "RUNNING")
    BY <1>1 DEF OpenFollowed
  <2>1. CASE CrunchOf[m] = c
    BY <1>1, <1>5, <1>6, <1>10, <2>1
  <2>2. CASE CrunchOf[m] # c
    <3>1. /\ Owed(m) => PollerCurrent(m)
          /\ PollerFollowed(m) \/ (Owed(m) /\ config[m].desired = "RUNNING")
      BY <1>1, <1>2, <2>2 DEF FollowInv, OpenFollowed
    <3> QED
      BY <1>1, <1>6, <2>2, <3>1
  <2> QED
    BY <2>1, <2>2
<1> QED
  BY <1>7, <1>8, <1>9, <1>11 DEF FollowInv

(* Restart keeps the invariant.                                            *)
LEMMA RestartFollows ==
  ASSUME Typed, FollowInv, Restart
  PROVE  FollowInv'
<1>1. /\ previous' = {} /\ poller'.pc = "wait" /\ poller'.calls = {}
      /\ scheduler'.pc = "wait" /\ scheduler'.calls = {} /\ scheduler'.changed = {}
      /\ scheduler'.known = NothingKnown
      /\ UNCHANGED <<config, clock>>
  BY DEF Restart, PollerAtRest, SchedulerAtRest
<1>2. \A m \in Models : PollerFollowed(m)' /\ PollerCurrent(m)'
  BY <1>1 DEF PollerFollowed, PollerCurrent
<1>3. \A m \in Models : CrunchOf[m] \in Scheduled => Owed(m)'
  BY <1>1 DEF Owed, NothingKnown, ScheduleStatus, NONE, Typed, TypeOK
<1> QED
  BY <1>1, <1>2, <1>3
  DEF FollowInv, SchedulerCurrent, UnscheduledFollowed, ClosedFollowed, OpenFollowed

(* Nothing that the invariant speaks of changes.                           *)
LEMMA SameFollows ==
  ASSUME FollowInv,
         UNCHANGED <<config, clock, previous, poller, scheduler, wanted, overlapped, crossed>>
  PROVE  FollowInv'
<1>1. \A m \in Models : /\ Owed(m)' <=> Owed(m)
                        /\ PollerFollowed(m)' <=> PollerFollowed(m)
                        /\ PollerCurrent(m)' <=> PollerCurrent(m)
  BY DEF Owed, PollerFollowed, PollerCurrent, Applied
<1>2. SchedulerCurrent'
  BY DEF FollowInv, SchedulerCurrent
<1>3. UnscheduledFollowed' /\ ClosedFollowed' /\ OpenFollowed'
  BY <1>1 DEF FollowInv, UnscheduledFollowed, ClosedFollowed, OpenFollowed
<1> QED
  BY <1>2, <1>3 DEF FollowInv

(* Every step keeps the invariant.                                         *)
LEMMA NextFollows ==
  ASSUME Typed, FollowInv, [Next]_vars
  PROVE  FollowInv'
<1>1. CASE Poller
  BY <1>1, PollerReadsFollows, PollerDiesFollows, PollerDoneFollows, PollerGroupFollows,
     PollerCallFollows DEF Poller, PollerGoesOn
<1>2. CASE Scheduler
  BY <1>2, SchedulerDetectFollows, SchedulerFetchFollows, SchedulerDiesFollows,
     SchedulerDoneFollows, SchedulerCallFollows DEF Scheduler, SchedulerGoesOn
<1>3. ASSUME NEW m \in Models, ReplacementEnds(m)
      PROVE  FollowInv'
  BY <1>3, SameFollows DEF ReplacementEnds
<1>4. CASE UNCHANGED vars
  BY <1>4, SameFollows DEF vars, service
<1> QED
  BY <1>1, <1>2, <1>3, <1>4, EditFollows, ClockTurnsFollows, RestartFollows DEF Next

(* What each thread has seen of a model and dealt with is followed, and    *)
(* what it has not is owed a call, whatever restarts and whatever is read  *)
(* half written, but for what two changes at once have left to chance.     *)
THEOREM ScheduleInvariance == Spec => [](Typed /\ FollowInv)
<1>1. Init => Typed /\ FollowInv
  BY InitTyped, InitFollows
<1>2. Typed /\ FollowInv /\ [Next]_vars => (Typed /\ FollowInv)'
  BY NextTyped, NextFollows
<1> QED
  BY <1>1, <1>2, PTL DEF Spec

(* A listing that both threads have seen is followed.                      *)
LEMMA SettledApplied ==
  ASSUME Typed, FollowInv, NEW m \in Models \ crossed, Settled(m), config[m] # Unlisted
  PROVE  IF CanRunNow(CrunchOf[m]) THEN Applied(m, config[m])
                                   ELSE wanted[m] = NONE \/ overlapped[m]
<1>1. poller.pc = "wait" /\ previous = {config}
  BY DEF Settled
<1>2. PollerFollowed(m) => Applied(m, config[m])
  BY <1>1 DEF PollerFollowed
<1>3. CASE CrunchOf[m] \notin Scheduled
  BY <1>2, <1>3 DEF FollowInv, UnscheduledFollowed, CanRunNow
<1>4. CASE CrunchOf[m] \in Scheduled
  <2>1. scheduler.pc # "dead" /\ ~Owed(m)
    BY <1>4 DEF Settled
  <2>2. clock[CrunchOf[m]] \in {"IN_SCHEDULE", "OUT_OF_SCHEDULE"}
    BY <1>4 DEF Typed, TypeOK, ScheduleStatus
  <2>3. CASE clock[CrunchOf[m]] = "IN_SCHEDULE"
    BY <1>2, <1>4, <2>1, <2>3 DEF FollowInv, OpenFollowed, CanRunNow
  <2>4. CASE clock[CrunchOf[m]] = "OUT_OF_SCHEDULE"
    BY <1>4, <2>1, <2>4 DEF FollowInv, ClosedFollowed, CanRunNow
  <2> QED
    BY <2>2, <2>3, <2>4
<1> QED
  BY <1>3, <1>4

(* A model listed RUNNING in a crunch that is open has its listed          *)
(* submission wanted, once both threads have looked: whatever was skipped  *)
(* while the crunch was closed, half read or lost in a restart is made up  *)
(* for, and a model that is crossed is no longer after the next opening,   *)
(* closing or restart that does not cross it again.                        *)
THEOREM RunningIsFollowed == Spec => []RunningFollowed
<1>1. Typed /\ FollowInv => RunningFollowed
  <2> SUFFICES ASSUME Typed, FollowInv, NEW m \in Models \ crossed, Settled(m), ShouldRun(m)
               PROVE  wanted[m] = config[m].submission
    BY DEF RunningFollowed
  <2>1. config[m].desired = "RUNNING" /\ CanRunNow(CrunchOf[m]) /\ config[m] # Unlisted
    BY DEF ShouldRun, Unlisted, NONE
  <2> QED
    BY <2>1, SettledApplied DEF Applied
<1> QED
  BY <1>1, ScheduleInvariance, PTL

(* A model that is listed STOPPED, or whose crunch is closed, is not       *)
(* wanted once both threads have looked, unless the call that was to stop  *)
(* it stopped a run that was being replaced, or two changes at once have   *)
(* left it to chance.                                                      *)
THEOREM StoppedIsFollowed == Spec => []StoppedFollowed
<1>1. Typed /\ FollowInv => StoppedFollowed
  <2> SUFFICES ASSUME Typed, FollowInv, NEW m \in Models \ crossed, Settled(m), ShouldStop(m)
               PROVE  wanted[m] = NONE \/ overlapped[m]
    BY DEF StoppedFollowed
  <2>1. config[m] # Unlisted
    BY DEF ShouldStop, Unlisted, NONE
  <2> QED
    BY <2>1, SettledApplied DEF ShouldStop, Applied
<1> QED
  BY <1>1, ScheduleInvariance, PTL

=============================================================================
