----------------------------- MODULE Publishers -----------------------------
(***************************************************************************)
(* A process, the observers it registers when it starts, and the service   *)
(* that notifies them.  configuration.infrastructure.publishers says which *)
(* they are.  Every observer is told of every change, in the same order.   *)
(***************************************************************************)
EXTENDS WebSocketServer, RabbitMQPublisher

CONSTANT ObserverSets   \* what may be configured

ASSUME PublishersAssumption == ObserverSets \subseteq SUBSET {"websocket", "rabbitmq"}

VARIABLE observers      \* ModelsStateSubject.observers

vars == <<subjectVars, wsVars, rmVars, observers>>

Init ==
    /\ SubjectInit
    /\ WsInit
    /\ RmInit
    /\ observers \in ObserverSets

(* The subject goes through its observers, told by the thread that changed *)
(* the run.                                                                *)
NotifyRunner(r, s) ==
    /\ IF "websocket" \in observers THEN WsOnRunnerStateChanged(r, s) ELSE UNCHANGED wsVars
    /\ IF "rabbitmq" \in observers THEN RmOnEvent ELSE UNCHANGED rmVars
    /\ UNCHANGED observers

RunnerStateChanged ==
    \E r \in Runs, s \in Statuses : Changed(r, s) /\ NotifyRunner(r, s)

RunStopped ==
    \E r \in Runs : StopAsked(r) /\ NotifyRunner(r, "STOPPED")

StateRepublished ==
    \E r \in Runs : Republished(r) /\ NotifyRunner(r, status[r])

(* The WebSocket server does nothing with these. *)
BuildChangedOrFailure ==
    /\ "rabbitmq" \in observers
    /\ OtherNews
    /\ RmOnEvent
    /\ UNCHANGED <<wsVars, observers>>

WebSocketStep ==
    /\ "websocket" \in observers
    /\ WsLoop \/ WsOthers
    /\ UNCHANGED <<subjectVars, rmVars, observers>>

RabbitMQStep ==
    /\ "rabbitmq" \in observers
    /\ RmProgress \/ RmOthers
    /\ UNCHANGED <<subjectVars, wsVars, observers>>

Next ==
    \/ RunnerStateChanged
    \/ RunStopped
    \/ StateRepublished
    \/ BuildChangedOrFailure
    \/ WebSocketStep
    \/ RabbitMQStep

Spec ==
    /\ Init
    /\ [][Next]_vars
    /\ WsFairness
    /\ RmFairness

TypeOK ==
    /\ SubjectTypeOK
    /\ WsTypeOK
    /\ RmTypeOK
    /\ observers \in ObserverSets
=============================================================================
