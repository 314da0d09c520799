-------------------------- MODULE RabbitMQPublisher --------------------------
(***************************************************************************)
(* The RabbitMQ publisher: an observer of the state subject.  Every event  *)
(* goes from the notifying thread to the event loop (callbacks), from      *)
(* there to a bounded queue, and is published by a worker that keeps an    *)
(* event it could not publish and tries again after a second.              *)
(*                                                                         *)
(* Events are numbered in the order the subject was notified of them.      *)
(* Connections are numbered too: the worker's exchange belongs to the      *)
(* channel it was looked up on, the channel to its connection.             *)
(***************************************************************************)
EXTENDS StateSubject

CONSTANTS
    RmQueueSize,     \* queue_worker_maxsize
    MaxConnections,  \* bound: connections opened
    MaxFailures      \* bound: calls to the broker that fail

ASSUME RabbitMQPublisherAssumption ==
    /\ RmQueueSize \in Nat \ {0}
    /\ MaxConnections \in Nat \ {0}
    /\ MaxFailures \in Nat

VARIABLES
    rmCallbacks,     \* calls of put_nowait handed to the loop and not made yet
    rmQueue,         \* message_queue
    rmWorker,        \* the task of _process_queue, see RmAtGet
    rabbit,          \* the connections, see RmConnected
    published,       \* history: the last event that reached the exchange, 0 before
    dropped,         \* history: events that put_nowait refused
    failures,        \* number of failed calls so far
    rmClosing        \* "no", "closing" (in close), "shut" (queue shut down), "closed"

rmVars == <<rmCallbacks, rmQueue, rmWorker, rabbit, published, dropped, failures, rmClosing>>

NoMessage == 0

-----------------------------------------------------------------------------
(* pending: pending_message; exchange: the connection it belongs to, or 0. *)
RmAtGet == [pc |-> "loop", pending |-> NoMessage, exchange |-> 0]

(* rabbitmq_connection is number connection, opened so far; rabbitmq_channel *)
(* belongs to number channel; dead: those is_closed is true of.            *)
RmConnected == [connection |-> 1, channel |-> 1, dead |-> {}]

RmInit ==
    /\ rmCallbacks = <<>>
    /\ rmQueue = <<>>
    /\ rmWorker = RmAtGet
    /\ rabbit = RmConnected
    /\ published = 0
    /\ dropped = {}
    /\ failures = 0
    /\ rmClosing = "no"

(* on_runner_state_changed, on_build_state_changed and notify_failure. *)
RmOnEvent ==
    /\ rmCallbacks' = Append(rmCallbacks, sent + 1)
    /\ UNCHANGED <<rmQueue, rmWorker, rabbit, published, dropped, failures, rmClosing>>

(* put_nowait raises in the loop when the queue is full or shut down. *)
RmPut ==
    /\ rmCallbacks # <<>>
    /\ rmCallbacks' = Tail(rmCallbacks)
    /\ IF Len(rmQueue) < RmQueueSize /\ rmClosing \in {"no", "closing"}
       THEN /\ rmQueue' = Append(rmQueue, Head(rmCallbacks))
            /\ UNCHANGED dropped
       ELSE /\ dropped' = dropped \cup {Head(rmCallbacks)}
            /\ UNCHANGED rmQueue
    /\ UNCHANGED <<rmWorker, rabbit, published, failures, rmClosing>>

-----------------------------------------------------------------------------
(* _process_queue, one action per await.                                   *)

(* Whether an event is pending or not. *)
RmGetAlways ==
    /\ rmWorker.pc = "loop"
    /\ rmQueue # <<>>
    /\ rmQueue' = Tail(rmQueue)
    /\ rmWorker' = [rmWorker EXCEPT !.pc = "connection", !.pending = Head(rmQueue)]
    /\ UNCHANGED <<rmCallbacks, rabbit, published, dropped, failures, rmClosing>>

(* The next event, unless one is pending. *)
RmGet ==
    /\ rmWorker.pc = "loop"
    /\ \/ /\ rmWorker.pending = NoMessage
          /\ rmQueue # <<>>
          /\ rmQueue' = Tail(rmQueue)
          /\ rmWorker' = [rmWorker EXCEPT !.pc = "connection", !.pending = Head(rmQueue)]
       \/ /\ rmWorker.pending # NoMessage
          /\ rmWorker' = [rmWorker EXCEPT !.pc = "connection"]
          /\ UNCHANGED rmQueue
    /\ UNCHANGED <<rmCallbacks, rabbit, published, dropped, failures, rmClosing>>

(* QueueShutDown: nothing pending, the queue empty and shut down. *)
RmExit ==
    /\ rmWorker.pc = "loop"
    /\ rmWorker.pending = NoMessage
    /\ rmQueue = <<>>
    /\ rmClosing \in {"shut", "closed"}
    /\ rmWorker' = [rmWorker EXCEPT !.pc = "exited"]
    /\ UNCHANGED <<rmCallbacks, rmQueue, rabbit, published, dropped, failures, rmClosing>>

IsClosed == rabbit.connection \in rabbit.dead

(* The worker goes to its next await with the exchange it has, if any. *)
ToPublish(exchange) ==
    [rmWorker EXCEPT !.pc = IF exchange = 0 THEN "exchange" ELSE "publish", !.exchange = exchange]

(* except Exception: sleep one second, then around the loop. *)
Again == [rmWorker EXCEPT !.pc = "loop"]

RmNoReconnection ==
    /\ rmWorker.pc = "connection"
    /\ ~IsClosed
    /\ rmWorker' = ToPublish(rmWorker.exchange)
    /\ UNCHANGED <<rmCallbacks, rmQueue, rabbit, published, dropped, failures, rmClosing>>

(* exchange is not set to None. *)
RmReconnectKeepsExchange ==
    /\ rmWorker.pc = "connection"
    /\ IsClosed
    /\ rabbit.connection < MaxConnections
    /\ rabbit' = [rabbit EXCEPT !.connection = @ + 1, !.channel = rabbit.connection + 1]
    /\ rmWorker' = ToPublish(rmWorker.exchange)
    /\ UNCHANGED <<rmCallbacks, rmQueue, published, dropped, failures, rmClosing>>

(* _setup_connection: a connection, then a channel on it. *)
RmReconnect ==
    /\ rmWorker.pc = "connection"
    /\ IsClosed
    /\ rabbit.connection < MaxConnections
    /\ rabbit' = [rabbit EXCEPT !.connection = @ + 1, !.channel = rabbit.connection + 1]
    /\ rmWorker' = ToPublish(0)
    /\ UNCHANGED <<rmCallbacks, rmQueue, published, dropped, failures, rmClosing>>

(* Either call may fail: when the second does, rabbitmq_connection is the  *)
(* new one already, and neither the channel nor the exchange is.           *)
RmReconnectFails ==
    /\ rmWorker.pc = "connection"
    /\ IsClosed
    /\ failures < MaxFailures
    /\ failures' = failures + 1
    /\ \/ UNCHANGED rabbit
       \/ /\ rabbit.connection < MaxConnections
          /\ rabbit' = [rabbit EXCEPT !.connection = @ + 1]
    /\ rmWorker' = Again
    /\ UNCHANGED <<rmCallbacks, rmQueue, published, dropped, rmClosing>>

(* get_exchange, on the channel. *)
RmGetExchange ==
    /\ rmWorker.pc = "exchange"
    /\ rabbit.channel \notin rabbit.dead
    /\ rmWorker' = ToPublish(rabbit.channel)
    /\ UNCHANGED <<rmCallbacks, rmQueue, rabbit, published, dropped, failures, rmClosing>>

(* exchange.publish, and pending_message = None. *)
RmPublish ==
    /\ rmWorker.pc = "publish"
    /\ rmWorker.exchange \notin rabbit.dead
    /\ published' = rmWorker.pending
    /\ rmWorker' = [rmWorker EXCEPT !.pc = "loop", !.pending = NoMessage]
    /\ UNCHANGED <<rmCallbacks, rmQueue, rabbit, dropped, failures, rmClosing>>

(* The call fails: always on a connection that is closed, and now and then *)
(* on a good one; the event may have reached the exchange all the same.    *)
RmCallFails ==
    /\ \/ rmWorker.pc = "exchange"
       \/ rmWorker.pc = "publish"
    /\ IF (IF rmWorker.pc = "exchange" THEN rabbit.channel ELSE rmWorker.exchange) \in rabbit.dead
       THEN UNCHANGED <<failures, published>>
       ELSE /\ failures < MaxFailures
            /\ failures' = failures + 1
            /\ published' \in {published} \cup (IF rmWorker.pc = "publish" THEN {rmWorker.pending} ELSE {})
    /\ rmWorker' = Again
    /\ UNCHANGED <<rmCallbacks, rmQueue, rabbit, dropped, rmClosing>>

(* The broker or the network ends the connection. *)
RmConnectionDies ==
    /\ ~IsClosed
    /\ rabbit.connection < MaxConnections
    /\ rabbit' = [rabbit EXCEPT !.dead = @ \cup {rabbit.connection}]
    /\ UNCHANGED <<rmCallbacks, rmQueue, rmWorker, published, dropped, failures, rmClosing>>

-----------------------------------------------------------------------------
(* close: it does not wait for the worker.                                 *)

RmClose ==
    /\ rmClosing = "no"
    /\ rmClosing' = "closing"
    /\ UNCHANGED <<rmCallbacks, rmQueue, rmWorker, rabbit, published, dropped, failures>>

RmShutdown ==
    /\ rmClosing = "closing"
    /\ rmClosing' = "shut"
    /\ UNCHANGED <<rmCallbacks, rmQueue, rmWorker, rabbit, published, dropped, failures>>

RmConnectionClose ==
    /\ rmClosing = "shut"
    /\ rmClosing' = "closed"
    /\ rabbit' = [rabbit EXCEPT !.dead = @ \cup {rabbit.connection}]
    /\ UNCHANGED <<rmCallbacks, rmQueue, rmWorker, published, dropped, failures>>

RmProgress ==
    \/ RmPut
    \/ RmGet
    \/ RmExit
    \/ RmNoReconnection
    \/ RmReconnect
    \/ RmGetExchange
    \/ RmPublish

RmOthers ==
    \/ RmReconnectFails
    \/ RmCallFails
    \/ RmConnectionDies
    \/ RmClose
    \/ RmShutdown
    \/ RmConnectionClose

(* The loop runs what is ready.  A call on a dead connection raises. *)
RmFairness ==
    /\ WF_rmVars(RmProgress)
    /\ WF_rmVars(RmCallFails)

-----------------------------------------------------------------------------
RmTypeOK ==
    /\ rmCallbacks \in Seq(1..MaxEvents)
    /\ rmQueue \in Seq(1..MaxEvents)
    /\ Len(rmQueue) <= RmQueueSize
    /\ rmWorker \in [pc : {"loop", "connection", "exchange", "publish", "exited"},
                     pending : 0..MaxEvents, exchange : 0..MaxConnections]
    /\ rabbit \in [connection : 1..MaxConnections, channel : 1..MaxConnections,
                   dead : SUBSET (1..MaxConnections)]
    /\ published \in 0..MaxEvents
    /\ dropped \subseteq 1..MaxEvents
    /\ failures \in 0..MaxFailures
    /\ rmClosing \in {"no", "closing", "shut", "closed"}

(* _setup_connection has failed half way: the connection is new and open,  *)
(* the exchange and the channel are those of a connection that is closed,  *)
(* and nothing makes the worker look for others.                           *)
RmStranded == ~IsClosed /\ rabbit.channel \in rabbit.dead

-----------------------------------------------------------------------------
(* What the broker gets of the events, see OrderedDelivery.                *)
Promise == INSTANCE OrderedDelivery
           WITH given <- sent, lost <- dropped, delivered <- published

(* Whatever fails, and however often a publication is tried again, events  *)
(* reach the exchange in the order of the notifications, and none that the *)
(* queue has accepted is skipped.                                          *)
RmDeliversInOrder == Promise!Spec

(* The event has been given to the publisher and is not published yet. *)
RmHolds(k) ==
    \/ rmWorker.pending = k
    \/ \E i \in DOMAIN rmQueue : rmQueue[i] = k
    \/ \E i \in DOMAIN rmCallbacks : rmCallbacks[i] = k

(* An accepted event is published in the end, however many connections die *)
(* and calls fail, unless a reconnection that failed half way has left the *)
(* worker without a channel, or the process stops.                         *)
RmPublishedInTheEnd ==
    \A k \in 1..MaxEvents :
        RmHolds(k) ~> (published >= k \/ k \in dropped \/ RmStranded \/ rmClosing # "no")
=============================================================================
