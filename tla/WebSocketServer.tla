--------------------------- MODULE WebSocketServer ---------------------------
(***************************************************************************)
(* The WebSocket server: an observer of the state subject.  Events go from *)
(* the notifying thread to the event loop (callbacks), from there to a     *)
(* bounded queue, and from the queue, one at a time, to every client of    *)
(* the crunch.  A client that connects is sent the running models first.   *)
(*                                                                         *)
(* The event loop is one thread: its coroutines are cut where they await.  *)
(* ws.send writes to the connection when it is called and awaits only to   *)
(* let the peer keep up, so a client is sent its init event in the step    *)
(* that registers it, and a broadcast may be cut after each client.        *)
(***************************************************************************)
EXTENDS StateSubject, FiniteSets

CONSTANTS
    Clients,      \* coordinators that may connect
    QueueSize,    \* queue_worker_maxsize
    MaxConnects   \* bound: number of connections

ASSUME WebSocketServerAssumption ==
    /\ IsFiniteSet(Clients)
    /\ QueueSize \in Nat \ {0}
    /\ MaxConnects \in Nat

VARIABLES
    wsCallbacks,  \* calls of put_nowait handed to the loop and not made yet
    wsQueue,      \* message_queue
    wsWorker,     \* the task of _process_queue, see AtGet
    connection,   \* connection[c]: "away", "open", "lost" (not noticed yet)
    clients,      \* clients_by_crunch[crunch_id]
    view,         \* view[c][r]: the status of r that client c was sent last,
                  \* on its present connection
    missed,       \* history: missed[c]: runs an event of which c was not sent,
                  \* or was refused while older ones were on their way to c
    connects,     \* number of connections so far
    wsClosing     \* "no", "closing" (in close), "shut" (queue shut down), "closed"

wsVars == <<wsCallbacks, wsQueue, wsWorker, connection, clients, view, missed,
            connects, wsClosing>>

-----------------------------------------------------------------------------
(* The worker: waiting for an event, or sending event to the clients: size *)
(* is their number when the iteration over the set began, owed are those   *)
(* it began with, served those it has sent to; gone: the set has been      *)
(* deleted from clients_by_crunch, churned: it is not what it was.         *)
AtGet  == [pc |-> "get", event |-> <<>>, owed |-> {}, served |-> {}, churned |-> FALSE, gone |-> FALSE]
Exited == [AtGet EXCEPT !.pc = "exited"]
Casting == wsWorker.pc = "cast"

(* What clients are told: not every status, and one name for three. *)
Announced == {"RUNNING", "RECOVERING", "STOPPED"}

NothingSent == [r \in Runs |-> "absent"]

WsInit ==
    /\ wsCallbacks = <<>>
    /\ wsQueue = <<>>
    /\ wsWorker = AtGet
    /\ connection = [c \in Clients |-> "away"]
    /\ clients = {}
    /\ view = [c \in Clients |-> NothingSent]
    /\ missed = [c \in Clients |-> {}]
    /\ connects = 0
    /\ wsClosing = "no"

-----------------------------------------------------------------------------
(* Events on their way to the clients.                                     *)

(* on_runner_state_changed: call_soon_threadsafe(put_nowait, message). *)
WsOnRunnerStateChanged(r, s) ==
    /\ wsCallbacks' = IF s \in Announced
                      THEN Append(wsCallbacks, [run |-> r, status |-> s])
                      ELSE wsCallbacks
    /\ UNCHANGED <<wsQueue, wsWorker, connection, clients, view, missed, connects, wsClosing>>

Missing(cs, r) == [c \in Clients |-> IF c \in cs THEN missed[c] \cup {r} ELSE missed[c]]

(* One event too many. *)
WsTakesOneMore == Len(wsQueue) <= QueueSize /\ wsClosing \in {"no", "closing"}

(* put_nowait does not raise. *)
WsTakes == Len(wsQueue) < QueueSize /\ wsClosing \in {"no", "closing"}

(* put_nowait raises in the loop when the queue is full or shut down. *)
WsPut ==
    /\ wsCallbacks # <<>>
    /\ wsCallbacks' = Tail(wsCallbacks)
    /\ LET event == Head(wsCallbacks) IN
       IF WsTakes
       THEN /\ wsQueue' = Append(wsQueue, event)
            /\ UNCHANGED missed
       ELSE /\ missed' = Missing(Clients, event.run)
            /\ UNCHANGED wsQueue
    /\ UNCHANGED <<wsWorker, connection, clients, view, connects, wsClosing>>

(* The newest first. *)
WsGetNewest ==
    /\ wsWorker.pc = "get"
    /\ wsQueue # <<>>
    /\ wsQueue' = SubSeq(wsQueue, 1, Len(wsQueue) - 1)
    /\ wsWorker' = IF clients = {} THEN AtGet
                   ELSE [AtGet EXCEPT !.pc = "cast", !.event = wsQueue[Len(wsQueue)], !.owed = clients]
    /\ UNCHANGED <<wsCallbacks, connection, clients, view, missed, connects, wsClosing>>

(* _process_queue takes an event; broadcast looks up the clients. *)
WsGet ==
    /\ wsWorker.pc = "get"
    /\ wsQueue # <<>>
    /\ wsQueue' = Tail(wsQueue)
    /\ wsWorker' = IF clients = {} THEN AtGet
                   ELSE [AtGet EXCEPT !.pc = "cast", !.event = Head(wsQueue), !.owed = clients]
    /\ UNCHANGED <<wsCallbacks, connection, clients, view, missed, connects, wsClosing>>

(* QueueShutDown: the queue is empty and shut down. *)
WsExit ==
    /\ wsWorker.pc = "get"
    /\ wsQueue = <<>>
    /\ wsClosing \in {"shut", "closed"}
    /\ wsWorker' = Exited
    /\ UNCHANGED <<wsCallbacks, wsQueue, connection, clients, view, missed, connects, wsClosing>>

(* A Python set may only be iterated while its size does not change. *)
SameSize == ~wsWorker.gone /\ Cardinality(clients) = Cardinality(wsWorker.owed)

(* The iteration comes to c.  ConnectionClosed is ignored. *)
WsSend(c) ==
    /\ Casting
    /\ SameSize
    /\ c \in clients \ wsWorker.served
    /\ wsWorker' = [wsWorker EXCEPT !.served = @ \cup {c}]
    /\ view' = IF connection[c] = "open"
               THEN [view EXCEPT ![c][wsWorker.event.run] = wsWorker.event.status]
               ELSE view
    /\ UNCHANGED <<wsCallbacks, wsQueue, connection, clients, missed, connects, wsClosing>>

(* The iteration ends.  After one client has left and another has come the *)
(* sizes agree again, and where the iteration goes on depends on the table *)
(* of the set: it may come to the others, to the new one, or end.          *)
WsCastDone ==
    /\ Casting
    /\ SameSize
    /\ wsWorker.churned \/ clients \subseteq wsWorker.served
    /\ wsWorker' = AtGet
    /\ missed' = Missing((clients \cap wsWorker.owed) \ wsWorker.served, wsWorker.event.run)
    /\ UNCHANGED <<wsCallbacks, wsQueue, connection, clients, view, connects, wsClosing>>

(* The worker does not survive. *)
WsCastRaisesAndExits ==
    /\ Casting
    /\ ~SameSize
    /\ wsWorker' = Exited
    /\ missed' = Missing((clients \cap wsWorker.owed) \ wsWorker.served, wsWorker.event.run)
    /\ UNCHANGED <<wsCallbacks, wsQueue, connection, clients, view, connects, wsClosing>>

(* "Set changed size during iteration": caught by _process_queue, which    *)
(* goes on with the next event.                                            *)
WsCastRaises ==
    /\ Casting
    /\ ~SameSize
    /\ wsWorker' = AtGet
    /\ missed' = Missing((clients \cap wsWorker.owed) \ wsWorker.served, wsWorker.event.run)
    /\ UNCHANGED <<wsCallbacks, wsQueue, connection, clients, view, connects, wsClosing>>

-----------------------------------------------------------------------------
(* Clients.                                                                *)

WithClients(cs) ==
    /\ clients' = cs
    /\ wsWorker' = IF Casting
                   THEN [wsWorker EXCEPT !.churned = TRUE, !.gone = @ \/ cs = {}]
                   ELSE wsWorker

Mentions(events, r) == \E i \in DOMAIN events : events[i].run = r

OnTheirWay == {r \in Runs : Mentions(wsQueue, r) \/ (Casting /\ wsWorker.event.run = r)}

(* handler, until it waits for messages: the client is registered and sent *)
(* the running models (send_init_event).                                   *)
WsConnect(c) ==
    /\ wsClosing # "closed"
    /\ connection[c] = "away"
    /\ connects < MaxConnects
    /\ connects' = connects + 1
    /\ connection' = [connection EXCEPT ![c] = "open"]
    /\ WithClients(clients \cup {c})
    /\ view' = [view EXCEPT ![c] = [r \in Runs |-> IF r \in RunningModels THEN "RUNNING" ELSE "absent"]]
    /\ missed' = [missed EXCEPT ![c] = @ \cap OnTheirWay]
    /\ UNCHANGED <<wsCallbacks, wsQueue, wsClosing>>

ConnectionLost(c) ==
    /\ connection[c] = "open"
    /\ connection' = [connection EXCEPT ![c] = "lost"]
    /\ view' = [view EXCEPT ![c] = NothingSent]
    /\ UNCHANGED <<wsCallbacks, wsQueue, wsWorker, clients, missed, connects, wsClosing>>

(* The end of handler: ConnectionClosed, or a message that is not valid,   *)
(* whose exception ends the connection.                                    *)
HandlerEnds(c) ==
    /\ connection[c] # "away"
    /\ connection' = [connection EXCEPT ![c] = "away"]
    /\ view' = [view EXCEPT ![c] = NothingSent]
    /\ WithClients(clients \ {c})
    /\ UNCHANGED <<wsCallbacks, wsQueue, missed, connects, wsClosing>>

-----------------------------------------------------------------------------
(* close.                                                                  *)

WsClose ==
    /\ wsClosing = "no"
    /\ wsClosing' = "closing"
    /\ UNCHANGED <<wsCallbacks, wsQueue, wsWorker, connection, clients, view, missed, connects>>

(* shutdown_queue_async, made by another thread of the executor. *)
WsShutdown ==
    /\ wsClosing = "closing"
    /\ wsClosing' = "shut"
    /\ UNCHANGED <<wsCallbacks, wsQueue, wsWorker, connection, clients, view, missed, connects>>

(* server.close closes the connections. *)
WsServerClose ==
    /\ wsClosing = "shut"
    /\ wsClosing' = "closed"
    /\ connection' = [c \in Clients |-> IF connection[c] = "open" THEN "lost" ELSE connection[c]]
    /\ view' = [c \in Clients |-> NothingSent]
    /\ UNCHANGED <<wsCallbacks, wsQueue, wsWorker, clients, missed, connects>>

WsLoop ==
    \/ WsPut
    \/ WsGet
    \/ WsExit
    \/ \E c \in Clients : WsSend(c)
    \/ WsCastDone
    \/ WsCastRaises

WsOthers ==
    \/ \E c \in Clients : WsConnect(c) \/ ConnectionLost(c) \/ HandlerEnds(c)
    \/ WsClose
    \/ WsShutdown
    \/ WsServerClose

(* The loop runs what is ready, sockets let their bytes go or are closed,  *)
(* and a handler notices that its connection is closed.                    *)
WsFairness ==
    /\ WF_wsVars(WsLoop)
    /\ \A c \in Clients : WF_wsVars(connection[c] = "lost" /\ HandlerEnds(c))

-----------------------------------------------------------------------------
WsTypeOK ==
    /\ wsCallbacks \in Seq(Event)
    /\ wsQueue \in Seq(Event)
    /\ Len(wsQueue) <= QueueSize
    /\ wsWorker.pc \in {"get", "cast", "exited"}
    /\ Casting => wsWorker.event \in Event
    /\ wsWorker.owed \subseteq Clients
    /\ wsWorker.served \subseteq Clients
    /\ wsWorker.churned \in BOOLEAN
    /\ wsWorker.gone \in BOOLEAN
    /\ connection \in [Clients -> {"away", "open", "lost"}]
    /\ clients \in SUBSET Clients
    /\ view \in [Clients -> [Runs -> Announced \cup {"absent"}]]
    /\ missed \in [Clients -> SUBSET Runs]
    /\ connects \in 0..MaxConnects
    /\ wsClosing \in {"no", "closing", "shut", "closed"}

(* A client need not know of a run that is not listed as running, and is   *)
(* not told when a job is placed again.                                    *)
UpToDate(c, r) ==
    \/ view[c][r] = status[r]
    \/ view[c][r] = "absent" /\ r \notin RunningModels
    \/ status[r] = "INITIALIZING"

(* An event of r will still be sent to c. *)
Awaits(c, r) ==
    \/ Mentions(wsCallbacks, r)
    \/ Mentions(wsQueue, r)
    \/ Casting /\ wsWorker.event.run = r /\ c \in wsWorker.owed \ wsWorker.served

(* A connected client to whom no event of a run is on its way knows whether *)
(* the run is running, whatever the order of its connection, the snapshot it *)
(* was sent and the broadcasts - unless one of them never reached it, or    *)
(* the job is being placed again, which no client is told.                 *)
WsClientsInformed ==
    \A c \in Clients, r \in Runs :
        (c \in clients /\ connection[c] = "open" /\ r \notin missed[c] /\ ~Awaits(c, r))
            => UpToDate(c, r)

(* ... and it comes to know it in the end: a broadcast that is cut short by *)
(* a client that comes or goes does not stop the ones that follow.         *)
WsInformedInTheEnd ==
    \A c \in Clients, r \in Runs :
        []<>(connection[c] # "open" \/ r \in missed[c] \/ UpToDate(c, r))
=============================================================================
