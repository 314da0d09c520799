-------------------------- MODULE PublishersProofs --------------------------
(***************************************************************************)
(* Proofs about the two observers, for any number of events, queue sizes,  *)
(* clients, connections and failures: the RabbitMQ publisher implements    *)
(* OrderedDelivery, the clients of the WebSocket server are informed, and  *)
(* the state keeps its type and its bounds.                                *)
(***************************************************************************)
EXTENDS Publishers, SequenceTheorems, TLAPS

(* Where an event is between the notification and the exchange: with the   *)
(* worker, in the queue, or on its way to the queue, the older before the  *)
(* newer ones.                                                             *)
Increasing(seq) == \A i, j \in 1..Len(seq) : i < j => seq[i] < seq[j]

InOrder ==
    /\ Increasing(rmQueue)
    /\ Increasing(rmCallbacks)
    /\ \A i \in 1..Len(rmQueue), j \in 1..Len(rmCallbacks) : rmQueue[i] < rmCallbacks[j]
    /\ \A i \in 1..Len(rmQueue) : rmWorker.pending < rmQueue[i] /\ published < rmQueue[i]
    /\ \A j \in 1..Len(rmCallbacks) : rmWorker.pending < rmCallbacks[j] /\ published < rmCallbacks[j]
    /\ rmWorker.pending # NoMessage => published <= rmWorker.pending

(* Nothing is held that was refused, or not given yet.                     *)
HeldNotDropped ==
    /\ \A i \in 1..Len(rmQueue) : rmQueue[i] <= sent /\ rmQueue[i] \notin dropped
    /\ \A j \in 1..Len(rmCallbacks) : rmCallbacks[j] <= sent /\ rmCallbacks[j] \notin dropped
    /\ rmWorker.pending <= sent
    /\ rmWorker.pending # NoMessage => rmWorker.pending \notin dropped
    /\ published <= sent
    /\ \A k \in dropped : k \in Nat /\ k <= sent

(* What has not been published is held or was refused.                     *)
NothingSkipped ==
    "rabbitmq" \in observers =>
        \A k \in (published + 1)..sent :
            \/ k \in dropped
            \/ k = rmWorker.pending
            \/ \E i \in 1..Len(rmQueue) : k = rmQueue[i]
            \/ \E j \in 1..Len(rmCallbacks) : k = rmCallbacks[j]

(* The worker has an event whenever it talks to the broker.                *)
WorkerBusy == rmWorker.pc \in {"connection", "exchange", "publish"} => rmWorker.pending # NoMessage

Workers == [pc : {"loop", "connection", "exchange", "publish", "exited"}, pending : Nat, exchange : Nat]

Connections == [connection : Nat, channel : Nat, dead : SUBSET Nat]

RmTyped ==
    /\ sent \in Nat
    /\ published \in Nat
    /\ rmCallbacks \in Seq(Nat \ {0})
    /\ rmQueue \in Seq(Nat \ {0})
    /\ rmWorker \in Workers
    /\ rabbit \in Connections

RmInv ==
    /\ RmTyped
    /\ InOrder
    /\ HeldNotDropped
    /\ NothingSkipped
    /\ WorkerBusy

(* The invariant holds at first.                                           *)
LEMMA RmInitInv == ASSUME Init PROVE RmInv
  <1> USE DEF Init, SubjectInit, RmInit, RmAtGet, NoMessage, RmConnected
  <1>1. RmTyped
    BY DEF RmTyped, Workers, Connections
  <1>2. Len(rmQueue) = 0 /\ Len(rmCallbacks) = 0 /\ rmWorker.pending = 0 /\ rmWorker.pc = "loop"
    OBVIOUS
  <1>3. InOrder /\ HeldNotDropped /\ NothingSkipped /\ WorkerBusy
    BY <1>2 DEF InOrder, Increasing, HeldNotDropped, NothingSkipped, WorkerBusy
  <1> QED
    BY <1>1, <1>3 DEF RmInv

(* The elements of a sequence with one more.                               *)
LEMMA AppendElements ==
  ASSUME NEW seq \in Seq(Nat \ {0}), NEW e \in Nat \ {0}
  PROVE  /\ Append(seq, e) \in Seq(Nat \ {0})
         /\ Len(Append(seq, e)) = Len(seq) + 1
         /\ \A i \in 1..Len(seq) : Append(seq, e)[i] = seq[i]
         /\ Append(seq, e)[Len(seq) + 1] = e
BY AppendProperties

(* The elements of a sequence without its first.                           *)
LEMMA TailElements ==
  ASSUME NEW seq \in Seq(Nat \ {0}), seq # <<>>
  PROVE  /\ Len(seq) \in Nat \ {0}
         /\ Tail(seq) \in Seq(Nat \ {0})
         /\ Len(Tail(seq)) = Len(seq) - 1
         /\ \A i \in 1..(Len(seq) - 1) : Tail(seq)[i] = seq[i + 1]
         /\ Head(seq) = seq[1]
         /\ Head(seq) \in Nat \ {0}
BY HeadTailProperties, EmptySeq

(* What the publisher holds are events.                                    *)
LEMMA HeldTypes ==
  ASSUME RmInv
  PROVE  /\ sent \in Nat
         /\ published \in Nat
         /\ Len(rmQueue) \in Nat
         /\ Len(rmCallbacks) \in Nat
         /\ \A i \in 1..Len(rmQueue) : rmQueue[i] \in Nat \ {0}
         /\ \A j \in 1..Len(rmCallbacks) : rmCallbacks[j] \in Nat \ {0}
         /\ rmWorker.pending \in Nat
BY DEF RmInv, RmTyped, Workers

-----------------------------------------------------------------------------
(* The subject is notified of one event more. *)
LEMMA GivenKeeps ==
  ASSUME RmInv,
         sent' = sent + 1,
         IF "rabbitmq" \in observers THEN RmOnEvent ELSE UNCHANGED rmVars,
         UNCHANGED observers
  PROVE  RmInv' /\ UNCHANGED <<published, dropped>>
  <1>1. CASE "rabbitmq" \notin observers
    <2>1. UNCHANGED <<rmCallbacks, rmQueue, rmWorker, rabbit, published, dropped>>
      BY <1>1 DEF rmVars
    <2>2. RmTyped' /\ InOrder' /\ WorkerBusy'
      BY <2>1 DEF RmInv, RmTyped, InOrder, Increasing, WorkerBusy
    <2>3. NothingSkipped'
      BY <1>1 DEF NothingSkipped
    <2>4. HeldNotDropped'
      BY <2>1, HeldTypes DEF RmInv, RmTyped, HeldNotDropped
    <2> QED
      BY <2>1, <2>2, <2>3, <2>4 DEF RmInv
  <1>2. CASE "rabbitmq" \in observers
    <2>1. /\ rmCallbacks' = Append(rmCallbacks, sent + 1)
          /\ UNCHANGED <<rmQueue, rmWorker, rabbit, published, dropped>>
      BY <1>2 DEF RmOnEvent
    <2>2. /\ sent + 1 \in Nat \ {0}
          /\ rmCallbacks \in Seq(Nat \ {0})
          /\ Len(rmCallbacks) \in Nat
      BY DEF RmInv, RmTyped
    <2>3. /\ rmCallbacks' \in Seq(Nat \ {0})
          /\ Len(rmCallbacks') = Len(rmCallbacks) + 1
          /\ \A i \in 1..Len(rmCallbacks) : rmCallbacks'[i] = rmCallbacks[i]
          /\ rmCallbacks'[Len(rmCallbacks) + 1] = sent + 1
      BY <2>1, <2>2, AppendElements
    <2>4. RmTyped' /\ WorkerBusy'
      BY <2>1, <2>3 DEF RmInv, RmTyped, WorkerBusy
    <2>5. /\ \A i \in 1..Len(rmQueue) : rmQueue[i] <= sent
          /\ \A j \in 1..Len(rmCallbacks) : rmCallbacks[j] <= sent
          /\ rmWorker.pending <= sent
          /\ published <= sent
      BY DEF RmInv, HeldNotDropped
    <2>6. InOrder'
      BY <2>1, <2>2, <2>3, <2>5, HeldTypes, SMTT(30) DEF RmInv, InOrder, Increasing
    <2>7. HeldNotDropped'
      BY <2>1, <2>2, <2>3, <2>5, HeldTypes, SMTT(30) DEF RmInv, HeldNotDropped
    <2>8. NothingSkipped'
      <3> SUFFICES ASSUME NEW k \in (published + 1)..(sent + 1)
                   PROVE  \/ k \in dropped
                          \/ k = rmWorker.pending
                          \/ \E i \in 1..Len(rmQueue) : k = rmQueue[i]
                          \/ \E j \in 1..Len(rmCallbacks') : k = rmCallbacks'[j]
        BY <2>1 DEF NothingSkipped
      <3>1. CASE k = sent + 1
        BY <2>2, <2>3, <3>1
      <3>2. CASE k # sent + 1
        <4>1. k \in (published + 1)..sent
          BY <3>2, HeldTypes
        <4>2. \A j \in 1..Len(rmCallbacks) : j \in 1..Len(rmCallbacks') /\ rmCallbacks'[j] = rmCallbacks[j]
          BY <2>2, <2>3
        <4> QED
          BY <1>2, <4>1, <4>2 DEF RmInv, NothingSkipped
      <3> QED
        BY <3>1, <3>2
    <2> QED
      BY <2>1, <2>4, <2>6, <2>7, <2>8 DEF RmInv
  <1> QED
    BY <1>1, <1>2

(* The worker goes on with the event it has, if any. *)
LEMMA WorkerStepKeeps ==
  ASSUME RmInv,
         rmWorker' \in Workers,
         rmWorker'.pending = rmWorker.pending,
         rmWorker'.pc \in {"connection", "exchange", "publish"} => rmWorker.pending # NoMessage,
         rabbit' \in Connections,
         UNCHANGED <<sent, rmCallbacks, rmQueue, published, dropped, observers>>
  PROVE  RmInv'
  <1>1. RmTyped' /\ WorkerBusy'
    BY DEF RmInv, RmTyped, WorkerBusy
  <1>2. InOrder'
    BY DEF RmInv, InOrder, Increasing
  <1>3. HeldNotDropped'
    BY DEF RmInv, HeldNotDropped
  <1>4. NothingSkipped'
    BY DEF RmInv, NothingSkipped
  <1> QED
    BY <1>1, <1>2, <1>3, <1>4 DEF RmInv

(* Changing a part of the connection keeps its type.                       *)
LEMMA ConnectionTypes ==
  ASSUME NEW c \in Connections, NEW n \in Nat
  PROVE  [c EXCEPT !.connection = n] \in Connections /\ [c EXCEPT !.channel = n] \in Connections
BY DEF Connections

(* The worker, its connection and close, when no event is taken, published *)
(* or refused.                                                             *)
LEMMA WorkerMoves ==
  ASSUME RmInv, UNCHANGED <<sent, observers>>,
         \/ RmExit \/ RmNoReconnection \/ RmReconnect \/ RmGetExchange
         \/ RmReconnectFails \/ RmConnectionDies \/ RmConnectionClose
         \/ RmClose \/ RmShutdown
  PROVE  RmInv' /\ UNCHANGED <<published, dropped>>
  <1> USE DEF RmInv, RmTyped
  <1>1. /\ rmWorker \in Workers
        /\ rmWorker.pc \in {"connection", "exchange", "publish"} => rmWorker.pending # NoMessage
        /\ rabbit \in Connections /\ rabbit.connection \in Nat /\ rabbit.channel \in Nat
    BY DEF WorkerBusy, Connections
  <1>2. ASSUME NEW e \in Nat
        PROVE  /\ ToPublish(e) \in Workers
               /\ ToPublish(e).pending = rmWorker.pending
    BY <1>1 DEF ToPublish, Workers
  <1>3. /\ Again \in Workers
        /\ Again.pending = rmWorker.pending
        /\ Again.pc = "loop"
    BY <1>1 DEF Again, Workers
  <1>4. CASE RmExit
    <2> DEFINE exited == [rmWorker EXCEPT !.pc = "exited"]
    <2>1. exited \in Workers /\ exited.pending = rmWorker.pending /\ exited.pc = "exited"
      BY <1>1 DEF Workers
    <2>2. rmWorker' = exited /\ UNCHANGED <<rmCallbacks, rmQueue, rabbit, published, dropped>>
      BY <1>4 DEF RmExit
    <2> HIDE DEF exited
    <2> QED
      BY <1>1, <2>1, <2>2, WorkerStepKeeps
  <1>5. CASE RmNoReconnection
    <2>1. /\ rmWorker.exchange \in Nat
          /\ rmWorker.pending # NoMessage
          /\ rmWorker' = ToPublish(rmWorker.exchange)
          /\ UNCHANGED <<rmCallbacks, rmQueue, rabbit, published, dropped>>
      BY <1>1, <1>5 DEF RmNoReconnection, Workers
    <2> QED
      BY <1>1, <1>2, <2>1, WorkerStepKeeps
  <1>6. CASE RmReconnect
    <2>1. /\ rmWorker.pending # NoMessage
          /\ rmWorker' = ToPublish(0)
          /\ UNCHANGED <<rmCallbacks, rmQueue, published, dropped>>
      BY <1>1, <1>6 DEF RmReconnect
    <2> DEFINE connected == [rabbit EXCEPT !.connection = rabbit.connection + 1]
    <2>2. rabbit.connection + 1 \in Nat
      BY <1>1
    <2>3. connected \in Connections
      BY <1>1, <2>2, ConnectionTypes, Zenon
    <2> HIDE DEF connected
    <2>4. [connected EXCEPT !.channel = rabbit.connection + 1] \in Connections
      BY <2>2, <2>3, ConnectionTypes, Zenon
    <2>5. rabbit' = [connected EXCEPT !.channel = rabbit.connection + 1]
      BY <1>6 DEF RmReconnect, connected
    <2> QED
      BY <1>1, <1>2, <2>1, <2>4, <2>5, WorkerStepKeeps
  <1>7. CASE RmGetExchange
    <2>1. /\ rmWorker.pending # NoMessage
          /\ rmWorker' = ToPublish(rabbit.channel)
          /\ UNCHANGED <<rmCallbacks, rmQueue, rabbit, published, dropped>>
      BY <1>1, <1>7 DEF RmGetExchange
    <2> QED
      BY <1>1, <1>2, <2>1, WorkerStepKeeps
  <1>8. CASE RmReconnectFails
    <2>1. /\ rmWorker' = Again
          /\ UNCHANGED <<rmCallbacks, rmQueue, published, dropped>>
      BY <1>8 DEF RmReconnectFails
    <2>2. rabbit' = rabbit \/ rabbit' = [rabbit EXCEPT !.connection = rabbit.connection + 1]
      BY <1>8 DEF RmReconnectFails
    <2>3. rabbit' \in Connections
      BY <1>1, <2>2, SMTT(30) DEF Connections
    <2> QED
      BY <1>1, <1>3, <2>1, <2>3, WorkerStepKeeps
  <1>9. CASE RmConnectionDies \/ RmConnectionClose \/ RmClose \/ RmShutdown
    <2>1. UNCHANGED <<rmCallbacks, rmQueue, rmWorker, published, dropped>>
      BY <1>9 DEF RmConnectionDies, RmConnectionClose, RmClose, RmShutdown
    <2>2. rabbit' = rabbit \/ rabbit' = [rabbit EXCEPT !.dead = rabbit.dead \cup {rabbit.connection}]
      BY <1>9 DEF RmConnectionDies, RmConnectionClose, RmClose, RmShutdown
    <2>3. rabbit' \in Connections
      BY <1>1, <2>2, SMTT(30) DEF Connections
    <2> QED
      BY <1>1, <2>1, <2>3, WorkerStepKeeps
  <1> QED
    BY <1>4, <1>5, <1>6, <1>7, <1>8, <1>9 DEF RmExit, RmNoReconnection, RmReconnect, RmGetExchange,
       RmReconnectFails, RmConnectionDies, RmConnectionClose, RmClose, RmShutdown

(* The oldest event on its way to the queue is put there, or refused. *)
LEMMA PutKeeps ==
  ASSUME RmInv, RmPut, UNCHANGED <<sent, observers>>
  PROVE  RmInv'
  <1>1. /\ rmCallbacks # <<>>
        /\ rmCallbacks' = Tail(rmCallbacks)
        /\ UNCHANGED <<rmWorker, rabbit, published>>
    BY DEF RmPut
  <1>2. /\ rmCallbacks \in Seq(Nat \ {0})
        /\ rmQueue \in Seq(Nat \ {0})
    BY DEF RmInv, RmTyped
  <1>3. /\ Len(rmCallbacks) \in Nat \ {0}
        /\ rmCallbacks' \in Seq(Nat \ {0})
        /\ Len(rmCallbacks') = Len(rmCallbacks) - 1
        /\ \A j \in 1..(Len(rmCallbacks) - 1) : rmCallbacks'[j] = rmCallbacks[j + 1]
        /\ Head(rmCallbacks) = rmCallbacks[1]
        /\ Head(rmCallbacks) \in Nat \ {0}
    BY <1>1, <1>2, TailElements
  <1> DEFINE event == Head(rmCallbacks)
  <1>4. /\ \A j \in 1..Len(rmCallbacks') : j + 1 \in 1..Len(rmCallbacks) /\ rmCallbacks'[j] = rmCallbacks[j + 1]
        /\ \A j \in 1..Len(rmCallbacks') : event < rmCallbacks'[j]
        /\ \A i \in 1..Len(rmQueue) : rmQueue[i] < event
        /\ rmWorker.pending < event /\ published < event
        /\ event <= sent /\ event \notin dropped
    <2>1. 1 \in 1..Len(rmCallbacks)
      BY <1>3
    <2>2. \A j \in 1..Len(rmCallbacks') : j + 1 \in 1..Len(rmCallbacks) /\ rmCallbacks'[j] = rmCallbacks[j + 1] /\ 1 < j + 1
      BY <1>3
    <2> QED
      BY <1>3, <2>1, <2>2 DEF RmInv, InOrder, Increasing, HeldNotDropped
  <1>5. Increasing(rmCallbacks')
    <2> SUFFICES ASSUME NEW i \in 1..Len(rmCallbacks'), NEW j \in 1..Len(rmCallbacks'), i < j
                 PROVE  rmCallbacks'[i] < rmCallbacks'[j]
      BY DEF Increasing
    <2>1. i + 1 < j + 1
      OBVIOUS
    <2>2. rmCallbacks[i + 1] < rmCallbacks[j + 1]
      BY <1>4, <2>1 DEF RmInv, InOrder, Increasing
    <2> QED
      BY <1>4, <2>2
  <1>6. /\ \A i \in 1..Len(rmQueue), j \in 1..Len(rmCallbacks') : rmQueue[i] < rmCallbacks'[j]
        /\ \A j \in 1..Len(rmCallbacks') : rmWorker.pending < rmCallbacks'[j] /\ published < rmCallbacks'[j]
        /\ \A j \in 1..Len(rmCallbacks') : rmCallbacks'[j] <= sent /\ rmCallbacks'[j] \notin dropped
    BY <1>4 DEF RmInv, InOrder, HeldNotDropped
  <1>7. \A j \in 1..Len(rmCallbacks) : rmCallbacks[j] = event \/ \E i \in 1..Len(rmCallbacks') : rmCallbacks[j] = rmCallbacks'[i]
    <2> SUFFICES ASSUME NEW j \in 1..Len(rmCallbacks), j # 1
                 PROVE  \E i \in 1..Len(rmCallbacks') : rmCallbacks[j] = rmCallbacks'[i]
      BY <1>3
    <2>1. j - 1 \in 1..Len(rmCallbacks') /\ rmCallbacks'[j - 1] = rmCallbacks[j]
      BY <1>3
    <2> QED
      BY <2>1
  <1> HIDE DEF event
  <1>8. CASE rmQueue' = Append(rmQueue, event) /\ UNCHANGED dropped
    <2>1. event \in Nat \ {0} /\ Len(rmQueue) \in Nat
      BY <1>2, <1>3 DEF event
    <2>2. /\ rmQueue' \in Seq(Nat \ {0})
          /\ Len(rmQueue') = Len(rmQueue) + 1
          /\ \A i \in 1..Len(rmQueue) : rmQueue'[i] = rmQueue[i]
          /\ rmQueue'[Len(rmQueue) + 1] = event
      BY <1>2, <1>8, <2>1, AppendElements
    <2>3. \A i \in 1..Len(rmQueue') :
            \/ i \in 1..Len(rmQueue) /\ rmQueue'[i] = rmQueue[i]
            \/ i = Len(rmQueue) + 1 /\ rmQueue'[i] = event
      <3> SUFFICES ASSUME NEW i \in 1..Len(rmQueue'), i # Len(rmQueue) + 1
                   PROVE  i \in 1..Len(rmQueue)
        BY <2>2
      <3> QED
        BY <2>1, <2>2
    <2>4. RmTyped' /\ WorkerBusy'
      BY <1>1, <1>3, <2>2 DEF RmInv, RmTyped, WorkerBusy
    <2>5. InOrder'
      <3>1. Increasing(rmQueue')
        BY <1>4, <2>1, <2>3 DEF RmInv, InOrder, Increasing
      <3>2. \A i \in 1..Len(rmQueue'), j \in 1..Len(rmCallbacks') : rmQueue'[i] < rmCallbacks'[j]
        BY <1>4, <1>6, <2>3
      <3>3. \A i \in 1..Len(rmQueue') : rmWorker.pending < rmQueue'[i] /\ published < rmQueue'[i]
        BY <1>4, <2>3 DEF RmInv, InOrder
      <3> QED
        BY <1>1, <1>5, <1>6, <3>1, <3>2, <3>3 DEF RmInv, InOrder, Increasing
    <2>6. HeldNotDropped'
      <3>1. \A i \in 1..Len(rmQueue') : rmQueue'[i] <= sent /\ rmQueue'[i] \notin dropped
        BY <1>4, <2>3 DEF RmInv, HeldNotDropped
      <3> QED
        BY <1>1, <1>6, <1>8, <3>1 DEF RmInv, HeldNotDropped
    <2>7. NothingSkipped'
      <3> SUFFICES ASSUME "rabbitmq" \in observers, NEW k \in (published + 1)..sent
                   PROVE  \/ k \in dropped
                          \/ k = rmWorker.pending
                          \/ \E i \in 1..Len(rmQueue') : k = rmQueue'[i]
                          \/ \E j \in 1..Len(rmCallbacks') : k = rmCallbacks'[j]
        BY <1>1, <1>8 DEF NothingSkipped
      <3>1. \/ k \in dropped
            \/ k = rmWorker.pending
            \/ \E i \in 1..Len(rmQueue) : k = rmQueue[i]
            \/ \E j \in 1..Len(rmCallbacks) : k = rmCallbacks[j]
        BY DEF RmInv, NothingSkipped
      <3>2. ASSUME NEW i \in 1..Len(rmQueue), k = rmQueue[i]
            PROVE  \E h \in 1..Len(rmQueue') : k = rmQueue'[h]
        BY <2>1, <2>2, <3>2
      <3>3. Len(rmQueue) + 1 \in 1..Len(rmQueue') /\ rmQueue'[Len(rmQueue) + 1] = event
        BY <2>1, <2>2
      <3> QED
        BY <1>7, <3>1, <3>2, <3>3
    <2> QED
      BY <2>4, <2>5, <2>6, <2>7 DEF RmInv
  <1>9. CASE dropped' = dropped \cup {event} /\ UNCHANGED rmQueue
    <2>1. RmTyped' /\ WorkerBusy'
      BY <1>1, <1>3, <1>9 DEF RmInv, RmTyped, WorkerBusy
    <2>2. InOrder'
      BY <1>1, <1>5, <1>6, <1>9 DEF RmInv, InOrder, Increasing
    <2>3. event \in Nat
      BY <1>3 DEF event
    <2>4. HeldNotDropped'
      <3>1. /\ \A i \in 1..Len(rmQueue) : rmQueue[i] # event
            /\ \A j \in 1..Len(rmCallbacks') : rmCallbacks'[j] # event
            /\ rmWorker.pending # event
        BY <1>3, <1>4, <2>3, HeldTypes
      <3> QED
        BY <1>1, <1>4, <1>6, <1>9, <2>3, <3>1 DEF RmInv, HeldNotDropped
    <2>5. NothingSkipped'
      BY <1>1, <1>7, <1>9 DEF RmInv, NothingSkipped
    <2> QED
      BY <2>1, <2>2, <2>4, <2>5 DEF RmInv
  <1> QED
    BY <1>8, <1>9 DEF RmPut, event

(* The worker takes the oldest event of the queue, unless it has one. *)
LEMMA GetKeeps ==
  ASSUME RmInv, RmGet, UNCHANGED <<sent, observers>>
  PROVE  RmInv' /\ UNCHANGED <<published, dropped>>
  <1>1. /\ rmWorker \in Workers
        /\ rabbit \in Connections
        /\ rmQueue \in Seq(Nat \ {0})
        /\ rmWorker.pc = "loop"
        /\ UNCHANGED <<rmCallbacks, rabbit, published, dropped>>
    BY DEF RmGet, RmInv, RmTyped
  <1>2. CASE rmWorker.pending # NoMessage
    <2> DEFINE again == [rmWorker EXCEPT !.pc = "connection"]
    <2>1. again \in Workers /\ again.pending = rmWorker.pending
      BY <1>1 DEF Workers
    <2>2. rmWorker' = again /\ UNCHANGED rmQueue
      BY <1>2 DEF RmGet
    <2> HIDE DEF again
    <2> QED
      BY <1>1, <1>2, <2>1, <2>2, WorkerStepKeeps
  <1>3. CASE rmWorker.pending = NoMessage
    <2> DEFINE event == Head(rmQueue)
               going == [rmWorker EXCEPT !.pc = "connection"]
    <2>1. /\ rmQueue # <<>>
          /\ rmQueue' = Tail(rmQueue)
          /\ rmWorker' = [going EXCEPT !.pending = event]
      BY <1>3 DEF RmGet
    <2>2. /\ Len(rmQueue) \in Nat \ {0}
          /\ rmQueue' \in Seq(Nat \ {0})
          /\ Len(rmQueue') = Len(rmQueue) - 1
          /\ \A j \in 1..(Len(rmQueue) - 1) : rmQueue'[j] = rmQueue[j + 1]
          /\ event = rmQueue[1]
          /\ event \in Nat \ {0}
      BY <1>1, <2>1, TailElements
    <2>3. /\ \A j \in 1..Len(rmQueue') : j + 1 \in 1..Len(rmQueue) /\ rmQueue'[j] = rmQueue[j + 1] /\ 1 < j + 1
          /\ 1 \in 1..Len(rmQueue)
      BY <2>2
    <2>4. /\ \A j \in 1..Len(rmQueue') : event < rmQueue'[j]
          /\ \A j \in 1..Len(rmCallbacks) : event < rmCallbacks[j]
          /\ published < event /\ event <= sent /\ event \notin dropped
      BY <2>2, <2>3 DEF RmInv, InOrder, Increasing, HeldNotDropped
    <2>5. \A j \in 1..Len(rmQueue) : rmQueue[j] = event \/ \E i \in 1..Len(rmQueue') : rmQueue[j] = rmQueue'[i]
      <3> SUFFICES ASSUME NEW j \in 1..Len(rmQueue), j # 1
                   PROVE  \E i \in 1..Len(rmQueue') : rmQueue[j] = rmQueue'[i]
        BY <2>2
      <3>1. j - 1 \in 1..Len(rmQueue') /\ rmQueue'[j - 1] = rmQueue[j]
        BY <2>2
      <3> QED
        BY <3>1
    <2> HIDE DEF event
    <2>6. going \in Workers
      BY <1>1 DEF Workers
    <2> HIDE DEF going
    <2>7. rmWorker' \in Workers /\ rmWorker'.pending = event
      BY <2>1, <2>2, <2>6 DEF Workers
    <2>8. RmTyped' /\ WorkerBusy'
      BY <1>1, <2>2, <2>7 DEF RmInv, RmTyped, WorkerBusy, NoMessage
    <2>9. InOrder'
      <3>1. Increasing(rmQueue')
        <4> SUFFICES ASSUME NEW i \in 1..Len(rmQueue'), NEW j \in 1..Len(rmQueue'), i < j
                     PROVE  rmQueue'[i] < rmQueue'[j]
          BY DEF Increasing
        <4>1. i + 1 < j + 1
          OBVIOUS
        <4>2. rmQueue[i + 1] < rmQueue[j + 1]
          BY <2>3, <4>1 DEF RmInv, InOrder, Increasing
        <4> QED
          BY <2>3, <4>2
      <3>2. /\ \A i \in 1..Len(rmQueue'), j \in 1..Len(rmCallbacks) : rmQueue'[i] < rmCallbacks[j]
            /\ \A i \in 1..Len(rmQueue') : published < rmQueue'[i]
        BY <2>3 DEF RmInv, InOrder
      <3>3. published <= event
        BY <2>2, <2>4, HeldTypes
      <3> QED
        BY <1>1, <2>4, <2>7, <3>1, <3>2, <3>3 DEF RmInv, InOrder, Increasing
    <2>10. HeldNotDropped'
      <3>1. \A i \in 1..Len(rmQueue') : rmQueue'[i] <= sent /\ rmQueue'[i] \notin dropped
        BY <2>3 DEF RmInv, HeldNotDropped
      <3> QED
        BY <1>1, <2>4, <2>7, <3>1 DEF RmInv, HeldNotDropped
    <2>11. NothingSkipped'
      <3>1. \A k \in (published + 1)..sent : k # rmWorker.pending
        BY <1>3, HeldTypes DEF NoMessage
      <3> QED
        BY <1>1, <2>5, <2>7, <3>1, SMTT(30) DEF RmInv, NothingSkipped
    <2> QED
      BY <1>1, <2>8, <2>9, <2>10, <2>11 DEF RmInv
  <1> QED
    BY <1>2, <1>3

-----------------------------------------------------------------------------
(* The event of the worker reaches the exchange; it may keep it, to        *)
(* publish it again.                                                       *)
LEMMA PublicationKeeps ==
  ASSUME RmInv,
         rmWorker.pc = "publish",
         published' = rmWorker.pending,
         rmWorker' \in Workers,
         rmWorker'.pc = "loop",
         rmWorker'.pending \in {NoMessage, rmWorker.pending},
         UNCHANGED <<sent, rmCallbacks, rmQueue, rabbit, dropped, observers>>
  PROVE  RmInv'
  <1>1. /\ rmWorker.pending # NoMessage
        /\ rmWorker.pending \in Nat
        /\ published \in Nat
        /\ published <= rmWorker.pending
    BY HeldTypes DEF RmInv, WorkerBusy, InOrder
  <1>2. RmTyped' /\ WorkerBusy'
    BY <1>1 DEF RmInv, RmTyped, WorkerBusy
  <1>3. InOrder'
    <2>1. /\ \A i \in 1..Len(rmQueue) : 0 < rmQueue[i] /\ rmWorker.pending < rmQueue[i]
          /\ \A j \in 1..Len(rmCallbacks) : 0 < rmCallbacks[j] /\ rmWorker.pending < rmCallbacks[j]
      BY HeldTypes DEF RmInv, InOrder
    <2> QED
      BY <1>1, <2>1 DEF RmInv, InOrder, Increasing, NoMessage
  <1>4. HeldNotDropped'
    BY <1>1, HeldTypes DEF RmInv, HeldNotDropped, NoMessage
  <1>5. NothingSkipped'
    <2>1. \A k \in (published' + 1)..sent : k \in (published + 1)..sent /\ k # rmWorker.pending
      BY <1>1, HeldTypes
    <2> QED
      BY <2>1 DEF RmInv, NothingSkipped
  <1> QED
    BY <1>2, <1>3, <1>4, <1>5 DEF RmInv

(* What an attempt to publish does, whether it succeeds or not.            *)
LEMMA AttemptKeeps ==
  ASSUME RmInv, RmPublish \/ RmCallFails, UNCHANGED <<sent, observers>>
  PROVE  /\ RmInv'
         /\ UNCHANGED dropped
         /\ published' = published \/ (rmWorker.pc = "publish" /\ published' = rmWorker.pending)
  <1>1. rmWorker \in Workers /\ rabbit \in Connections
    BY DEF RmInv, RmTyped
  <1>2. CASE RmPublish
    <2> DEFINE going == [rmWorker EXCEPT !.pc = "loop"]
               done == [going EXCEPT !.pending = NoMessage]
    <2>1. going \in Workers /\ going.pc = "loop"
      BY <1>1 DEF Workers
    <2> HIDE DEF going
    <2>2. done \in Workers /\ done.pc = "loop" /\ done.pending = NoMessage
      BY <2>1 DEF Workers, NoMessage
    <2>3. /\ rmWorker.pc = "publish"
          /\ published' = rmWorker.pending
          /\ rmWorker' = done
          /\ UNCHANGED <<rmCallbacks, rmQueue, rabbit, dropped>>
      BY <1>2 DEF RmPublish, going
    <2> HIDE DEF done
    <2> QED
      BY <2>2, <2>3, PublicationKeeps
  <1>3. CASE RmCallFails
    <2>1. /\ rmWorker' = Again
          /\ \/ published' = published
             \/ rmWorker.pc = "publish" /\ published' = rmWorker.pending
          /\ UNCHANGED <<rmCallbacks, rmQueue, rabbit, dropped>>
      BY <1>3 DEF RmCallFails
    <2>2. Again \in Workers /\ Again.pc = "loop" /\ Again.pending = rmWorker.pending
      BY <1>1 DEF Again, Workers
    <2>3. CASE published' = published
      BY <1>1, <2>1, <2>2, <2>3, WorkerStepKeeps
    <2>4. CASE rmWorker.pc = "publish" /\ published' = rmWorker.pending
      BY <2>1, <2>2, <2>4, PublicationKeeps
    <2> QED
      BY <2>1, <2>3, <2>4
  <1> QED
    BY <1>2, <1>3

(* Every step, by what it does to the events.                              *)
LEMMA StepKinds ==
  ASSUME RmInv, [Next]_vars
  PROVE  /\ RmInv'
         /\ \/ sent' = sent + 1 /\ UNCHANGED <<published, dropped>>
            \/ UNCHANGED <<sent, published, dropped>>
            \/ UNCHANGED <<sent, published>> /\ "rabbitmq" \in observers /\ RmPut
            \/ /\ UNCHANGED <<sent, dropped>>
               /\ "rabbitmq" \in observers
               /\ rmWorker.pc = "publish"
               /\ published' = rmWorker.pending
  <1>1. CASE UNCHANGED vars
    <2>1. UNCHANGED <<sent, observers, rmCallbacks, rmQueue, rmWorker, rabbit, published, dropped>>
      BY <1>1 DEF vars, subjectVars, rmVars
    <2>2. RmTyped' /\ InOrder' /\ HeldNotDropped' /\ WorkerBusy'
      BY <2>1 DEF RmInv, RmTyped, InOrder, Increasing, HeldNotDropped, WorkerBusy
    <2>3. NothingSkipped'
      BY <2>1 DEF RmInv, NothingSkipped
    <2> QED
      BY <2>1, <2>2, <2>3 DEF RmInv
  <1>2. CASE RunnerStateChanged \/ RunStopped \/ StateRepublished \/ BuildChangedOrFailure
    <2>1. /\ sent' = sent + 1
          /\ IF "rabbitmq" \in observers THEN RmOnEvent ELSE UNCHANGED rmVars
          /\ UNCHANGED observers
      BY <1>2 DEF RunnerStateChanged, RunStopped, StateRepublished, BuildChangedOrFailure, Changed, StopAsked,
                  Republished, OtherNews, NotifyRunner
    <2> QED
      BY <2>1, GivenKeeps
  <1>3. CASE WebSocketStep
    <2>1. UNCHANGED <<sent, observers, rmCallbacks, rmQueue, rmWorker, rabbit, published, dropped>>
      BY <1>3 DEF WebSocketStep, subjectVars, rmVars
    <2>2. RmTyped' /\ InOrder' /\ HeldNotDropped' /\ WorkerBusy'
      BY <2>1 DEF RmInv, RmTyped, InOrder, Increasing, HeldNotDropped, WorkerBusy
    <2>3. NothingSkipped'
      BY <2>1 DEF RmInv, NothingSkipped
    <2> QED
      BY <2>1, <2>2, <2>3 DEF RmInv
  <1>4. CASE RabbitMQStep
    <2>1. /\ "rabbitmq" \in observers
          /\ RmProgress \/ RmOthers
          /\ UNCHANGED <<sent, observers>>
      BY <1>4 DEF RabbitMQStep, subjectVars
    <2>2. CASE RmPut
      BY <2>1, <2>2, PutKeeps DEF RmPut
    <2>3. CASE RmGet
      BY <2>1, <2>3, GetKeeps
    <2>4. CASE RmPublish \/ RmCallFails
      BY <2>1, <2>4, AttemptKeeps
    <2>5. CASE \/ RmExit \/ RmNoReconnection \/ RmReconnect \/ RmGetExchange
               \/ RmReconnectFails \/ RmConnectionDies \/ RmConnectionClose
               \/ RmClose \/ RmShutdown
      BY <2>1, <2>5, WorkerMoves
    <2> QED
      BY <2>1, <2>2, <2>3, <2>4, <2>5 DEF RmProgress, RmOthers
  <1> QED
    BY <1>1, <1>2, <1>3, <1>4 DEF Next

(* What the queue, the callbacks and the worker hold is in order and       *)
(* nothing accepted is skipped: the invariant DeliversInOrder follows      *)
(* from.                                                                   *)
THEOREM RabbitMQInvariance == Spec => []RmInv
  <1>1. Init => RmInv
    BY RmInitInv
  <1>2. RmInv /\ [Next]_vars => RmInv'
    BY StepKinds
  <1> QED
    BY <1>1, <1>2, PTL DEF Spec

-----------------------------------------------------------------------------
(* Every step is a step of OrderedDelivery, or none of its business: an    *)
(* event is given, one that was outstanding is lost, or the oldest of the  *)
(* outstanding ones is delivered.                                          *)
LEMMA StepImplements ==
  ASSUME RmInv, [Next]_vars
  PROVE  [Promise!Next]_(Promise!vars)
  <1> USE DEF Promise!Next, Promise!vars
  <1>1. CASE sent' = sent + 1 /\ UNCHANGED <<published, dropped>>
    BY <1>1 DEF Promise!Give
  <1>2. CASE UNCHANGED <<sent, published, dropped>>
    BY <1>2
  <1>3. CASE UNCHANGED <<sent, published>> /\ RmPut
    <2> DEFINE event == Head(rmCallbacks)
    <2>1. rmCallbacks # <<>> /\ (dropped' = dropped \/ dropped' = dropped \cup {event})
      BY <1>3 DEF RmPut
    <2>2. event = rmCallbacks[1] /\ 1 \in 1..Len(rmCallbacks) /\ event \in Nat
      BY <2>1, TailElements DEF RmInv, RmTyped
    <2>3. published < event /\ event <= sent /\ event \notin dropped
      BY <2>2 DEF RmInv, InOrder, HeldNotDropped
    <2> HIDE DEF event
    <2>4. event \in Promise!Outstanding
      BY <2>2, <2>3, HeldTypes DEF Promise!Outstanding
    <2> QED
      BY <1>3, <2>1, <2>4 DEF Promise!Lose
  <1>4. CASE /\ UNCHANGED <<sent, dropped>>
             /\ "rabbitmq" \in observers
             /\ rmWorker.pc = "publish"
             /\ published' = rmWorker.pending
    <2>1. /\ rmWorker.pending # NoMessage
          /\ published <= rmWorker.pending
          /\ rmWorker.pending <= sent
          /\ rmWorker.pending \notin dropped
      BY <1>4 DEF RmInv, WorkerBusy, InOrder, HeldNotDropped
    <2>2. CASE published = rmWorker.pending
      BY <1>4, <2>2
    <2>3. CASE published # rmWorker.pending
      <3>1. rmWorker.pending \in Promise!Outstanding
        BY <2>1, <2>3, HeldTypes DEF Promise!Outstanding
      <3>2. ASSUME NEW k \in Promise!Outstanding
            PROVE  rmWorker.pending <= k
        <4>1. k \in (published + 1)..sent /\ k \notin dropped
          BY DEF Promise!Outstanding
        <4>2. \/ k = rmWorker.pending
              \/ \E i \in 1..Len(rmQueue) : k = rmQueue[i]
              \/ \E j \in 1..Len(rmCallbacks) : k = rmCallbacks[j]
          BY <1>4, <4>1 DEF RmInv, NothingSkipped
        <4>3. k = rmWorker.pending \/ rmWorker.pending < k
          BY <4>2 DEF RmInv, InOrder
        <4> QED
          BY <4>1, <4>3, HeldTypes
      <3> QED
        BY <1>4, <3>1, <3>2 DEF Promise!Deliver
    <2> QED
      BY <2>2, <2>3
  <1> QED
    BY <1>1, <1>2, <1>3, <1>4, StepKinds

(* Whatever fails, and however often a publication is tried again, events  *)
(* reach the exchange in the order of the notifications, and none that the *)
(* queue has accepted is skipped.                                          *)
THEOREM DeliversInOrder == Spec => RmDeliversInOrder
  <1>1. Init => Promise!Init
    BY DEF Init, SubjectInit, RmInit, Promise!Init
  <1>2. RmInv /\ [Next]_vars => [Promise!Next]_(Promise!vars)
    BY StepImplements
  <1> QED
    BY <1>1, <1>2, RabbitMQInvariance, PTL DEF Spec, RmDeliversInOrder, Promise!Spec

-----------------------------------------------------------------------------
(* What the clients are sent.                                              *)
Told == [run : Runs, status : Announced]

WsWorkers ==
    [pc : {"get", "cast", "exited"}, event : Told \cup {<<>>}, owed : SUBSET Clients, served : SUBSET Clients,
     churned : BOOLEAN, gone : BOOLEAN]

(* The last event of r in seq, if there is one, is that r is s.            *)
LastIs(seq, r, s) ==
    \A i \in 1..Len(seq) :
        (seq[i].run = r /\ \A j \in 1..Len(seq) : j > i => seq[j].run # r) => seq[i].status = s

WsTyped ==
    /\ status \in [Runs -> Statuses]
    /\ stopping \subseteq Runs
    /\ wsCallbacks \in Seq(Told)
    /\ wsQueue \in Seq(Told)
    /\ wsWorker \in WsWorkers
    /\ Casting => wsWorker.event \in Told
    /\ connection \in [Clients -> {"away", "open", "lost"}]
    /\ clients \subseteq Clients
    /\ view \in [Clients -> [Runs -> Announced \cup {"absent"}]]
    /\ missed \in [Clients -> SUBSET Runs]

(* The newest of the events of a run that are on their way says what the   *)
(* run is; those behind the callbacks do unless one has been refused.  But *)
(* no event says that a job is placed again.                               *)
NewestIsTrue ==
    \A r \in Runs :
        status[r] \in Announced =>
            /\ LastIs(wsCallbacks, r, status[r])
            /\ \A c \in Clients :
                (r \notin missed[c] /\ ~Mentions(wsCallbacks, r)) =>
                    /\ LastIs(wsQueue, r, status[r])
                    /\ (Casting /\ wsWorker.event.run = r /\ ~Mentions(wsQueue, r))
                            => wsWorker.event.status = status[r]

(* Nothing is told of a run that is not tracked yet.                       *)
UnbornUntold ==
    \A r \in Runs :
        status[r] = "unborn" =>
            /\ ~Mentions(wsCallbacks, r)
            /\ ~Mentions(wsQueue, r)
            /\ ~(Casting /\ wsWorker.event.run = r)
            /\ \A c \in Clients : view[c][r] = "absent"

(* A process without the server.                                           *)
NoServer ==
    "websocket" \notin observers =>
        /\ wsCallbacks = <<>>
        /\ wsQueue = <<>>
        /\ ~Casting
        /\ clients = {}

WsInv ==
    /\ WsTyped
    /\ NewestIsTrue
    /\ UnbornUntold
    /\ NoServer
    /\ WsClientsInformed

(* The elements of a sequence of events without its first.                 *)
LEMMA ToldTail ==
  ASSUME NEW seq \in Seq(Told), seq # <<>>
  PROVE  /\ Len(seq) \in Nat \ {0}
         /\ Tail(seq) \in Seq(Told)
         /\ Len(Tail(seq)) = Len(seq) - 1
         /\ \A i \in 1..(Len(seq) - 1) : Tail(seq)[i] = seq[i + 1]
         /\ Head(seq) = seq[1]
         /\ Head(seq) \in Told
BY HeadTailProperties, EmptySeq

(* A run is mentioned when some event of the sequence is about it.         *)
LEMMA MentionsIndex ==
  ASSUME NEW seq \in Seq(Told), NEW r
  PROVE  Mentions(seq, r) <=> \E i \in 1..Len(seq) : seq[i].run = r
BY DEF Mentions

(* What is left of a sequence after its first event has been taken.        *)
LEMMA TailTells ==
  ASSUME NEW seq \in Seq(Told), seq # <<>>, NEW r
  PROVE  /\ Mentions(Tail(seq), r) => Mentions(seq, r)
         /\ Mentions(seq, r) => (Mentions(Tail(seq), r) \/ Head(seq).run = r)
         /\ Head(seq).run = r => Mentions(seq, r)
         /\ \A s : LastIs(seq, r, s) =>
                /\ LastIs(Tail(seq), r, s)
                /\ (Head(seq).run = r /\ ~Mentions(Tail(seq), r)) => Head(seq).status = s
  <1> DEFINE rest == Tail(seq)
  <1>1. /\ Len(seq) \in Nat \ {0}
        /\ rest \in Seq(Told)
        /\ Len(rest) = Len(seq) - 1
        /\ \A i \in 1..(Len(seq) - 1) : rest[i] = seq[i + 1]
        /\ Head(seq) = seq[1]
    BY ToldTail
  <1> HIDE DEF rest
  <1>2. /\ \A i \in 1..Len(rest) : i + 1 \in 1..Len(seq) /\ rest[i] = seq[i + 1]
        /\ \A i \in 2..Len(seq) : i - 1 \in 1..Len(rest) /\ rest[i - 1] = seq[i]
        /\ 1 \in 1..Len(seq)
    BY <1>1
  <1>3. Mentions(rest, r) => Mentions(seq, r)
    BY <1>1, <1>2, MentionsIndex
  <1>4. Mentions(seq, r) => (Mentions(rest, r) \/ Head(seq).run = r)
    <2>1. \A i \in 1..Len(seq) : i = 1 \/ i \in 2..Len(seq)
      BY <1>1
    <2> QED
      BY <1>1, <1>2, <2>1, MentionsIndex
  <1>5. Head(seq).run = r => Mentions(seq, r)
    BY <1>1, <1>2, MentionsIndex
  <1>6. ASSUME NEW s, LastIs(seq, r, s)
        PROVE  LastIs(rest, r, s)
    <2> SUFFICES ASSUME NEW i \in 1..Len(rest),
                        rest[i].run = r,
                        \A j \in 1..Len(rest) : j > i => rest[j].run # r
                 PROVE  rest[i].status = s
      BY DEF LastIs
    <2>1. i + 1 \in 1..Len(seq) /\ seq[i + 1].run = r
      BY <1>2
    <2>2. ASSUME NEW j \in 1..Len(seq), j > i + 1
          PROVE  seq[j].run # r
      <3>1. j - 1 \in 1..Len(rest) /\ rest[j - 1] = seq[j] /\ j - 1 > i
        BY <1>1, <1>2, <2>2
      <3> QED
        BY <3>1
    <2> QED
      BY <1>2, <1>6, <2>1, <2>2 DEF LastIs
  <1>7. ASSUME NEW s, LastIs(seq, r, s), Head(seq).run = r, ~Mentions(rest, r)
        PROVE  Head(seq).status = s
    <2>1. ASSUME NEW j \in 1..Len(seq), j > 1
          PROVE  seq[j].run # r
      <3>1. j - 1 \in 1..Len(rest) /\ rest[j - 1] = seq[j]
        BY <1>1, <1>2, <2>1
      <3> QED
        BY <1>1, <1>7, <3>1, MentionsIndex
    <2> QED
      BY <1>1, <1>2, <1>7, <2>1 DEF LastIs
  <1> QED
    BY <1>3, <1>4, <1>5, <1>6, <1>7 DEF rest

(* ... and with one event more.                                            *)
LEMMA AppendTells ==
  ASSUME NEW seq \in Seq(Told), NEW event \in Told, NEW r
  PROVE  /\ Append(seq, event) \in Seq(Told)
         /\ Mentions(Append(seq, event), r) <=> (Mentions(seq, r) \/ event.run = r)
         /\ event.run = r => LastIs(Append(seq, event), r, event.status)
         /\ \A s : (event.run # r /\ LastIs(seq, r, s)) => LastIs(Append(seq, event), r, s)
  <1> DEFINE more == Append(seq, event)
  <1>1. /\ more \in Seq(Told)
        /\ Len(more) = Len(seq) + 1
        /\ Len(seq) \in Nat
        /\ \A i \in 1..Len(seq) : more[i] = seq[i]
        /\ more[Len(seq) + 1] = event
    BY AppendProperties
  <1> HIDE DEF more
  <1>2. \A i \in 1..Len(more) : i \in 1..Len(seq) \/ i = Len(seq) + 1
    BY <1>1
  <1>3. 1..Len(seq) \subseteq 1..Len(more) /\ Len(seq) + 1 \in 1..Len(more)
    BY <1>1
  <1>4. Mentions(more, r) <=> (Mentions(seq, r) \/ event.run = r)
    BY <1>1, <1>2, <1>3, MentionsIndex
  <1>5. ASSUME event.run = r
        PROVE  LastIs(more, r, event.status)
    <2>1. \A i \in 1..Len(seq) : Len(seq) + 1 > i
      BY <1>1
    <2> QED
      BY <1>1, <1>2, <1>3, <1>5, <2>1 DEF LastIs
  <1>6. ASSUME NEW s, event.run # r, LastIs(seq, r, s)
        PROVE  LastIs(more, r, s)
    BY <1>1, <1>2, <1>3, <1>6 DEF LastIs
  <1> QED
    BY <1>1, <1>4, <1>5, <1>6 DEF more

(* The invariant holds at first.                                           *)
LEMMA WsInitInv == ASSUME Init PROVE WsInv
  <1> USE DEF Init, SubjectInit, WsInit, NothingSent
  <1>1. /\ wsWorker = AtGet
        /\ wsWorker.pc = "get"
        /\ wsWorker \in WsWorkers
        /\ ~Casting
    BY DEF AtGet, WsWorkers, Casting
  <1>2. Len(wsCallbacks) = 0 /\ Len(wsQueue) = 0
    OBVIOUS
  <1>3. WsTyped
    BY <1>1 DEF WsTyped, Statuses, Announced
  <1>4. NewestIsTrue
    BY <1>1, <1>2 DEF NewestIsTrue, LastIs
  <1>5. UnbornUntold
    BY <1>1, <1>2 DEF UnbornUntold, Mentions
  <1>6. NoServer /\ WsClientsInformed
    BY <1>1 DEF NoServer, WsClientsInformed
  <1> QED
    BY <1>3, <1>4, <1>5, <1>6 DEF WsInv

(* Of a run that no event is about, anything may be the last event.        *)
LEMMA UntoldLast ==
  ASSUME NEW seq \in Seq(Told), NEW r, ~Mentions(seq, r)
  PROVE  \A s : LastIs(seq, r, s)
BY MentionsIndex DEF LastIs

-----------------------------------------------------------------------------
(* A step that leaves the runs and the server as they are.                 *)
LEMMA SameServerKeeps ==
  ASSUME WsInv, UNCHANGED <<status, stopping, wsVars, observers>>
  PROVE  WsInv'
  <1>1. UNCHANGED <<status, stopping, wsCallbacks, wsQueue, wsWorker, connection, clients, view, missed, observers>>
    BY DEF wsVars
  <1>2. WsTyped' /\ NoServer'
    BY <1>1 DEF WsInv, WsTyped, NoServer, Casting
  <1>3. NewestIsTrue' /\ UnbornUntold'
    BY <1>1 DEF WsInv, NewestIsTrue, UnbornUntold, Casting
  <1>4. WsClientsInformed'
    BY <1>1 DEF WsInv, WsClientsInformed, Awaits, UpToDate, RunningModels, Casting
  <1> QED
    BY <1>2, <1>3, <1>4 DEF WsInv

(* The subject is notified that r is s.                                    *)
LEMMA NotifiedKeeps ==
  ASSUME WsInv,
         NEW r \in Runs, NEW s \in Tracked,
         status' = [status EXCEPT ![r] = s],
         stopping' \in {stopping, stopping \cup {r}},
         IF "websocket" \in observers THEN WsOnRunnerStateChanged(r, s) ELSE UNCHANGED wsVars,
         UNCHANGED observers
  PROVE  WsInv'
  <1>1. /\ status' \in [Runs -> Statuses]
        /\ status'[r] = s
        /\ s # "unborn"
        /\ stopping' \subseteq Runs
        /\ \A q \in Runs : q # r => status'[q] = status[q] /\ (q \in stopping' <=> q \in stopping)
    BY DEF WsInv, WsTyped, Tracked
  <1>2. /\ UNCHANGED <<wsQueue, wsWorker, connection, clients, view, missed, observers>>
        /\ Casting' = Casting
    BY DEF WsOnRunnerStateChanged, wsVars, Casting
  <1>3. wsCallbacks \in Seq(Told) /\ wsQueue \in Seq(Told)
    BY DEF WsInv, WsTyped
  <1>4. CASE "websocket" \notin observers
    <2>1. wsCallbacks' = wsCallbacks
      BY <1>4 DEF wsVars
    <2>2. wsCallbacks = <<>> /\ wsQueue = <<>> /\ ~Casting /\ clients = {}
      BY <1>4 DEF WsInv, NoServer
    <2>3. WsTyped' /\ NoServer' /\ WsClientsInformed'
      BY <1>1, <1>2, <2>1, <2>2 DEF WsInv, WsTyped, NoServer, WsClientsInformed
    <2>4. NewestIsTrue'
      BY <1>2, <2>1, <2>2 DEF NewestIsTrue, LastIs
    <2>5. UnbornUntold'
      BY <1>1, <1>2, <2>1 DEF WsInv, UnbornUntold
    <2> QED
      BY <2>3, <2>4, <2>5 DEF WsInv
  <1>5. CASE "websocket" \in observers /\ s \in Announced
    <2> DEFINE event == [run |-> r, status |-> s]
    <2>1. wsCallbacks' = Append(wsCallbacks, event)
      BY <1>5 DEF WsOnRunnerStateChanged
    <2>2. event \in Told /\ event.run = r /\ event.status = s
      BY <1>5 DEF Told
    <2> HIDE DEF event
    <2>3. /\ wsCallbacks' \in Seq(Told)
          /\ \A q : Mentions(wsCallbacks', q) <=> (Mentions(wsCallbacks, q) \/ q = r)
          /\ LastIs(wsCallbacks', r, s)
          /\ \A q, t : (q # r /\ LastIs(wsCallbacks, q, t)) => LastIs(wsCallbacks', q, t)
      BY <1>3, <2>1, <2>2, AppendTells
    <2>4. WsTyped' /\ NoServer'
      BY <1>1, <1>2, <1>5, <2>3 DEF WsInv, WsTyped, NoServer
    <2>5. NewestIsTrue'
      BY <1>1, <1>2, <2>3 DEF WsInv, NewestIsTrue
    <2>6. UnbornUntold'
      BY <1>1, <1>2, <2>3 DEF WsInv, UnbornUntold
    <2>7. WsClientsInformed'
      BY <1>1, <1>2, <2>3 DEF WsInv, WsClientsInformed, Awaits, UpToDate, RunningModels
    <2> QED
      BY <2>4, <2>5, <2>6, <2>7 DEF WsInv
  <1>6. CASE "websocket" \in observers /\ s \notin Announced
    <2>1. wsCallbacks' = wsCallbacks
      BY <1>6 DEF WsOnRunnerStateChanged
    <2>2. status'[r] = "INITIALIZING"
      BY <1>1, <1>6 DEF Tracked, Statuses, Announced
    <2>4. WsTyped' /\ NoServer'
      BY <1>1, <1>2, <1>6, <2>1 DEF WsInv, WsTyped, NoServer
    <2>5. NewestIsTrue'
      BY <1>1, <1>2, <1>6, <2>1 DEF WsInv, NewestIsTrue
    <2>6. UnbornUntold'
      BY <1>1, <1>2, <2>1 DEF WsInv, UnbornUntold
    <2>7. WsClientsInformed'
      BY <1>1, <1>2, <1>6, <2>1, <2>2 DEF WsInv, WsClientsInformed, Awaits, UpToDate, RunningModels
    <2> QED
      BY <2>4, <2>5, <2>6, <2>7 DEF WsInv
  <1> QED
    BY <1>4, <1>5, <1>6

(* The oldest callback puts its event in the queue, or it is refused, and  *)
(* then every client misses it.                                            *)
LEMMA WsPutKeeps ==
  ASSUME WsInv, WsPut, UNCHANGED <<status, stopping, observers>>
  PROVE  WsInv'
  <1> DEFINE event == Head(wsCallbacks)
  <1>1. /\ wsCallbacks # <<>>
        /\ wsCallbacks' = Tail(wsCallbacks)
        /\ UNCHANGED <<wsWorker, connection, clients, view, observers>>
        /\ Casting' = Casting
        /\ wsCallbacks \in Seq(Told)
        /\ wsQueue \in Seq(Told)
        /\ "websocket" \in observers
    BY DEF WsPut, WsInv, WsTyped, NoServer, Casting
  <1>2. /\ wsCallbacks' \in Seq(Told)
        /\ event \in Told
        /\ \A r : /\ Mentions(wsCallbacks', r) => Mentions(wsCallbacks, r)
                  /\ Mentions(wsCallbacks, r) => (Mentions(wsCallbacks', r) \/ event.run = r)
                  /\ event.run = r => Mentions(wsCallbacks, r)
                  /\ \A s : LastIs(wsCallbacks, r, s) =>
                        /\ LastIs(wsCallbacks', r, s)
                        /\ (event.run = r /\ ~Mentions(wsCallbacks', r)) => event.status = s
    BY <1>1, TailTells, ToldTail
  <1>3. event.run \in Runs
    BY <1>2 DEF Told
  <1>4. CASE wsQueue' = Append(wsQueue, event) /\ UNCHANGED missed
    <2> HIDE DEF event
    <2>1. /\ wsQueue' \in Seq(Told)
          /\ \A r : /\ Mentions(wsQueue', r) <=> (Mentions(wsQueue, r) \/ event.run = r)
                    /\ event.run = r => LastIs(wsQueue', r, event.status)
                    /\ \A s : (event.run # r /\ LastIs(wsQueue, r, s)) => LastIs(wsQueue', r, s)
      BY <1>1, <1>2, <1>4, AppendTells
    <2>2. WsTyped' /\ NoServer'
      BY <1>1, <1>2, <1>4, <2>1 DEF WsInv, WsTyped, NoServer
    <2>3. NewestIsTrue'
      <3> SUFFICES ASSUME NEW r \in Runs, status[r] \in Announced
                   PROVE  /\ LastIs(wsCallbacks', r, status'[r])
                          /\ \A c \in Clients :
                                (r \notin missed'[c] /\ ~Mentions(wsCallbacks', r)) =>
                                    /\ LastIs(wsQueue', r, status'[r])
                                    /\ (Casting' /\ wsWorker'.event.run = r /\ ~Mentions(wsQueue', r))
                                            => wsWorker'.event.status = status'[r]
        BY DEF NewestIsTrue
      <3>1. LastIs(wsCallbacks, r, status[r])
        BY DEF WsInv, NewestIsTrue
      <3>2. CASE event.run = r
        BY <1>1, <1>2, <2>1, <3>1, <3>2
      <3>3. CASE event.run # r
        BY <1>1, <1>2, <1>4, <2>1, <3>1, <3>3 DEF WsInv, NewestIsTrue
      <3> QED
        BY <3>2, <3>3
    <2>4. UnbornUntold'
      BY <1>1, <1>2, <2>1 DEF WsInv, UnbornUntold
    <2>5. WsClientsInformed'
      BY <1>1, <1>2, <1>4, <2>1 DEF WsInv, WsClientsInformed, Awaits, UpToDate, RunningModels
    <2> QED
      BY <2>2, <2>3, <2>4, <2>5 DEF WsInv
  <1>5. CASE missed' = Missing(Clients, event.run) /\ UNCHANGED wsQueue
    <2> HIDE DEF event
    <2>1. /\ missed' \in [Clients -> SUBSET Runs]
          /\ \A c \in Clients : event.run \in missed'[c] /\ missed[c] \subseteq missed'[c]
      BY <1>3, <1>5 DEF Missing, WsInv, WsTyped
    <2>2. WsTyped' /\ NoServer'
      BY <1>1, <1>2, <1>5, <2>1 DEF WsInv, WsTyped, NoServer
    <2>3. NewestIsTrue'
      BY <1>1, <1>2, <1>5, <2>1 DEF WsInv, NewestIsTrue
    <2>4. UnbornUntold'
      BY <1>1, <1>2, <1>5 DEF WsInv, UnbornUntold
    <2>5. WsClientsInformed'
      BY <1>1, <1>2, <1>5, <2>1 DEF WsInv, WsClientsInformed, Awaits, UpToDate, RunningModels
    <2> QED
      BY <2>2, <2>3, <2>4, <2>5 DEF WsInv
  <1> QED
    BY <1>4, <1>5 DEF WsPut


(* The worker takes the oldest event of the queue, for those who are there. *)
LEMMA WsGetKeeps ==
  ASSUME WsInv, WsGet, UNCHANGED <<status, stopping, observers>>
  PROVE  WsInv'
  <1> DEFINE event == Head(wsQueue)
  <1>1. /\ wsWorker.pc = "get"
        /\ ~Casting
        /\ wsQueue # <<>>
        /\ wsQueue' = Tail(wsQueue)
        /\ UNCHANGED <<wsCallbacks, connection, clients, view, missed, observers>>
        /\ wsQueue \in Seq(Told)
        /\ "websocket" \in observers
    BY DEF WsGet, WsInv, WsTyped, NoServer, Casting
  <1>2. /\ wsQueue' \in Seq(Told)
        /\ event \in Told
        /\ \A r : /\ Mentions(wsQueue', r) => Mentions(wsQueue, r)
                  /\ Mentions(wsQueue, r) => (Mentions(wsQueue', r) \/ event.run = r)
                  /\ event.run = r => Mentions(wsQueue, r)
                  /\ \A s : LastIs(wsQueue, r, s) =>
                        /\ LastIs(wsQueue', r, s)
                        /\ (event.run = r /\ ~Mentions(wsQueue', r)) => event.status = s
    BY <1>1, TailTells, ToldTail
  <1>3. CASE clients = {}
    <2>1. wsWorker' = AtGet
      BY <1>3 DEF WsGet
    <2>2. wsWorker' \in WsWorkers /\ ~Casting'
      BY <2>1 DEF AtGet, WsWorkers, Casting
    <2>3. WsTyped' /\ NoServer' /\ WsClientsInformed'
      BY <1>1, <1>2, <1>3, <2>2 DEF WsInv, WsTyped, NoServer, WsClientsInformed
    <2>4. NewestIsTrue' /\ UnbornUntold'
      BY <1>1, <1>2, <2>2 DEF WsInv, NewestIsTrue, UnbornUntold
    <2> QED
      BY <2>3, <2>4 DEF WsInv
  <1>4. CASE clients # {}
    <2> DEFINE casting == [AtGet EXCEPT !.pc = "cast"]
               with == [casting EXCEPT !.event = event]
    <2>1. wsWorker' = [with EXCEPT !.owed = clients]
      BY <1>4 DEF WsGet
    <2>2. casting \in WsWorkers /\ casting.pc = "cast" /\ casting.served = {}
      BY DEF AtGet, WsWorkers
    <2> HIDE DEF casting, event
    <2>3. with \in WsWorkers /\ with.pc = "cast" /\ with.served = {} /\ with.event = event
      BY <1>2, <2>2 DEF WsWorkers
    <2> HIDE DEF with
    <2>4. clients \subseteq Clients
      BY DEF WsInv, WsTyped
    <2>5. /\ wsWorker' \in WsWorkers
          /\ wsWorker'.pc = "cast"
          /\ wsWorker'.served = {}
          /\ wsWorker'.event = event
          /\ wsWorker'.owed = clients
          /\ Casting'
      BY <2>1, <2>3, <2>4 DEF WsWorkers, Casting
    <2>6. WsTyped' /\ NoServer'
      BY <1>1, <1>2, <2>5 DEF WsInv, WsTyped, NoServer
    <2>7. NewestIsTrue' /\ UnbornUntold'
      BY <1>1, <1>2, <2>5 DEF WsInv, NewestIsTrue, UnbornUntold
    <2>8. WsClientsInformed'
      BY <1>1, <1>2, <2>5 DEF WsInv, WsClientsInformed, Awaits, UpToDate, RunningModels
    <2> QED
      BY <2>6, <2>7, <2>8 DEF WsInv
  <1> QED
    BY <1>3, <1>4

(* The worker ends a broadcast, or itself: those who were to be sent the   *)
(* event and were not miss it.                                             *)
LEMMA WsCastEndKeeps ==
  ASSUME WsInv, WsExit \/ WsCastDone \/ WsCastRaises, UNCHANGED <<status, stopping, observers>>
  PROVE  WsInv'
  <1>1. UNCHANGED <<wsCallbacks, wsQueue, connection, clients, view, observers>>
    BY DEF WsExit, WsCastDone, WsCastRaises
  <1>2. wsWorker' \in WsWorkers /\ ~Casting'
    <2>1. wsWorker' = AtGet \/ wsWorker' = Exited
      BY DEF WsExit, WsCastDone, WsCastRaises
    <2>2. AtGet \in WsWorkers /\ AtGet.pc = "get"
      BY DEF AtGet, WsWorkers
    <2>3. Exited \in WsWorkers /\ Exited.pc = "exited"
      BY <2>2 DEF Exited, WsWorkers
    <2> QED
      BY <2>1, <2>2, <2>3 DEF Casting
  <1>3. /\ missed' \in [Clients -> SUBSET Runs]
        /\ \A c \in Clients :
              /\ missed[c] \subseteq missed'[c]
              /\ (Casting /\ c \in (clients \cap wsWorker.owed) \ wsWorker.served)
                    => wsWorker.event.run \in missed'[c]
    <2>1. CASE WsExit
      BY <2>1 DEF WsExit, Casting, WsInv, WsTyped
    <2>2. CASE WsCastDone \/ WsCastRaises
      <3>1. /\ missed' = Missing((clients \cap wsWorker.owed) \ wsWorker.served, wsWorker.event.run)
            /\ wsWorker.event.run \in Runs
        BY <2>2 DEF WsCastDone, WsCastRaises, WsInv, WsTyped, Told
      <3> QED
        BY <3>1 DEF Missing, WsInv, WsTyped
    <2> QED
      BY <2>1, <2>2
  <1>4. WsTyped' /\ NoServer'
    BY <1>1, <1>2, <1>3 DEF WsInv, WsTyped, NoServer
  <1>5. NewestIsTrue' /\ UnbornUntold'
    BY <1>1, <1>2, <1>3 DEF WsInv, NewestIsTrue, UnbornUntold
  <1>6. WsClientsInformed'
    BY <1>1, <1>2, <1>3 DEF WsInv, WsClientsInformed, Awaits, UpToDate, RunningModels
  <1> QED
    BY <1>4, <1>5, <1>6 DEF WsInv

(* One client is sent the event: nothing newer is on its way to it, or it  *)
(* still awaits that.                                                      *)
LEMMA WsSendKeeps ==
  ASSUME WsInv, NEW c \in Clients, WsSend(c), UNCHANGED <<status, stopping, observers>>
  PROVE  WsInv'
  <1> DEFINE event == wsWorker.event
  <1>1. /\ Casting
        /\ wsWorker \in WsWorkers
        /\ event \in Told
        /\ wsWorker' = [wsWorker EXCEPT !.served = @ \cup {c}]
        /\ UNCHANGED <<wsCallbacks, wsQueue, connection, clients, missed, observers>>
    BY DEF WsSend, WsInv, WsTyped
  <1>2. /\ wsWorker' \in WsWorkers
        /\ wsWorker'.event = event
        /\ wsWorker'.owed = wsWorker.owed
        /\ wsWorker'.served = wsWorker.served \cup {c}
        /\ Casting'
    BY <1>1 DEF WsWorkers, Casting
  <1> HIDE DEF event
  <1>3. event.run \in Runs /\ event.status \in Announced
    BY <1>1 DEF Told
  <1>4. /\ view' \in [Clients -> [Runs -> Announced \cup {"absent"}]]
        /\ \A d \in Clients, r \in Runs : (d # c \/ r # event.run) => view'[d][r] = view[d][r]
        /\ connection[c] = "open" => view'[c][event.run] = event.status
    BY <1>3 DEF WsSend, WsInv, WsTyped, event
  <1>5. WsTyped' /\ NoServer'
    BY <1>1, <1>2, <1>4 DEF WsInv, WsTyped, NoServer
  <1>6. NewestIsTrue'
    BY <1>1, <1>2 DEF WsInv, NewestIsTrue, event
  <1>7. UnbornUntold'
    BY <1>1, <1>2, <1>4 DEF WsInv, UnbornUntold, event
  <1>8. WsClientsInformed'
    <2> SUFFICES ASSUME NEW d \in Clients, NEW r \in Runs,
                        d \in clients, connection[d] = "open", r \notin missed[d], ~Awaits(d, r)'
                 PROVE  UpToDate(d, r)'
      BY <1>1 DEF WsClientsInformed
    <2>1. /\ ~Mentions(wsCallbacks, r)
          /\ ~Mentions(wsQueue, r)
          /\ ~(event.run = r /\ d \in wsWorker.owed \ (wsWorker.served \cup {c}))
      BY <1>1, <1>2 DEF Awaits
    <2>2. CASE d = c /\ r = event.run
      <3>1. CASE status[r] \in Announced
        <4>1. event.status = status[r]
          BY <1>1, <2>1, <2>2, <3>1 DEF WsInv, NewestIsTrue, event
        <4> QED
          BY <1>3, <1>4, <2>2, <4>1 DEF UpToDate
      <3>2. CASE status[r] = "INITIALIZING"
        BY <3>2 DEF UpToDate
      <3>3. status[r] # "unborn"
        BY <1>1, <2>2 DEF WsInv, UnbornUntold, event
      <3> QED
        BY <3>1, <3>2, <3>3 DEF WsInv, WsTyped, Statuses, Announced
    <2>3. CASE ~(d = c /\ r = event.run)
      <3>1. ~Awaits(d, r)
        BY <1>1, <2>1, <2>3 DEF Awaits, event
      <3>2. UpToDate(d, r)
        BY <3>1 DEF WsInv, WsClientsInformed
      <3> QED
        BY <1>4, <2>3, <3>2 DEF UpToDate, RunningModels
    <2> QED
      BY <2>2, <2>3
  <1> QED
    BY <1>5, <1>6, <1>7, <1>8 DEF WsInv

-----------------------------------------------------------------------------
(* What the set of clients does to the worker.                             *)
LEMMA ChurnKeepsWorker ==
  ASSUME WsInv, NEW cs, WithClients(cs)
  PROVE  /\ clients' = cs
         /\ wsWorker' \in WsWorkers
         /\ wsWorker'.event = wsWorker.event
         /\ wsWorker'.owed = wsWorker.owed
         /\ wsWorker'.served = wsWorker.served
         /\ Casting' = Casting
  <1>1. wsWorker \in WsWorkers
    BY DEF WsInv, WsTyped
  <1>2. CASE Casting
    <2> DEFINE churned == [wsWorker EXCEPT !.churned = TRUE]
               gone == wsWorker.gone \/ cs = {}
    <2>1. wsWorker' = [churned EXCEPT !.gone = gone]
      BY <1>2 DEF WithClients
    <2>2. /\ churned \in WsWorkers
          /\ churned.pc = wsWorker.pc
          /\ churned.event = wsWorker.event
          /\ churned.owed = wsWorker.owed
          /\ churned.served = wsWorker.served
      BY <1>1 DEF WsWorkers
    <2>3. gone \in BOOLEAN
      OBVIOUS
    <2> HIDE DEF churned, gone
    <2> QED
      BY <2>1, <2>2, <2>3 DEF WsWorkers, WithClients, Casting
  <1>3. CASE ~Casting
    BY <1>1, <1>3 DEF WithClients, Casting
  <1> QED
    BY <1>2, <1>3

(* A client connects, and is sent the running models.                      *)
LEMMA WsConnectKeeps ==
  ASSUME WsInv, NEW c \in Clients, WsConnect(c), "websocket" \in observers, UNCHANGED <<status, stopping, observers>>
  PROVE  WsInv'
  <1>1. /\ WithClients(clients \cup {c})
        /\ connection' = [connection EXCEPT ![c] = "open"]
        /\ view' = [view EXCEPT ![c] = [r \in Runs |-> IF r \in RunningModels THEN "RUNNING" ELSE "absent"]]
        /\ missed' = [missed EXCEPT ![c] = @ \cap OnTheirWay]
        /\ UNCHANGED <<wsCallbacks, wsQueue>>
    BY DEF WsConnect
  <1>2. /\ clients' = clients \cup {c}
        /\ wsWorker' \in WsWorkers
        /\ wsWorker'.event = wsWorker.event
        /\ wsWorker'.owed = wsWorker.owed
        /\ wsWorker'.served = wsWorker.served
        /\ Casting' = Casting
    BY <1>1, ChurnKeepsWorker
  <1>3. /\ view' \in [Clients -> [Runs -> Announced \cup {"absent"}]]
        /\ \A d \in Clients : d # c => view'[d] = view[d]
        /\ \A r \in Runs : view'[c][r] = IF r \in RunningModels THEN "RUNNING" ELSE "absent"
    BY <1>1 DEF WsInv, WsTyped, RunningModels, Announced
  <1>4. /\ missed' \in [Clients -> SUBSET Runs]
        /\ \A d \in Clients, r \in Runs :
              (r \in missed[d] /\ r \notin missed'[d]) => d = c /\ r \notin OnTheirWay
        /\ \A d \in Clients : d # c => missed'[d] = missed[d]
    BY <1>1 DEF WsInv, WsTyped
  <1>5. connection' \in [Clients -> {"away", "open", "lost"}] /\ \A d \in Clients : d # c => connection'[d] = connection[d]
    BY <1>1 DEF WsInv, WsTyped
  <1>6. WsTyped' /\ NoServer'
    BY <1>1, <1>2, <1>3, <1>4, <1>5 DEF WsInv, WsTyped, NoServer
  <1>7. NewestIsTrue'
    <2> SUFFICES ASSUME NEW r \in Runs, status[r] \in Announced,
                        NEW d \in Clients, r \notin missed'[d], ~Mentions(wsCallbacks, r)
                 PROVE  /\ LastIs(wsQueue, r, status[r])
                        /\ (Casting /\ wsWorker.event.run = r /\ ~Mentions(wsQueue, r))
                                => wsWorker.event.status = status[r]
      BY <1>1, <1>2 DEF WsInv, NewestIsTrue
    <2>1. CASE r \notin missed[d]
      BY <2>1 DEF WsInv, NewestIsTrue
    <2>2. CASE r \in missed[d]
      <3>1. ~Mentions(wsQueue, r) /\ ~(Casting /\ wsWorker.event.run = r)
        BY <1>4, <2>2 DEF OnTheirWay
      <3>2. wsQueue \in Seq(Told)
        BY DEF WsInv, WsTyped
      <3> QED
        BY <3>1, <3>2, UntoldLast
    <2> QED
      BY <2>1, <2>2
  <1>8. UnbornUntold'
    BY <1>1, <1>2, <1>3 DEF WsInv, UnbornUntold, RunningModels
  <1>9. WsClientsInformed'
    <2> SUFFICES ASSUME NEW d \in Clients, NEW r \in Runs,
                        d \in clients', connection'[d] = "open", r \notin missed'[d], ~Awaits(d, r)'
                 PROVE  UpToDate(d, r)'
      BY DEF WsClientsInformed
    <2>1. CASE d = c
      BY <1>3, <2>1 DEF UpToDate, RunningModels
    <2>2. CASE d # c
      <3>1. ~Awaits(d, r)
        BY <1>1, <1>2 DEF Awaits
      <3>2. UpToDate(d, r)
        BY <1>2, <1>4, <1>5, <2>2, <3>1 DEF WsInv, WsClientsInformed
      <3> QED
        BY <1>3, <2>2, <3>2 DEF UpToDate, RunningModels
    <2> QED
      BY <2>1, <2>2
  <1> QED
    BY <1>6, <1>7, <1>8, <1>9 DEF WsInv

(* Clients that go are told nothing more.                                  *)
LEMMA WsLeaveKeeps ==
  ASSUME WsInv,
         \/ \E c \in Clients : ConnectionLost(c) \/ HandlerEnds(c)
         \/ WsServerClose,
         UNCHANGED <<status, stopping, observers>>
  PROVE  WsInv'
  <1>1. UNCHANGED <<wsCallbacks, wsQueue, missed, observers>>
    BY DEF ConnectionLost, HandlerEnds, WsServerClose
  <1>2. /\ clients' \subseteq clients
        /\ wsWorker' \in WsWorkers
        /\ wsWorker'.event = wsWorker.event
        /\ wsWorker'.owed = wsWorker.owed
        /\ wsWorker'.served = wsWorker.served
        /\ Casting' = Casting
    <2>1. CASE UNCHANGED <<wsWorker, clients>>
      BY <2>1 DEF WsInv, WsTyped, Casting
    <2>2. ASSUME NEW c \in Clients, HandlerEnds(c)
          PROVE  /\ clients' \subseteq clients
                 /\ wsWorker' \in WsWorkers
                 /\ wsWorker'.event = wsWorker.event
                 /\ wsWorker'.owed = wsWorker.owed
                 /\ wsWorker'.served = wsWorker.served
                 /\ Casting' = Casting
      <3>1. WithClients(clients \ {c})
        BY <2>2 DEF HandlerEnds
      <3> QED
        BY <3>1, ChurnKeepsWorker
    <2> QED
      BY <2>1, <2>2 DEF ConnectionLost, WsServerClose
  <1>3. /\ connection' \in [Clients -> {"away", "open", "lost"}]
        /\ \A c \in Clients : connection'[c] = "open" => connection[c] = "open"
    BY DEF ConnectionLost, HandlerEnds, WsServerClose, WsInv, WsTyped
  <1>4. /\ view' \in [Clients -> [Runs -> Announced \cup {"absent"}]]
        /\ \A c \in Clients, r \in Runs : view'[c][r] \in {view[c][r], "absent"}
        /\ \A c \in Clients : connection'[c] = "open" => view'[c] = view[c]
    <2>1. view \in [Clients -> [Runs -> Announced \cup {"absent"}]]
      BY DEF WsInv, WsTyped
    <2>2. /\ NothingSent \in [Runs -> Announced \cup {"absent"}]
          /\ \A r \in Runs : NothingSent[r] = "absent"
      BY DEF NothingSent
    <2>3. \/ \E c \in Clients : /\ view' = [view EXCEPT ![c] = NothingSent]
                                /\ connection' \in {[connection EXCEPT ![c] = "lost"], [connection EXCEPT ![c] = "away"]}
          \/ /\ view' = [c \in Clients |-> NothingSent]
             /\ \A c \in Clients : connection'[c] # "open"
      BY DEF ConnectionLost, HandlerEnds, WsServerClose
    <2> QED
      BY <2>1, <2>2, <2>3 DEF WsInv, WsTyped
  <1>5. WsTyped' /\ NoServer'
    BY <1>1, <1>2, <1>3, <1>4 DEF WsInv, WsTyped, NoServer
  <1>6. NewestIsTrue' /\ UnbornUntold'
    BY <1>1, <1>2, <1>4 DEF WsInv, NewestIsTrue, UnbornUntold
  <1>7. WsClientsInformed'
    BY <1>1, <1>2, <1>3, <1>4 DEF WsInv, WsClientsInformed, Awaits, UpToDate, RunningModels
  <1> QED
    BY <1>5, <1>6, <1>7 DEF WsInv

(* The server begins to close.                                             *)
LEMMA WsCloseKeeps ==
  ASSUME WsInv, WsClose \/ WsShutdown, UNCHANGED <<status, stopping, observers>>
  PROVE  WsInv'
  <1>1. UNCHANGED <<wsCallbacks, wsQueue, wsWorker, connection, clients, view, missed, observers, status, stopping>>
    BY DEF WsClose, WsShutdown
  <1>2. WsTyped' /\ NoServer'
    BY <1>1 DEF WsInv, WsTyped, NoServer, Casting
  <1>3. NewestIsTrue' /\ UnbornUntold'
    BY <1>1 DEF WsInv, NewestIsTrue, UnbornUntold, Casting
  <1>4. WsClientsInformed'
    BY <1>1 DEF WsInv, WsClientsInformed, Awaits, UpToDate, RunningModels, Casting
  <1> QED
    BY <1>2, <1>3, <1>4 DEF WsInv

-----------------------------------------------------------------------------
(* Every step keeps the invariant.                                         *)
LEMMA WsStepKeeps ==
  ASSUME WsInv, [Next]_vars
  PROVE  WsInv'
  <1>1. CASE UNCHANGED vars
    BY <1>1, SameServerKeeps DEF vars, subjectVars
  <1>2. CASE RunnerStateChanged
    <2>1. PICK r \in Runs : \E s \in Statuses : Changed(r, s) /\ NotifyRunner(r, s)
      BY <1>2 DEF RunnerStateChanged
    <2>2. PICK s \in Statuses : Changed(r, s) /\ NotifyRunner(r, s)
      BY <2>1
    <2>3. /\ status' = [status EXCEPT ![r] = s]
          /\ stopping' = stopping
          /\ <<status[r], s>> \in StatusMoves
          /\ IF "websocket" \in observers THEN WsOnRunnerStateChanged(r, s) ELSE UNCHANGED wsVars
          /\ UNCHANGED observers
      BY <2>2 DEF Changed, NotifyRunner
    <2>4. s \in Tracked
      BY <2>3 DEF StatusMoves, Tracked, Statuses
    <2> QED
      BY <2>3, <2>4, NotifiedKeeps
  <1>7. CASE RunStopped
    <2>1. PICK r \in Runs : StopAsked(r) /\ NotifyRunner(r, "STOPPED")
      BY <1>7 DEF RunStopped
    <2>2. "STOPPED" \in Tracked
      BY DEF Tracked, Statuses
    <2> QED
      BY <2>1, <2>2, NotifiedKeeps DEF StopAsked, NotifyRunner
  <1>3. CASE StateRepublished
    <2>1. PICK r \in Runs : Republished(r) /\ NotifyRunner(r, status[r])
      BY <1>3 DEF StateRepublished
    <2>2. /\ status[r] \in Tracked
          /\ status' = [status EXCEPT ![r] = status[r]]
          /\ stopping' = stopping
          /\ IF "websocket" \in observers THEN WsOnRunnerStateChanged(r, status[r]) ELSE UNCHANGED wsVars
          /\ UNCHANGED observers
      BY <2>1 DEF Republished, NotifyRunner, WsInv, WsTyped
    <2> QED
      BY <2>2, NotifiedKeeps
  <1>4. CASE BuildChangedOrFailure
    BY <1>4, SameServerKeeps DEF BuildChangedOrFailure, OtherNews
  <1>5. CASE RabbitMQStep
    BY <1>5, SameServerKeeps DEF RabbitMQStep, subjectVars
  <1>6. CASE WebSocketStep
    <2>1. /\ "websocket" \in observers
          /\ WsLoop \/ WsOthers
          /\ UNCHANGED <<status, stopping, observers>>
      BY <1>6 DEF WebSocketStep, subjectVars
    <2>2. CASE WsLoop
      BY <2>1, <2>2, WsPutKeeps, WsGetKeeps, WsCastEndKeeps, WsSendKeeps DEF WsLoop
    <2>3. CASE WsOthers
      BY <2>1, <2>3, WsConnectKeeps, WsLeaveKeeps, WsCloseKeeps DEF WsOthers
    <2> QED
      BY <2>1, <2>2, <2>3
  <1> QED
    BY <1>1, <1>2, <1>3, <1>4, <1>5, <1>6, <1>7 DEF Next

(* The invariant of the WebSocket server: the newest event of a run that   *)
(* is on its way tells what the run is, and a client who awaits none knows. *)
THEOREM WebSocketInvariance == Spec => []WsInv
  <1>1. Init => WsInv
    BY WsInitInv
  <1>2. WsInv /\ [Next]_vars => WsInv'
    BY WsStepKeeps
  <1> QED
    BY <1>1, <1>2, PTL DEF Spec

(* A connected client to whom no event of a run is on its way knows whether *)
(* the run is running, whatever the order of connections, snapshots and     *)
(* broadcasts, unless an event of it never reached that client or the job   *)
(* is being placed again.                                                   *)
THEOREM ClientsInformed == Spec => []WsClientsInformed
  <1>1. WsInv => WsClientsInformed
    BY DEF WsInv
  <1> QED
    BY <1>1, WebSocketInvariance, PTL

-----------------------------------------------------------------------------
(* What TypeOK says beyond the two invariants above: the bounds.           *)
Stages == {"no", "closing", "shut", "closed"}

WsBounded ==
    /\ Len(wsQueue) <= QueueSize
    /\ connects \in 0..MaxConnects
    /\ wsClosing \in Stages

Opened == [connection : 1..MaxConnections, channel : 1..MaxConnections, dead : SUBSET (1..MaxConnections)]

RmBounded ==
    /\ Len(rmQueue) <= RmQueueSize
    /\ rabbit \in Opened
    /\ rmWorker.exchange \in 0..MaxConnections
    /\ 0 \notin dropped
    /\ failures \in 0..MaxFailures
    /\ rmClosing \in Stages

Bounded ==
    /\ sent \in 0..MaxEvents
    /\ observers \in ObserverSets
    /\ WsBounded
    /\ RmBounded

(* The bounds hold at first.                                               *)
LEMMA InitBounded == ASSUME Init PROVE Bounded
  <1> USE StateSubjectAssumption, WebSocketServerAssumption, RabbitMQPublisherAssumption
  <1>1. WsBounded
    BY DEF Init, WsInit, WsBounded, Stages
  <1>2. RmBounded
    BY DEF Init, RmInit, RmAtGet, RmConnected, RmBounded, Opened, Stages
  <1> QED
    BY <1>1, <1>2 DEF Init, SubjectInit, Bounded

(* The WebSocket server keeps to its bounds.                               *)
LEMMA WsStaysBounded ==
  ASSUME WsInv, WsBounded, WsLoop \/ WsOthers
  PROVE  WsBounded'
  <1> USE DEF WsBounded, Stages
  <1>1. wsQueue \in Seq(Told) /\ QueueSize \in Nat /\ MaxConnects \in Nat
    BY WebSocketServerAssumption DEF WsInv, WsTyped
  <1>2. CASE WsPut
    <2>1. UNCHANGED <<connects, wsClosing>>
      BY <1>2 DEF WsPut
    <2>2. CASE WsTakes
      <3>1. wsQueue' = Append(wsQueue, Head(wsCallbacks)) /\ Len(wsQueue) < QueueSize
        BY <1>2, <2>2 DEF WsPut, WsTakes
      <3>2. Head(wsCallbacks) \in Told
        BY <1>2, ToldTail DEF WsPut, WsInv, WsTyped
      <3>3. Len(wsQueue') = Len(wsQueue) + 1
        BY <1>1, <3>1, <3>2, AppendProperties
      <3> QED
        BY <1>1, <2>1, <3>1, <3>3
    <2>3. CASE ~WsTakes
      BY <1>2, <2>1, <2>3 DEF WsPut
    <2> QED
      BY <2>2, <2>3
  <1>3. CASE WsGet
    <2>1. wsQueue # <<>> /\ wsQueue' = Tail(wsQueue) /\ UNCHANGED <<connects, wsClosing>>
      BY <1>3 DEF WsGet
    <2>2. Len(wsQueue') = Len(wsQueue) - 1
      BY <1>1, <2>1, HeadTailProperties
    <2> QED
      BY <1>1, <2>1, <2>2
  <1>4. CASE \/ WsExit \/ WsCastDone \/ WsCastRaises
             \/ \E c \in Clients : WsSend(c) \/ ConnectionLost(c) \/ HandlerEnds(c)
    <2>1. UNCHANGED <<wsQueue, connects, wsClosing>>
      BY <1>4 DEF WsExit, WsCastDone, WsCastRaises, WsSend, ConnectionLost, HandlerEnds
    <2> QED
      BY <2>1
  <1>5. CASE \E c \in Clients : WsConnect(c)
    BY <1>1, <1>5 DEF WsConnect
  <1>6. CASE WsClose \/ WsShutdown \/ WsServerClose
    BY <1>6 DEF WsClose, WsShutdown, WsServerClose
  <1> QED
    BY <1>2, <1>3, <1>4, <1>5, <1>6 DEF WsLoop, WsOthers

(* The worker of the publisher only has exchanges of connections opened.   *)
LEMMA WorkerExchanges ==
  ASSUME RmInv, RmBounded, NEW e \in 0..MaxConnections
  PROVE  /\ ToPublish(e).exchange \in 0..MaxConnections
         /\ Again.exchange \in 0..MaxConnections
  BY DEF RmInv, RmTyped, Workers, ToPublish, Again, RmBounded

(* The RabbitMQ publisher keeps to its bounds.                             *)
LEMMA RmStaysBounded ==
  ASSUME RmInv, RmBounded, RmProgress \/ RmOthers
  PROVE  RmBounded'
  <1> USE DEF RmBounded, Stages
  <1>1. /\ rmQueue \in Seq(Nat \ {0}) /\ rmCallbacks \in Seq(Nat \ {0})
        /\ rmWorker \in Workers /\ rabbit \in Opened
        /\ RmQueueSize \in Nat /\ MaxConnections \in Nat \ {0} /\ MaxFailures \in Nat
    BY RabbitMQPublisherAssumption DEF RmInv, RmTyped
  <1>2. CASE RmPut
    <2>1. UNCHANGED <<rmWorker, rabbit, failures, rmClosing>> /\ rmCallbacks # <<>>
      BY <1>2 DEF RmPut
    <2>2. Head(rmCallbacks) \in Nat \ {0}
      BY <1>1, <2>1, TailElements
    <2>3. \/ /\ rmQueue' = Append(rmQueue, Head(rmCallbacks))
             /\ Len(rmQueue) < RmQueueSize
             /\ UNCHANGED dropped
          \/ dropped' = dropped \cup {Head(rmCallbacks)} /\ UNCHANGED rmQueue
      BY <1>2 DEF RmPut
    <2>4. Len(Append(rmQueue, Head(rmCallbacks))) = Len(rmQueue) + 1
      BY <1>1, <2>2, AppendElements
    <2> QED
      BY <1>1, <2>1, <2>2, <2>3, <2>4
  <1>3. CASE RmGet
    <2>1. UNCHANGED <<rabbit, dropped, failures, rmClosing>>
      BY <1>3 DEF RmGet
    <2>2. rmWorker'.exchange = rmWorker.exchange
      BY <1>1, <1>3 DEF RmGet, Workers
    <2>3. rmQueue' = rmQueue \/ (rmQueue # <<>> /\ rmQueue' = Tail(rmQueue))
      BY <1>3 DEF RmGet
    <2>4. Len(rmQueue') <= Len(rmQueue) /\ Len(rmQueue') \in Nat
      BY <1>1, <2>3, TailElements
    <2> QED
      BY <1>1, <2>1, <2>2, <2>4
  <1>4. CASE RmExit \/ RmPublish
    <2>1. UNCHANGED <<rmQueue, rabbit, dropped, failures, rmClosing>>
      BY <1>4 DEF RmExit, RmPublish
    <2>2. rmWorker'.exchange = rmWorker.exchange
      BY <1>1, <1>4 DEF RmExit, RmPublish, Workers
    <2> QED
      BY <2>1, <2>2
  <1>5. CASE RmNoReconnection \/ RmGetExchange
    <2>1. UNCHANGED <<rmQueue, rabbit, dropped, failures, rmClosing>>
      BY <1>5 DEF RmNoReconnection, RmGetExchange
    <2>2. rmWorker' = ToPublish(rmWorker.exchange) \/ rmWorker' = ToPublish(rabbit.channel)
      BY <1>5 DEF RmNoReconnection, RmGetExchange
    <2>3. rmWorker.exchange \in 0..MaxConnections /\ rabbit.channel \in 0..MaxConnections
      BY <1>1 DEF Opened
    <2> QED
      BY <2>1, <2>2, <2>3, WorkerExchanges
  <1>6. CASE RmReconnect
    <2>1. UNCHANGED <<rmQueue, dropped, failures, rmClosing>> /\ rmWorker' = ToPublish(0)
      BY <1>6 DEF RmReconnect
    <2>2. rabbit' = [rabbit EXCEPT !.connection = rabbit.connection + 1, !.channel = rabbit.connection + 1]
      BY <1>6 DEF RmReconnect
    <2>3. rabbit.connection + 1 \in 1..MaxConnections
      BY <1>1, <1>6 DEF RmReconnect, Opened
    <2>4. rabbit' \in Opened
      BY <1>1, <2>2, <2>3 DEF Opened
    <2>5. 0 \in 0..MaxConnections
      BY <1>1
    <2> QED
      BY <2>1, <2>4, <2>5, WorkerExchanges
  <1>7. CASE RmReconnectFails
    <2>1. UNCHANGED <<rmQueue, dropped, rmClosing>> /\ rmWorker' = Again
      BY <1>7 DEF RmReconnectFails
    <2>2. failures' \in 0..MaxFailures
      BY <1>1, <1>7 DEF RmReconnectFails
    <2>3. CASE UNCHANGED rabbit
      BY <1>1, <2>1, <2>2, <2>3, WorkerExchanges
    <2>4. CASE /\ rabbit.connection < MaxConnections
               /\ rabbit' = [rabbit EXCEPT !.connection = rabbit.connection + 1]
      <3>1. rabbit.connection + 1 \in 1..MaxConnections
        BY <1>1, <2>4 DEF Opened
      <3>2. rabbit' \in Opened
        BY <1>1, <2>4, <3>1 DEF Opened
      <3> QED
        BY <2>1, <2>2, <3>2, WorkerExchanges
    <2> QED
      BY <1>7, <2>3, <2>4 DEF RmReconnectFails
  <1>8. CASE RmCallFails
    <2>1. UNCHANGED <<rmQueue, rabbit, dropped, rmClosing>> /\ rmWorker' = Again
      BY <1>8 DEF RmCallFails
    <2>2. failures' \in 0..MaxFailures
      BY <1>1, <1>8 DEF RmCallFails
    <2> QED
      BY <1>1, <2>1, <2>2, WorkerExchanges
  <1>9. CASE RmConnectionDies \/ RmConnectionClose
    <2>1. /\ UNCHANGED <<rmQueue, rmWorker, dropped, failures>>
          /\ rmClosing' \in {rmClosing, "closed"}
          /\ rabbit' = [rabbit EXCEPT !.dead = rabbit.dead \cup {rabbit.connection}]
      BY <1>9 DEF RmConnectionDies, RmConnectionClose
    <2>2. rabbit' \in Opened
      BY <1>1, <2>1 DEF Opened
    <2> QED
      BY <2>1, <2>2
  <1>10. CASE RmClose \/ RmShutdown
    BY <1>10 DEF RmClose, RmShutdown
  <1> QED
    BY <1>2, <1>3, <1>4, <1>5, <1>6, <1>7, <1>8, <1>9, <1>10 DEF RmProgress, RmOthers

(* Every step keeps to the bounds.                                         *)
LEMMA NextBounded ==
  ASSUME WsInv, RmInv, Bounded, [Next]_vars
  PROVE  Bounded'
  <1> USE DEF Bounded
  <1>1. CASE UNCHANGED vars
    BY <1>1 DEF vars, subjectVars, wsVars, rmVars, WsBounded, RmBounded
  <1>2. CASE RunnerStateChanged \/ RunStopped \/ StateRepublished \/ BuildChangedOrFailure
    <2>1. sent' \in 0..MaxEvents
      <3>1. sent < MaxEvents /\ sent' = sent + 1
        BY <1>2 DEF RunnerStateChanged, RunStopped, StateRepublished, BuildChangedOrFailure, Changed, StopAsked,
                    Republished, OtherNews
      <3> QED
        BY <3>1, StateSubjectAssumption
    <2>2. /\ UNCHANGED <<observers, wsQueue, connects, wsClosing>>
          /\ UNCHANGED <<rmQueue, rabbit, rmWorker, dropped, failures, rmClosing>>
      BY <1>2 DEF RunnerStateChanged, RunStopped, StateRepublished, BuildChangedOrFailure, NotifyRunner,
                  WsOnRunnerStateChanged, RmOnEvent, wsVars, rmVars
    <2> QED
      BY <2>1, <2>2 DEF WsBounded, RmBounded
  <1>3. CASE WebSocketStep
    <2>1. UNCHANGED <<sent, observers, rmQueue, rabbit, rmWorker, dropped, failures, rmClosing>>
      BY <1>3 DEF WebSocketStep, subjectVars, rmVars
    <2> QED
      BY <1>3, <2>1, WsStaysBounded DEF WebSocketStep, RmBounded
  <1>4. CASE RabbitMQStep
    <2>1. UNCHANGED <<sent, observers, wsQueue, connects, wsClosing>>
      BY <1>4 DEF RabbitMQStep, subjectVars, wsVars
    <2> QED
      BY <1>4, <2>1, RmStaysBounded DEF RabbitMQStep, WsBounded
  <1> QED
    BY <1>1, <1>2, <1>3, <1>4 DEF Next

(* A sequence of events is one of the events there have been.              *)
LEMMA SeqWithin ==
  ASSUME NEW S, NEW T, NEW seq \in Seq(S), \A i \in 1..Len(seq) : seq[i] \in T
  PROVE  seq \in Seq(T)
  BY SeqDef, LenProperties

(* The invariants and the bounds are the type of the state.                *)
LEMMA BoundedTyped ==
  ASSUME WsInv, RmInv, Bounded
  PROVE  TypeOK
  <1>1. MaxEvents \in Nat /\ MaxConnections \in Nat \ {0} /\ sent \in Nat /\ sent <= MaxEvents
    BY StateSubjectAssumption, RabbitMQPublisherAssumption DEF Bounded
  <1>2. SubjectTypeOK
    BY DEF WsInv, WsTyped, Bounded, SubjectTypeOK
  <1>3. WsTypeOK
    <2>1. Told \subseteq Event
      BY DEF Told, Event, Announced, Tracked, Statuses
    <2>2. wsCallbacks \in Seq(Event) /\ wsQueue \in Seq(Event)
      BY <2>1 DEF WsInv, WsTyped
    <2>3. /\ wsWorker.pc \in {"get", "cast", "exited"}
          /\ Casting => wsWorker.event \in Event
          /\ wsWorker.owed \subseteq Clients
          /\ wsWorker.served \subseteq Clients
          /\ wsWorker.churned \in BOOLEAN
          /\ wsWorker.gone \in BOOLEAN
      BY <2>1 DEF WsInv, WsTyped, WsWorkers
    <2> QED
      BY <2>2, <2>3 DEF WsInv, WsTyped, Bounded, WsBounded, Stages, WsTypeOK
  <1>4. RmTypeOK
    <2>1. rmCallbacks \in Seq(1..MaxEvents) /\ rmQueue \in Seq(1..MaxEvents)
      <3>1. /\ \A i \in 1..Len(rmQueue) : rmQueue[i] \in 1..MaxEvents
            /\ \A j \in 1..Len(rmCallbacks) : rmCallbacks[j] \in 1..MaxEvents
        BY <1>1, HeldTypes DEF RmInv, HeldNotDropped
      <3> QED
        BY <3>1, SeqWithin DEF RmInv, RmTyped
    <2>2. rmWorker \in [pc : {"loop", "connection", "exchange", "publish", "exited"},
                        pending : 0..MaxEvents, exchange : 0..MaxConnections]
      BY <1>1 DEF RmInv, RmTyped, Workers, HeldNotDropped, Bounded, RmBounded
    <2>3. dropped \subseteq 1..MaxEvents
      BY <1>1 DEF RmInv, HeldNotDropped, Bounded, RmBounded
    <2>4. published \in 0..MaxEvents
      BY <1>1 DEF RmInv, RmTyped, HeldNotDropped
    <2> QED
      BY <2>1, <2>2, <2>3, <2>4 DEF Bounded, RmBounded, Opened, Stages, RmTypeOK
  <1> QED
    BY <1>2, <1>3, <1>4 DEF TypeOK, Bounded

(* The state of the process has its type: the queues never hold more than  *)
(* their maximum, whatever is refused, and the worker of the publisher     *)
(* only ever has the exchange of a connection that was opened.             *)
THEOREM PublishersTyped == Spec => []TypeOK
  <1>1. Init => Bounded
    BY InitBounded
  <1>2. WsInv /\ RmInv /\ Bounded /\ [Next]_vars => Bounded'
    BY NextBounded
  <1>3. WsInv /\ RmInv /\ Bounded => TypeOK
    BY BoundedTyped
  <1> QED
    BY <1>1, <1>2, <1>3, WebSocketInvariance, RabbitMQInvariance, PTL DEF Spec
=============================================================================
