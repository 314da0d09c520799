SPECIFICATION Spec
CONSTANTS
    Runs = {r1}
    MaxEvents = 3
    Clients = {c1, c2}
    QueueSize = 2
    MaxConnects = 2
    RmQueueSize = 2
    MaxConnections = 3
    MaxFailures = 2
    ObserverSets <- OneObserver
INVARIANTS
    TypeOK
    WsClientsInformed
PROPERTIES
    WsInformedInTheEnd
    RmDeliversInOrder
    RmPublishedInTheEnd
CHECK_DEADLOCK FALSE
