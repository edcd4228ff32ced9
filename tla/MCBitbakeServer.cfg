CONSTANTS
    c1 = c1
    c2 = c2
    c3 = c3
    Client <- Clients
    Server = {"s1", "s2"}
    Retries = 8
    Hurried = 4
    None = None
    Scenes <- AllScenes
SPECIFICATION Spec
INVARIANTS ConnectionsSound OneServer SocketIsLive AllServed
PROPERTIES EveryoneEnds
CHECK_DEADLOCK FALSE
