SPECIFICATION Spec
CONSTANTS
    s1 = s1
    s2 = s2
    Sockets <- sockets
    Requests <- requests
    MaxSaid = 2
    MaxTicks = 1
INVARIANT RegisteredIsServed
PROPERTIES GoneClientForgotten PingAnswered FreshReachesClients
CHECK_DEADLOCK FALSE
