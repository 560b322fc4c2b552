SPECIFICATION Spec
CONSTANTS
    q1 = q1
    Messages <- mcMessages
    Requests <- mcRequests
    MaxVersion = 3
    MaxWire = 2
INVARIANTS EveryValueAccounted
PROPERTIES OnlyRestGoesBack
CHECK_DEADLOCK FALSE
