SPECIFICATION RealtimeSpec
CONSTANTS
    a = a
    b = b
    x = x
    y = y
    i = i
    j = j
    Connection = {a, b}
    Member = {x, y}
    Instance = {i, j}
    Principal <- Who
    Home <- Where
    ConsumerId = j
    Leavers = {x}
    MaxEvents = 2
    MaxRequests <- HowMany
    MaxFaults = 1
INVARIANTS
    DepartedGetNothing
    RemovalClears
    InOrder
    NothingLost
CHECK_DEADLOCK FALSE
