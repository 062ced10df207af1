SPECIFICATION FairRelaySpec
CONSTANTS
    EventCount = 2
    Runners = {r1, r2}
    Consumers = {s1, s2}
    MaxRetries = 2
    MaxRelayFaults = 2
    NoneHeld = NoneHeld
INVARIANTS
    ProjectedOnce
    PublishedIsKept
PROPERTIES
    Settles
