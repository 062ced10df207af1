SPECIFICATION Spec
CONSTANTS
    a = a
    b = b
    group = group
    direct = direct
    personal = personal
    None = None
    Member = {a, b}
    Chat = {group, direct, personal}
    Direct = {direct, personal}
    Personal = {personal}
    Saved <- OneContact
    Founders <- Begun
    Returned = {a, b}
    MaxCommands = 3
    MaxFaults = 1
INVARIANTS
    AgreesUnlessInFlight
PROPERTIES
    EveryEventApplies
CHECK_DEADLOCK FALSE
