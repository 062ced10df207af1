SPECIFICATION Spec
CONSTANTS
    a = a
    b = b
    group = group
    direct = direct
    personal = personal
    None = None
    Member = {a, b}
    Chat = {group, direct, personal}
    Direct = {direct, personal}
    Personal = {personal}
    Saved = {}
    Founders <- Begun
    Returned = {}
    MaxCommands = 3
    MaxFaults = 0
INVARIANTS
    MembersMaySend
CHECK_DEADLOCK FALSE
