SPECIFICATION Spec
CONSTANTS
    Workers = {w1, w2}
    Groups = {g1}
    Members = {m1, m2, m3, m4}
    Scope <- Workspace
    MemberLimit = 3
    MaxBatch = 1
    Statuses = {"ACTIVE", "LEFT"}
    NoRow = NoRow
    NoEvent = NoEvent
    NoWorker = NoWorker
    Idle = Idle
SYMMETRY Symmetric
INVARIANTS
    OneOwner
    GroupWithinLimit
    EventsTellRoster
PROPERTIES
    OwnerKept
    AdminsAnswerToOwner
