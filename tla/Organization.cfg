SPECIFICATION Spec
CONSTANTS
    User = {u, w}
    NoUser = NoUser
    Requests = {p, q}
    NoRequest = NoRequest
    CustomCodes <- Custom
    Given = {"OWNER", "MANAGER"}
    Channels = {"phone", "none"}
    Limits = {2}
    MaxMembers = 3
    MaxInvitations = 2
    MaxRequests = 4
SYMMETRY Symmetric
INVARIANTS
    ActiveOwner
    DepartedUnplaced
PROPERTIES
    OnlyRejoinsExceed
    InvitationsLapse
CHECK_DEADLOCK FALSE
