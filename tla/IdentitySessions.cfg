SPECIFICATION Spec
CONSTANTS
    Device = {d, e}
    Workers = {v, w}
    NoTx = NoTx
    AnyDevice = AnyDevice
    MaxCommands = 4
SYMMETRY Symmetric
INVARIANTS
    OneLiveCredential
    RevokedDeviceIsSilent
    ChallengesOnce
PROPERTIES
    ResetEndsAll
CHECK_DEADLOCK FALSE
