SPECIFICATION MediaSpec
CONSTANTS
    p = p
    q = q
    g = g
    Media = {p, q}
    Strategy <- Strategies
    Size <- Sizes
    Parts = {1, 2}
    NoUpload = NoUpload
    Messages = {g}
    MediaOf <- Carried
    Workers = {v, w}
    NoTx = NoTx
    MaxTransactions = 4
SYMMETRY Symmetric
CHECK_DEADLOCK FALSE
INVARIANTS
    OutcomesHold
PROPERTIES
    OnlyOverlapsHarm
