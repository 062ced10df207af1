SPECIFICATION FairSpec
CONSTANTS
    c1 = c1
    c2 = c2
    k1 = k1
    k2 = k2
    k3 = k3
    b1 = b1
    b2 = b2
    Workers = {w1, w2}
    Conversations = {c1, c2}
    ClientKeys = {k1, k2, k3}
    Requests <- MCRequests
    Broadcasts = {b1, b2}
    Recipients <- MCRecipients
    NoWorker = NoWorker
    NoKey = NoKey
    NoConv = NoConv
    NoReply = NoReply
INVARIANTS
    SequencesDense
    OneMessagePerKey
    BroadcastAllOrNothing
PROPERTIES
    ImplementsLog
    EveryRequestEnds
