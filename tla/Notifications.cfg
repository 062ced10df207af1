SPECIFICATION FairSpec
CONSTANTS
    ann = ann
    chat = chat
    phone = phone
    e1 = e1
    e2 = e2
    e3 = e3
    e4 = e4
    e5 = e5
    e6 = e6
    Members = {ann}
    Conversations = {chat}
    Tokens = {phone}
    Owner <- MCOwner
    EventIds = {e1, e2, e3, e4, e5, e6}
    Content <- MCContent
    Workers = {w1, w2}
    BatchSize = 2
    MaxAttempts = 3
    MaxEvents = 4
    MaxFaults = 1
    FaultKinds = {"crash", "lost ack", "late", "outage"}
    Nobody = Nobody
    Stranger = Stranger
INVARIANTS
    OncePerConsumer
    DepartedGetNothing
    OutcomeTold
PROPERTIES
    NeverResent
    EveryDeliveryEnds
