SPECIFICATION Spec
CONSTANTS
    Length = 2
    Kind <- Kinds
    Sender <- Senders
    a = a
    b = b
    i = i
    j = j
    Members = {a, b}
    Instances = {i}
    Ahead <- Agreed
    DbAhead = 0
    Texts = {x, y}
    Label = Label
    NoText = NoText
    MaxTime = 4
    MaxMark = 1
    Workers = {v, w}
    NoRow = NoRow
    Idle = Idle
SYMMETRY Symmetric
INVARIANTS
    Converged
    WatermarkTrails
PROPERTIES
    TombstonesStay
    CursorsGrow
