SPECIFICATION Spec
CONSTANTS
    personal = personal
    business = business
    letter = letter
    otp = otp
    call = call
    recall = recall
    address = address
    number = number
    None = None
    Saga <- Sagas
    Kind <- Kinds
    Mail <- Mails
    Phone <- Phones
    MaxLapses = 1
    Worker = {v, w}
SYMMETRY Symmetric
INVARIANTS
    EndsOnce
    AccountsArePlaced
CHECK_DEADLOCK FALSE
