\* Allowances granted, spent, lowered and expired.
CONSTANTS
    GROWTH_RESOLUTION_FACTOR = 2
    NANO_DIVDER = 2
    DEMURRAGE_SCALE = 1
    INITIAL_DEMURRAGE = 4
    MAX_U128 = 8
    MAX_U64 = 3
    alice = alice
    bob = bob
    nowhere = nowhere
    None = None
    Addr <- PaymentAddr
    InvalidNames <- MCInvalidNames
    InstantiateMsgs <- AllowanceMsgs
    Amounts = {0, 1}
    TaxLevels = {}
    SinkNames = {}
    ExpiresOptions <- AllowanceExpires
    TimeSteps = {100}
    MaxHeight = 2
SPECIFICATION Spec
PROPERTIES
    SpendingNeedsAllowance
    AllowanceGrantedByOwner
