\* Payments, minting and burning under demurrage.
CONSTANTS
    GROWTH_RESOLUTION_FACTOR = 4
    NANO_DIVDER = 2
    DEMURRAGE_SCALE = 2
    INITIAL_DEMURRAGE = 4
    MAX_U128 = 31
    MAX_U64 = 3
    alice = alice
    bob = bob
    nowhere = nowhere
    None = None
    Addr <- PaymentAddr
    InvalidNames <- MCInvalidNames
    InstantiateMsgs <- PaymentMsgs
    Amounts = {0, 1, 2}
    TaxLevels = {2, 4}
    SinkNames <- PaymentSinks
    ExpiresOptions <- NoExpires
    TimeSteps = {40, 240}
    MaxHeight = 3
SPECIFICATION Spec
INVARIANTS
    TypeOK
    SupplyWithinCap
    SupplyIsBacked
    DemurrageAmountPositive
    CountedPeriodsHaveBegun
PROPERTIES
    OnlyMinterIssues
    ImplementsSupplyControl
    DemurrageNeverRises
    FrozenUntilTaxLevelChanges
    PeriodChangePaysTax
