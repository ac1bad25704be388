\* Four collections in one storage, and a client that lists them.
CONSTANTS
    v1 = v1  v2 = v2  v3 = v3
    None = None  NotFound = NotFound  Failed = Failed
    ItemName <- MCItemName
    AccountsNamespace <- MCAccountsNamespace
    Accounts <- MCAccounts
    RecordsNamespace <- MCRecordsNamespace
    Records <- MCRecords
    Values <- MCValues
    MultiNamespace <- MCMultiNamespace
    MultiKey <- MCMultiKey
    UniqueNamespace <- MCUniqueNamespace
    UniqueKey <- MCUniqueKey
    Stored = stored
    DEFAULT_LIMIT = 1
    MAX_LIMIT = 2
    Limits = {None, 3}
    MaxEntries = 7
SPECIFICATION Spec
INVARIANTS
    RangesReadRecords
    IndexesReadRecords
PROPERTIES
    AgreesWithTests
    ImplementsKeyedRecords
    ListingsAreComplete
