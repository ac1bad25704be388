\* One transaction that calls contracts which answer what they like.
CONSTANTS
    alice = alice
    bob = bob
    written = written
    Nothing = Nothing
    Users <- MCUsers
    MaxContracts = 5
    codes = {1, 2}
    Values = {written}
    Payloads = {Nothing}
    InitialBalances <- Balances
    InitialContracts <- TwoContracts
    InitialData <- NoData
    Transactions <- MCTransactions
    Mints = {0, 1}
    Responses <- AnyResponses
    MaxSubmessages = 2
    MaxTransactions = 1
SPECIFICATION Spec
INVARIANTS
    TypeOK
    MoneyConserved
    AddressesAreUnique
    NothingOwed
    DataIsTheContracts
PROPERTIES
    UsersPayWhatTheySigned
    OnlyAdminMigrates
    TransactionsEnd
CHECK_DEADLOCK FALSE
