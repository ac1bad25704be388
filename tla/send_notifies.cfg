\* Tokens sent to a vault by a user and by a contract, over three transactions.
CONSTANTS
    alice = alice
    bob = bob
    Nothing = Nothing
    Users <- MCUsers
    MaxContracts = 3
    codes = {0, 1, 2}
    Values <- Holdings
    Payloads <- TokenMsgs
    InitialBalances <- NoBalances
    InitialContracts <- ThreeContracts
    InitialData <- DataOfThem
    Transactions <- MCTransactions
    Mints = {}
    Responses <- ResponsesOf
    MaxSubmessages = 8
    MaxTransactions = 3
SPECIFICATION Spec
INVARIANTS
    DepositsAreHeld
PROPERTY OnlyContractsReceive
CHECK_DEADLOCK FALSE
