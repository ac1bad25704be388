------------------------------ MODULE MCRouter ------------------------------
(* Small instances of Router: contracts that answer what they like.        *)
EXTENDS Router

CONSTANTS alice, bob, written

Execute(contract, funds) ==
    [type |-> "execute", contract |-> contract, funds |-> funds, msg |-> Nothing]
Instantiate(code_id, admin, funds) ==
    [type |-> "instantiate", code_id |-> code_id, admin |-> admin, funds |-> funds,
     msg |-> Nothing]
Migrate(contract, code_id) ==
    [type |-> "migrate", contract |-> contract, code_id |-> code_id, msg |-> Nothing]
BankSend(to, amount) == [type |-> "send", to |-> to, amount |-> amount]
BankBurn(amount) == [type |-> "burn", amount |-> amount]

MCUsers == {alice, bob}
\* Two contracts: one that alice may migrate, and one that it may migrate.
TwoContracts ==
    [address \in Contracts |-> CASE address = 0 -> [code_id |-> 1, admin |-> alice]
                                 [] address = 1 -> [code_id |-> 1, admin |-> 0]
                                 [] OTHER       -> Nothing]
NoData == [address \in Contracts |-> Nothing]
Balances == [account \in Accounts |-> CASE account = alice -> 2
                                         [] account = 0     -> 1
                                         [] OTHER           -> 0]

\* What contracts send: payments, a call that pays, a call of oneself or of another
\* contract, a new contract, a migration, a message nobody executes.
ContractMsgs ==
    {BankSend(bob, 1), BankBurn(1), Execute(0, Nothing), Execute(1, 1),
     Instantiate(1, Nothing, Nothing), Migrate(1, 2)}

Submsgs == [msg : ContractMsgs, reply_on : ReplyOns]

Response(result, writes, data, msgs) ==
    [result |-> result, writes |-> writes, data |-> data, messages |-> msgs]

\* Any contract: it fails, or it answers with up to two submessages.
ResponsesWith(data) ==
    {Response("Err", data, FALSE, <<>>), Response("Invalid", written, FALSE, <<>>)}
      \cup {Response("Ok", data, FALSE, <<>>), Response("Ok", written, TRUE, <<>>)}
      \cup {Response("Ok", written, FALSE, <<m>>) : m \in Submsgs}
      \cup {Response("Ok", data, TRUE, <<m, n>>) : m, n \in Submsgs}

WithNothing == ResponsesWith(Nothing)
WithWritten == ResponsesWith(written)

AnyResponses(code_id, data, call) == IF data = Nothing THEN WithNothing ELSE WithWritten

\* They are what the theorems of RouterProofs assume of contracts, ResponsesAreTyped.
ASSUME AnyResponsesAreTyped == WithNothing \cup WithWritten \subseteq ContractResponse

SignedMsgs ==
    {BankSend(bob, 1), BankSend(bob, 3), BankBurn(1), BankBurn(0),
     Execute(0, 1), Execute(0, 0), Execute(bob, 1), Execute(1, Nothing),
     Instantiate(1, alice, 1), Instantiate(1, alice, 3), Instantiate(3, alice, Nothing),
     Migrate(0, 2), Migrate(0, 3), [type |-> "other"]}

MCTransactions ==
    [sender : {alice}, msgs : {<<m>> : m \in SignedMsgs}]
      \cup [sender : {bob}, msgs : {<<Migrate(0, 2)>>}]
      \cup [sender : {alice}, msgs : {<<BankSend(bob, 1), Execute(0, 1)>>}]

=============================================================================
