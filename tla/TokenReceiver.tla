--------------------------- MODULE TokenReceiver ---------------------------
(***************************************************************************)
(* The Send message of the token (src/contract.rs execute_send) on the     *)
(* router: the tokens are moved, and a submessage tells the receiving      *)
(* contract (packages/cw20/src/receiver.rs).  Beside the token there are a *)
(* vault that books what it is told it was sent, and a contract that      *)
(* sends tokens and lives on when that fails.                              *)
(***************************************************************************)
EXTENDS Router

Token == 0      \* the first contract; its data are the balances of the token
Vault == 1      \* the second; its data are the deposits it was told of, by sender
Caller == 2     \* the third, with no data

Holdings == [Accounts -> Nat]

\* Token and vault are there, without admin, and the vault has booked what it holds;
\* who signs transactions is a user.
ASSUME ReceiverAssumption ==
    /\ {Token, Vault} \subseteq Contracts \cap codes
    /\ \A contract \in {Token, Vault} :
         /\ InitialContracts[contract] = [code_id |-> contract, admin |-> Nothing]
         /\ InitialData[contract] \in Holdings
    /\ SumFunction(InitialData[Vault]) = InitialData[Token][Vault]
    /\ \A tx \in Transactions : tx.sender \in Users

TokenMsgs ==
    [type : {"Send"}, contract : Accounts, amount : Nat]
      \cup [type : {"Receive"}, sender : Accounts, amount : Nat]
      \cup [type : {"Call"}]

Execute(contract, m) ==
    [type |-> "execute", contract |-> contract, funds |-> Nothing, msg |-> m]
Send(contract, amount) ==
    Execute(Token, [type |-> "Send", contract |-> contract, amount |-> amount])

\* Cw20ReceiveMsg::into_cosmos_msg
into_cosmos_msg(contract, from, amount) ==
    Execute(contract, [type |-> "Receive", sender |-> from, amount |-> amount])

\* SubMsg::new, which add_message uses, asks for no reply.
add_message(m) == [msg |-> m, reply_on |-> "Never"]

Accepts(writes, msgs) ==
    {[result |-> "Ok", writes |-> writes, data |-> FALSE, messages |-> msgs]}
Refuses(data) ==
    {[result |-> "Err", writes |-> data, data |-> FALSE, messages |-> <<>>]}

-----------------------------------------------------------------------------

MovedTokens(tokens, from, to, amount) ==
    LET debited == [tokens EXCEPT ![from] = @ - amount]
    IN  [debited EXCEPT ![to] = @ + amount]

\* The token has no other entry point that the contracts of this module call.
execute_send(tokens, call) ==
    LET amount == call.msg.amount
        contract == call.msg.contract
    IN  IF amount # 0 /\ amount <= tokens[call.sender]
        THEN Accepts(MovedTokens(tokens, call.sender, contract, amount),
                     <<add_message(into_cosmos_msg(contract, call.sender, amount))>>)
        ELSE Refuses(tokens)

TokenResponses(tokens, call) ==
    IF call.entry = "execute" /\ call.msg.type = "Send"
    THEN execute_send(tokens, call) ELSE Refuses(tokens)

\* The vault takes what the token tells it of, refuses it, or sends it back at once;
\* it takes no one else's word.
VaultResponses(deposits, call) ==
    IF call.entry = "execute" /\ call.sender = Token /\ call.msg.type = "Receive"
    THEN Accepts([deposits EXCEPT ![call.msg.sender] = @ + call.msg.amount], <<>>)
           \cup Refuses(deposits)
           \cup Accepts(deposits, <<add_message(Send(call.msg.sender, call.msg.amount))>>)
    ELSE Refuses(deposits)

\* The caller sends tokens to the vault or to itself, or tells the vault of tokens
\* it did not send; it may accept any tokens and any failure, or refuse them.
CallerMsgs == {Send(Vault, 1), Send(Caller, 1), into_cosmos_msg(Vault, Caller, 1)}
CallerSubmsgs == [msg : CallerMsgs, reply_on : ReplyOns]

CallerResponses(data, call) ==
    IF call.entry = "execute" /\ call.msg.type = "Call"
    THEN UNION {Accepts(data, msgs) : msgs \in CallerSubmsgs \X CallerSubmsgs}
    ELSE Accepts(data, <<>>) \cup Refuses(data)

\* A token or a vault that was never instantiated holds nothing to send or to book.
ResponsesOf(code_id, data, call) ==
    CASE code_id = Caller -> CallerResponses(data, call)
      [] code_id \in {Token, Vault} /\ data = Nothing -> Refuses(data)
      [] code_id = Token /\ data # Nothing -> TokenResponses(data, call)
      [] code_id = Vault /\ data # Nothing -> VaultResponses(data, call)

\* What the theorems assume beside ResponsesAreTyped: the token and the vault answer as
\* above.  The other contracts may be any, the caller is one.
TokenAndVaultAnswer ==
    /\ Payloads \subseteq TokenMsgs
    /\ \A code_id \in {Token, Vault}, data \in Values \cup {Nothing}, call \in EntryCall :
         Responses(code_id, data, call) = ResponsesOf(code_id, data, call)

-----------------------------------------------------------------------------

Tokens == Base.contract_data[Token]

\* After any transaction the vault holds the tokens it was told of, and no others:
\* a Send moves the tokens and tells the receiver, or does neither, although the
\* tokens move first, the receiver may refuse or send them back, and the sender
\* may go on when it fails (contract.rs execute_send, wasm.rs execute_submsg).
DepositsAreHeld == SumFunction(Base.contract_data[Vault]) = Tokens[Vault]

\* A Send to an address that is no contract moves nothing (cw20 README, Send).
OnlyContractsReceive ==
    [][\A user \in Users : Tokens'[user] <= Tokens[user]]_vars

=============================================================================
