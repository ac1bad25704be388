------------------------------- MODULE Router -------------------------------
(***************************************************************************)
(* The message router of multi-test (src/wasm.rs, src/app.rs and           *)
(* src/bank.rs).  A transaction is a list of messages; a message may call  *)
(* a contract, whose response may hold submessages, which are messages of  *)
(* that contract, run in a storage transaction of their own and answered   *)
(* by its reply entry point if it asked for that.                          *)
(*                                                                         *)
(* The code is recursive.  Its call stack is the sequence frames, its      *)
(* nested storage transactions are the sequence stores: whole stores, as   *)
(* in Savepoints, which StorageTransaction implements.  What a contract    *)
(* answers is a parameter.                                                 *)
(***************************************************************************)
EXTENDS Integers, Sequences, FiniteSets, Functions

CONSTANTS
    Users,              \* addresses that are not contracts'
    MaxContracts,       \* bound: contracts ever instantiated, the rolled back included
    codes,              \* code_ids of the stored codes
    Values,             \* what a contract keeps in its storage
    Payloads,           \* what contracts are told, in the JSON of a message
    Nothing,            \* no contract, no data, no admin, no funds
    InitialBalances,    \* by address
    InitialContracts,   \* by address, Nothing from the first free number on
    InitialData,        \* of the contracts
    Transactions,       \* what the app is asked to execute: a sender, and messages
    Mints,              \* amounts the app is asked to mint
    Responses(_, _, _), \* what a code may answer, with some data, to some call
    MaxSubmessages,     \* bound: submessages in one transaction
    MaxTransactions     \* bound: transactions

Contracts == 0 .. MaxContracts - 1      \* next_address numbers them
Accounts == Users \cup Contracts

\* Creator, label and height are stored for queries only.
ContractData == [code_id : codes, admin : Accounts \cup {Nothing}]

ReplyOns == {"Always", "Error", "Success", "Never"}

Funds == Nat \cup {Nothing}

\* The messages of cosmwasm_std the router tells apart.
CosmosMsg ==
    [type : {"send"}, to : Accounts, amount : Nat]
      \cup [type : {"burn"}, amount : Nat]
      \cup [type : {"execute"}, contract : Accounts, funds : Funds, msg : Payloads]
      \cup [type : {"instantiate"}, code_id : Nat, admin : Accounts \cup {Nothing},
            funds : Funds, msg : Payloads]
      \cup [type : {"migrate"}, contract : Accounts, code_id : Nat, msg : Payloads]
      \cup [type : {"other"}]

SubMsg == [msg : CosmosMsg, reply_on : ReplyOns]

\* The entry points of a contract, with their arguments, and what they answer.
EntryCall ==
    [entry : {"execute", "instantiate"}, sender : Accounts, funds : Funds, msg : Payloads]
      \cup [entry : {"migrate"}, msg : Payloads]
      \cup [entry : {"reply"}, ok : BOOLEAN]
      \cup [entry : {"sudo"}]

ContractResponse ==
    [result : {"Ok", "Invalid", "Err"}, writes : Values \cup {Nothing}, data : BOOLEAN,
     messages : Seq(SubMsg)]

\* Contracts may answer anything that is a response: what the theorems assume of them.
ResponsesAreTyped ==
    \A code_id \in codes, data \in Values \cup {Nothing}, call \in EntryCall :
      Responses(code_id, data, call) \subseteq ContractResponse

ASSUME RouterAssumption ==
    /\ IsFiniteSet(Users)
    /\ Users \cap Contracts = {}
    /\ Nothing \notin Accounts \cup ContractData \cup Values \cup Nat \cup codes
    /\ MaxContracts \in Nat \ {0} /\ MaxSubmessages \in Nat /\ MaxTransactions \in Nat
    /\ codes \subseteq Nat /\ Mints \subseteq Nat
    /\ Transactions \subseteq [sender : Accounts, msgs : Seq(CosmosMsg)]
    /\ InitialBalances \in [Accounts -> Nat]
    /\ InitialContracts \in [Contracts -> ContractData \cup {Nothing}]
    /\ InitialData \in [Contracts -> Values \cup {Nothing}]
    /\ \E n \in 0 .. MaxContracts :
         \A address \in Contracts :
           IF address < n THEN InitialContracts[address] # Nothing
           ELSE InitialContracts[address] = Nothing /\ InitialData[address] = Nothing

VARIABLES
    stores,     \* the app's storage, and a copy for each open storage transaction
    frames,     \* the calls that wait for something, the innermost last
    control,    \* what happens next
    submessages,    \* bound: submessages this transaction may still emit
    transactions    \* bound: transactions still to come

vars == <<stores, frames, control, submessages, transactions>>

Top == Len(stores)
Base == stores[1]
Store == stores[Top]
Frame == frames[Len(frames)]
Below == SubSeq(frames, 1, Len(frames) - 1)
Written(store) == [stores EXCEPT ![Top] = store]

-----------------------------------------------------------------------------
(* Control: the app is idle; the innermost frame goes on; a message is to  *)
(* be executed for a sender; a contract is to be told how its submessage   *)
(* went; a call has returned, with data or without, or it has failed.      *)

Idle == [step |-> "idle"]
Proceed == [step |-> "proceed"]
Executing(sender, msg) == [step |-> "execute", sender |-> sender, msg |-> msg]
Replying(contract, ok) == [step |-> "reply", contract |-> contract, ok |-> ok]
Returned(data) == [step |-> "returned", data |-> data]
Failed == [step |-> "failed"]

\* The app's transactional, with the number of messages that were begun.
AppFrame(sender, msgs) ==
    [kind |-> "app", sender |-> sender, msgs |-> msgs, begun |-> 0]

\* execute_submsg, while its message is executed.
SubmsgFrame(contract, reply_on) ==
    [kind |-> "submsg", contract |-> contract, reply_on |-> reply_on]

\* process_response, with the data so far and the submessages left.
ResponseFrame(contract, entry, data, msgs) ==
    [kind |-> "response", contract |-> contract, entry |-> entry, data |-> data,
     msgs |-> msgs]

AtFrame(kind) == frames # <<>> /\ Frame.kind = kind

-----------------------------------------------------------------------------
(* The bank.  Zero coins are dropped, and nothing may be sent that is none.*)

\* Mutant: what is paid is not compared with the balance.
Payable_Unchecked(balances, from, amount) == amount \in Nat \ {0}

Payable(balances, from, amount) == amount \in Nat \ {0} /\ amount <= balances[from]

\* Mutant: the balance of the recipient is read before the sender's is written.
send_ReadFirst(balances, from, to, amount) ==
    [balances EXCEPT ![from] = @ - amount, ![to] = balances[to] + amount]

burn(balances, from, amount) == [balances EXCEPT ![from] = @ - amount]
mint(balances, to, amount) == [balances EXCEPT ![to] = @ + amount]
send(balances, from, to, amount) == mint(burn(balances, from, amount), to, amount)

\* Funds of a call: no coin at all is no transfer; zero coins are refused.
FundsPayable(store, from, funds) ==
    funds = Nothing \/ Payable(store.balances, from, funds)
WithFunds(store, from, to, funds) ==
    IF funds = Nothing THEN store
    ELSE [store EXCEPT !.balances = send(@, from, to, funds)]

-----------------------------------------------------------------------------
(* The contracts.                                                          *)

IsContract(store, address) == address \in Contracts /\ store.contracts[address] # Nothing
Registered(store) == {address \in Contracts : IsContract(store, address)}

\* Mutant: the contracts are counted in the app's storage, not in the cache.
next_address_Committed(store) == Cardinality(Registered(Base))

next_address(store) == Cardinality(Registered(store))

register_contract(store, code_id, admin) ==
    [store EXCEPT !.contracts[next_address(store)] = [code_id |-> code_id, admin |-> admin],
                  !.history.instances = @ + 1]

\* The call fails, and leaves what it has written to its storage.
Fail(store) ==
    /\ stores' = Written(store)
    /\ control' = Failed
    /\ UNCHANGED <<frames, submessages>>

\* The response is good: its submessages come next.
Respond(store, contract, call, response) ==
    LET data == IF response.data THEN contract ELSE Nothing
        msgs == response.messages
        answered == IF call.entry = "reply" THEN 1 ELSE 0
    IN  /\ Len(msgs) <= submessages
        /\ submessages' = submessages - Len(msgs)
        /\ stores' = Written([store EXCEPT !.history.owed = @ + Len(msgs) - answered])
        /\ frames' = Append(frames, ResponseFrame(contract, call.entry, data, msgs))
        /\ control' = Proceed

\* with_storage runs an entry point of a contract, verify_response and
\* build_app_response take its response.  An error leaves the contract's
\* storage as it was; an invalid response is one after its writes are kept.
CallContract(store, contract, call) ==
    \/ /\ ~IsContract(store, contract)
       /\ Fail(store)
    \/ /\ IsContract(store, contract)
       /\ \E response \in Responses(store.contracts[contract].code_id,
                                   store.contract_data[contract], call) :
            LET kept == [store EXCEPT !.contract_data[contract] = response.writes]
            IN  \/ response.result = "Err" /\ Fail(store)
                \/ response.result = "Invalid" /\ Fail(kept)
                \/ response.result = "Ok" /\ Respond(kept, contract, call, response)

-----------------------------------------------------------------------------
(* The execution of a message.                                             *)

msg == control.msg
sender == control.sender

Receives(type) == control.step = "execute" /\ msg.type = type /\ UNCHANGED transactions

Done(store) ==
    /\ stores' = Written(store)
    /\ control' = Returned(Nothing)
    /\ UNCHANGED <<frames, submessages>>

bank_send ==
    /\ Receives("send")
    /\ \/ /\ Payable(Store.balances, sender, msg.amount)
          /\ Done([Store EXCEPT !.balances = send(@, sender, msg.to, msg.amount)])
       \/ ~Payable(Store.balances, sender, msg.amount) /\ Fail(Store)

bank_burn ==
    /\ Receives("burn")
    /\ \/ /\ Payable(Store.balances, sender, msg.amount)
          /\ Done([Store EXCEPT !.balances = burn(@, sender, msg.amount),
                                !.history.issued = @ - msg.amount])
       \/ ~Payable(Store.balances, sender, msg.amount) /\ Fail(Store)

\* First the funds are moved, whoever the address is, then the contract is called.
wasm_execute ==
    /\ Receives("execute")
    /\ \/ /\ FundsPayable(Store, sender, msg.funds)
          /\ CallContract(WithFunds(Store, sender, msg.contract, msg.funds), msg.contract,
                          [entry |-> "execute", sender |-> sender, funds |-> msg.funds,
                           msg |-> msg.msg])
       \/ ~FundsPayable(Store, sender, msg.funds) /\ Fail(Store)

\* The contract is registered, then funded, then called.  MaxContracts bounds the addresses.
wasm_instantiate ==
    /\ Receives("instantiate")
    /\ next_address(Store) < MaxContracts
    /\ \/ msg.code_id \notin codes /\ Fail(Store)
       \/ /\ msg.code_id \in codes
          /\ LET contract == next_address(Store)
                 registered == register_contract(Store, msg.code_id, msg.admin)
             IN  \/ /\ FundsPayable(registered, sender, msg.funds)
                    /\ CallContract(WithFunds(registered, sender, contract, msg.funds),
                                    contract,
                                    [entry |-> "instantiate", sender |-> sender,
                                     funds |-> msg.funds, msg |-> msg.msg])
                 \/ ~FundsPayable(registered, sender, msg.funds) /\ Fail(registered)

\* Mutant: anybody may migrate a contract.
MayMigrate_Unchecked(store, from, contract) == IsContract(store, contract)

MayMigrate(store, from, contract) ==
    IsContract(store, contract) /\ store.contracts[contract].admin = from

wasm_migrate ==
    /\ Receives("migrate")
    /\ \/ /\ msg.code_id \in codes /\ MayMigrate(Store, sender, msg.contract)
          /\ CallContract([Store EXCEPT !.contracts[msg.contract].code_id = msg.code_id],
                          msg.contract, [entry |-> "migrate", msg |-> msg.msg])
       \/ ~(msg.code_id \in codes /\ MayMigrate(Store, sender, msg.contract)) /\ Fail(Store)

\* A message no module of the router executes, an instantiation without a label.
unsupported == Receives("other") /\ Fail(Store)

-----------------------------------------------------------------------------
(* Submessages.                                                            *)

\* Mutant: a submessage is executed for whoever signed the transaction.
SubmsgSender_Signer == IF frames[1].sender = Nothing THEN Frame.contract ELSE frames[1].sender

SubmsgSender == Frame.contract

\* The next submessage is executed in a cache, for the contract that sent it.
execute_submsg ==
    /\ control = Proceed /\ AtFrame("response") /\ Frame.msgs # <<>>
    /\ stores' = Append(stores, Store)
    /\ frames' = Append([frames EXCEPT ![Len(frames)].msgs = Tail(@)],
                        SubmsgFrame(Frame.contract, Head(Frame.msgs).reply_on))
    /\ control' = Executing(SubmsgSender, Head(Frame.msgs).msg)
    /\ UNCHANGED <<submessages, transactions>>

Committed(store) == Append(SubSeq(stores, 1, Top - 2), store)
Dropped == SubSeq(stores, 1, Top - 1)
Settled(store) == [store EXCEPT !.history.owed = @ - 1]

\* Mutant: the data of a submessage is kept when no reply was called.
DataWithoutReply_Kept == control.data

DataWithoutReply == Nothing

\* The cache is committed, and its contract told if it asked for that; if not,
\* the data of the message is dropped.
submsg_succeeded ==
    /\ control.step = "returned" /\ AtFrame("submsg")
    /\ frames' = Below
    /\ \/ /\ Frame.reply_on \in {"Always", "Success"}
          /\ stores' = Committed(Store)
          /\ control' = Replying(Frame.contract, TRUE)
       \/ /\ Frame.reply_on \in {"Error", "Never"}
          /\ stores' = Committed(Settled(Store))
          /\ control' = Returned(DataWithoutReply)
    /\ UNCHANGED <<submessages, transactions>>

\* Mutant: a failure the contract did not ask to be told of is no failure.
FailureWithoutReply_Ignored == Returned(Nothing)

FailureWithoutReply == Failed

\* The cache is dropped, and the error is the contract's to answer or its caller's.
submsg_failed ==
    /\ control.step = "failed" /\ AtFrame("submsg")
    /\ frames' = Below
    /\ stores' = Dropped
    /\ \/ /\ Frame.reply_on \in {"Always", "Error"}
          /\ control' = Replying(Frame.contract, FALSE)
       \/ /\ Frame.reply_on \in {"Success", "Never"}
          /\ control' = FailureWithoutReply
    /\ UNCHANGED <<submessages, transactions>>

\* What the contract answers is processed in the storage around the submessage.
reply ==
    /\ control.step = "reply"
    /\ CallContract(Store, control.contract, [entry |-> "reply", ok |-> control.ok])
    /\ UNCHANGED transactions

\* A submessage is over, its reply included: its data takes the place of what there was.
response_continued ==
    /\ control.step = "returned" /\ AtFrame("response")
    /\ frames' = [frames EXCEPT ![Len(frames)].data =
                    IF control.data = Nothing THEN @ ELSE control.data]
    /\ control' = Proceed
    /\ UNCHANGED <<stores, submessages, transactions>>

\* Mutant: a submessage that failed does not stop the ones after it.
response_failed_GoingOn ==
    /\ control.step = "failed" /\ AtFrame("response")
    /\ control' = Proceed
    /\ UNCHANGED <<stores, frames, submessages, transactions>>

\* The first error is that of the whole response.
response_failed ==
    /\ control.step = "failed" /\ AtFrame("response")
    /\ frames' = Below
    /\ UNCHANGED <<stores, control, submessages, transactions>>

\* All submessages are over; an instantiation always returns data, the address in it.
response_done ==
    /\ control = Proceed /\ AtFrame("response") /\ Frame.msgs = <<>>
    /\ frames' = Below
    /\ control' = Returned(IF Frame.entry = "instantiate" THEN Frame.contract ELSE Frame.data)
    /\ UNCHANGED <<stores, submessages, transactions>>

-----------------------------------------------------------------------------
(* Transactions of the app.                                                *)

StartWith(frame, step) ==
    /\ control = Idle /\ transactions > 0
    /\ stores' = Append(stores, Base)
    /\ frames' = <<frame>>
    /\ control' = step
    /\ submessages' = MaxSubmessages
    /\ transactions' = transactions - 1

execute_multi ==
    \E tx \in Transactions : StartWith(AppFrame(tx.sender, tx.msgs), Proceed)

wasm_sudo ==
    \E contract \in Contracts :
      StartWith(AppFrame(Nothing, <<>>), [step |-> "sudo", contract |-> contract])

call_sudo ==
    /\ control.step = "sudo"
    /\ CallContract(Store, control.contract, [entry |-> "sudo"])
    /\ UNCHANGED transactions

\* Minting is a transaction of one step; nothing is minted by an amount of zero.
bank_sudo ==
    /\ control = Idle /\ transactions > 0
    /\ \E to \in Accounts, amount \in Mints \ {0} :
         stores' = Written([Store EXCEPT !.balances = mint(@, to, amount),
                                         !.history.issued = @ + amount])
    /\ transactions' = transactions - 1
    /\ UNCHANGED <<frames, control, submessages>>

\* Mutant: the first message is executed again and again.
next_message_Again ==
    /\ control.step \in {"proceed", "returned"} /\ AtFrame("app")
    /\ Frame.begun < Len(Frame.msgs)
    /\ control' = Executing(Frame.sender, Frame.msgs[Frame.begun + 1])
    /\ UNCHANGED <<stores, frames, submessages, transactions>>

\* A message is over, or the first is to come.
next_message ==
    /\ control.step \in {"proceed", "returned"} /\ AtFrame("app")
    /\ Frame.begun < Len(Frame.msgs)
    /\ frames' = [frames EXCEPT ![1].begun = @ + 1]
    /\ control' = Executing(Frame.sender, Frame.msgs[Frame.begun + 1])
    /\ UNCHANGED <<stores, submessages, transactions>>

app_succeeded ==
    /\ control.step \in {"proceed", "returned"} /\ AtFrame("app")
    /\ Frame.begun = Len(Frame.msgs)
    /\ stores' = Committed(Store)
    /\ frames' = Below
    /\ control' = Idle
    /\ UNCHANGED <<submessages, transactions>>

app_failed ==
    /\ control.step = "failed" /\ AtFrame("app")
    /\ stores' = Dropped
    /\ frames' = Below
    /\ control' = Idle
    /\ UNCHANGED <<submessages, transactions>>

-----------------------------------------------------------------------------

\* The app is built with balances, and some contracts were instantiated.
Init ==
    /\ stores = <<[balances |-> InitialBalances,
                   contracts |-> InitialContracts,
                   contract_data |-> InitialData,
                   history |-> [issued |-> SumFunction(InitialBalances), owed |-> 0,
                                instances |-> Cardinality({address \in Contracts :
                                                InitialContracts[address] # Nothing})]]>>
    /\ frames = <<>>
    /\ control = Idle
    /\ submessages = MaxSubmessages
    /\ transactions = MaxTransactions

Start == execute_multi \/ wasm_sudo \/ bank_sudo

Message == bank_send \/ bank_burn \/ wasm_execute \/ wasm_instantiate \/ wasm_migrate
             \/ unsupported

Submessage == execute_submsg \/ submsg_succeeded \/ submsg_failed \/ reply
                \/ response_continued \/ response_failed \/ response_done

Run == call_sudo \/ next_message \/ Message \/ Submessage \/ app_succeeded \/ app_failed

Next == Start \/ Run

\* A call runs until it returns: one thread, and nothing it waits for.
Spec == Init /\ [][Next]_vars /\ WF_vars(Run)

-----------------------------------------------------------------------------

StoreType ==
    [balances : [Accounts -> Nat],
     contracts : [Contracts -> ContractData \cup {Nothing}],
     contract_data : [Contracts -> Values \cup {Nothing}],
     history : [issued : Int, owed : Nat, instances : 0 .. MaxContracts]]

FrameType ==
    [kind : {"app"}, sender : Accounts \cup {Nothing}, msgs : Seq(CosmosMsg), begun : Nat]
      \cup [kind : {"submsg"}, contract : Contracts, reply_on : ReplyOns]
      \cup [kind : {"response"}, contract : Contracts, data : Contracts \cup {Nothing},
            entry : {"execute", "instantiate", "migrate", "reply", "sudo"},
            msgs : Seq(SubMsg)]

ControlType ==
    {Idle, Proceed, Failed}
      \cup [step : {"execute"}, sender : Accounts, msg : CosmosMsg]
      \cup [step : {"reply"}, contract : Contracts, ok : BOOLEAN]
      \cup [step : {"returned"}, data : Contracts \cup {Nothing}]
      \cup [step : {"sudo"}, contract : Contracts]

Opens(frame) == frame.kind \in {"app", "submsg"}

\* Every part of a store has its type, and each transactional that is running
\* has its storage transaction: none is left open, and none ends twice.
TypeOK ==
    /\ stores \in Seq(StoreType) /\ frames \in Seq(FrameType) /\ control \in ControlType
    /\ Top = 1 + Cardinality({n \in DOMAIN frames : Opens(frames[n])})
    /\ submessages \in 0 .. MaxSubmessages /\ transactions \in 0 .. MaxTransactions
    /\ control = Idle <=> frames = <<>>

\* In every storage, committed or not, the balances sum up to what was minted
\* less what was burnt: sends, funds and rollbacks create and lose nothing
\* (bank.rs send, mint, burn).
MoneyConserved ==
    \A n \in DOMAIN stores : SumFunction(stores[n].balances) = stores[n].history.issued

\* In every storage each contract that was registered has an address of its own,
\* a stored code, and data only once it exists, although next_address counts
\* contracts, and counts again those that were rolled back (wasm.rs).
AddressesAreUnique ==
    \A n \in DOMAIN stores :
      LET store == stores[n]
      IN  /\ Registered(store) = 0 .. store.history.instances - 1
          /\ \A address \in Contracts \ Registered(store) :
               store.contract_data[address] = Nothing

\* Whatever a transaction leaves in the app's storage, each submessage of the
\* responses that count was carried out or its failure was answered, and the
\* reply it asked for was accepted (wasm.rs execute_submsg, process_response).
NothingOwed == Base.history.owed = 0

\* The data a call returns was set by the contract that was called, by its entry
\* point or by a reply, never by a contract it sent a submessage to: "no data is
\* set" when reply is not called (wasm.rs, comment on execute_submsg).
DataIsTheContracts ==
    \A n \in DOMAIN frames :
      frames[n].kind = "response" => frames[n].data \in {Nothing, frames[n].contract}

\* What a message takes from its sender when it is executed.
Outlay(m) ==
    IF m.type \in {"send", "burn"} THEN m.amount
    ELSE IF m.type \in {"execute", "instantiate"} /\ m.funds # Nothing THEN m.funds
    ELSE 0

OutlayOf(msgs) == SumFunction([n \in DOMAIN msgs |-> Outlay(msgs[n])])

\* A transaction takes from a user what the messages he signed say, if it takes
\* anything, whatever the contracts do that are called on the way.
UsersPayWhatTheySigned ==
    [][\A user \in Users :
         Base'.balances[user] < Base.balances[user] =>
           /\ frames[1].sender = user
           /\ Base.balances[user] - Base'.balances[user] <= OutlayOf(frames[1].msgs)]_vars

\* A contract stays, its admin with it, and its code changes only when its admin
\* is a contract, or signed the transaction (wasm.rs, Migrate).
OnlyAdminMigrates ==
    [][\A address \in Registered(Base) :
         LET before == Base.contracts[address]
             after == Base'.contracts[address]
         IN  after # before =>
               /\ after # Nothing /\ after.admin = before.admin
               /\ before.admin \in Contracts \cup {frames[1].sender}]_vars

\* When its contracts send finitely many submessages, a transaction ends.
TransactionsEnd == (control # Idle) ~> (control = Idle)

=============================================================================
