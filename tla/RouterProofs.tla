---------------------------- MODULE RouterProofs ----------------------------
(***************************************************************************)
(* What holds of the router whatever contracts answer, for any users,      *)
(* contracts, codes, messages and depth of calls: money is conserved,      *)
(* addresses are unique, submessages are accounted for, data are the       *)
(* called contract's, users pay what they signed, admins migrate.          *)
(* These come first and use nothing of TokenReceiver.  Then the Send       *)
(* message of the token on it.                                             *)
(***************************************************************************)
EXTENDS TokenReceiver, FunctionLemmas, SequenceTheorems

Numbers == [issued : Int, owed : Int, instances : Int]

\* Stores by the types of their parts alone.
CoreStore ==
    [balances : [Accounts -> Nat],
     contracts : [Contracts -> ContractData \cup {Nothing}],
     contract_data : [Contracts -> Values \cup {Nothing}],
     history : Numbers]

Entries == {"execute", "instantiate", "migrate", "reply", "sudo"}

-----------------------------------------------------------------------------
(* What a message or a call makes of the storage it runs in.               *)

\* The balances: `from' has paid what the message says, or nothing.
BalanceStep(old, new, from, outlay) ==
    \/ new.balances = old.balances /\ new.history.issued = old.history.issued
    \/ /\ Payable(old.balances, from, outlay)
       /\ \E to \in Accounts : new.balances = send(old.balances, from, to, outlay)
       /\ new.history.issued = old.history.issued
    \/ /\ Payable(old.balances, from, outlay)
       /\ new.balances = burn(old.balances, from, outlay)
       /\ new.history.issued = old.history.issued - outlay

\* The contracts: one is new, or `from' has migrated one whose admin it is, or none.
ContractStep(old, new, from) ==
    \/ new.contracts = old.contracts /\ new.history.instances = old.history.instances
    \/ /\ next_address(old) < MaxContracts
       /\ \E data \in ContractData :
            new.contracts = [old.contracts EXCEPT ![next_address(old)] = data]
       /\ new.history.instances = old.history.instances + 1
    \/ /\ \E contract \in Registered(old), code_id \in codes :
            /\ old.contracts[contract].admin = from
            /\ new.contracts = [old.contracts EXCEPT ![contract].code_id = code_id]
       /\ new.history.instances = old.history.instances

\* The data: those of one contract were written, or none.
DataStep(old, new) ==
    \/ new.contract_data = old.contract_data
    \/ \E contract \in Registered(new), writes \in Values \cup {Nothing} :
         new.contract_data = [old.contract_data EXCEPT ![contract] = writes]

StoreStep(old, new, from, outlay) ==
    /\ new \in CoreStore
    /\ BalanceStep(old, new, from, outlay)
    /\ ContractStep(old, new, from)
    /\ DataStep(old, new)

\* How it goes on: an error, nothing more, or the submessages of a response.
Responds(old, new, contracts, answered) ==
    \E contract \in contracts, entry \in Entries, msgs \in Seq(SubMsg) :
      \E data \in {Nothing, contract} :
        /\ frames' = Append(frames, ResponseFrame(contract, entry, data, msgs))
        /\ control' = Proceed
        /\ new.history.owed = old.history.owed + Len(msgs) - answered
        /\ Len(msgs) <= submessages
        /\ submessages' = submessages - Len(msgs)

Fails(old, new) ==
    /\ control' = Failed /\ UNCHANGED <<frames, submessages>>
    /\ new.history.owed = old.history.owed

Finishes(old, new, answered) ==
    /\ control' = Returned(Nothing) /\ UNCHANGED <<frames, submessages>>
    /\ new.history.owed = old.history.owed - answered

\* What a message or a call does to the storage it runs in, and how it goes on.
Effect(old, from, outlay, contracts, answered) ==
    \E new :
      /\ stores' = Written(new)
      /\ StoreStep(old, new, from, outlay)
      /\ \/ Fails(old, new)
         \/ Finishes(old, new, answered)
         \/ Responds(old, new, contracts, answered)

MessageEffect(old, from, outlay) == Effect(old, from, outlay, Contracts, 0)

-----------------------------------------------------------------------------

\* A call of a contract writes the data of that contract and nothing else.
LEMMA CallEffect ==
    ASSUME ResponsesAreTyped,
           NEW store \in CoreStore, NEW contract \in Accounts, NEW call \in EntryCall,
           CallContract(store, contract, call)
    PROVE  \E new \in CoreStore :
             /\ stores' = Written(new)
             /\ new.balances = store.balances /\ new.contracts = store.contracts
             /\ new.history.issued = store.history.issued
             /\ new.history.instances = store.history.instances
             /\ DataStep(store, new)
             /\ \/ Fails(store, new)
                \/ /\ contract \in Contracts
                   /\ Responds(store, new, {contract},
                               IF call.entry = "reply" THEN 1 ELSE 0)
<1>1. CASE ~IsContract(store, contract) /\ Fail(store)
  BY <1>1 DEF Fail, DataStep, Fails
<1>2. ASSUME IsContract(store, contract),
             NEW response \in Responses(store.contracts[contract].code_id,
                                        store.contract_data[contract], call),
             LET kept == [store EXCEPT !.contract_data[contract] = response.writes]
             IN  \/ response.result = "Err" /\ Fail(store)
                 \/ response.result = "Invalid" /\ Fail(kept)
                 \/ response.result = "Ok" /\ Respond(kept, contract, call, response)
      PROVE  \E new \in CoreStore :
             /\ stores' = Written(new)
             /\ new.balances = store.balances /\ new.contracts = store.contracts
             /\ new.history.issued = store.history.issued
             /\ new.history.instances = store.history.instances
             /\ DataStep(store, new)
             /\ \/ Fails(store, new)
                \/ /\ contract \in Contracts
                   /\ Responds(store, new, {contract},
                               IF call.entry = "reply" THEN 1 ELSE 0)
  <2> DEFINE kept == [store EXCEPT !.contract_data[contract] = response.writes]
  <2>1. contract \in Contracts /\ store.contracts[contract] \in ContractData
    BY <1>2 DEF IsContract, CoreStore
  <2>2. store.contracts[contract].code_id \in codes
    BY <2>1 DEF ContractData
  <2>3. store.contract_data[contract] \in Values \cup {Nothing}
    BY <2>1 DEF CoreStore
  <2>4. response \in ContractResponse
    BY <1>2, <2>2, <2>3 DEF ResponsesAreTyped
  <2>5. /\ kept \in CoreStore
        /\ kept.balances = store.balances /\ kept.contracts = store.contracts
        /\ kept.history = store.history
        /\ kept.contract_data = [store.contract_data EXCEPT ![contract] = response.writes]
    BY <2>1, <2>4 DEF CoreStore, ContractResponse
  <2>6. contract \in Registered(kept)
    BY <1>2, <2>1, <2>5 DEF Registered, IsContract
  <2>7. response.writes \in Values \cup {Nothing}
    BY <2>4 DEF ContractResponse
  <2>8. DataStep(store, kept) /\ DataStep(store, store)
    BY <2>5, <2>6, <2>7 DEF DataStep
  <2> HIDE DEF kept
  <2>9. CASE response.result = "Err" /\ Fail(store)
    BY <2>8, <2>9 DEF Fail, Fails
  <2>10. CASE response.result = "Invalid" /\ Fail(kept)
    BY <2>5, <2>8, <2>10 DEF Fail, Fails
  <2>11. CASE response.result = "Ok" /\ Respond(kept, contract, call, response)
    <3> DEFINE data == IF response.data THEN contract ELSE Nothing
               answered == IF call.entry = "reply" THEN 1 ELSE 0
               msgs == response.messages
               new == [kept EXCEPT !.history.owed = @ + Len(msgs) - answered]
    <3>1. msgs \in Seq(SubMsg) /\ Len(msgs) \in Nat
      BY <2>4 DEF ContractResponse
    <3>2. answered \in Int /\ data \in {Nothing, contract}
      OBVIOUS
    <3>3. /\ Len(msgs) <= submessages
          /\ submessages' = submessages - Len(msgs)
          /\ stores' = Written(new)
          /\ frames' = Append(frames, ResponseFrame(contract, call.entry, data, msgs))
          /\ control' = Proceed
      BY <2>11 DEF Respond
    <3> HIDE DEF answered, msgs, data
    <3>4. kept.history \in Numbers
      BY <2>5 DEF CoreStore
    <3> DEFINE owed == kept.history.owed + Len(msgs) - answered
    <3>10. owed \in Int /\ kept.history.owed \in Int
      BY <3>1, <3>2, <3>4 DEF Numbers
    <3>5. /\ [kept.history EXCEPT !.owed = @ + Len(msgs) - answered] \in Numbers
          /\ [kept.history EXCEPT !.owed = @ + Len(msgs) - answered].issued = kept.history.issued
          /\ [kept.history EXCEPT !.owed = @ + Len(msgs) - answered].instances
               = kept.history.instances
          /\ [kept.history EXCEPT !.owed = @ + Len(msgs) - answered].owed
               = kept.history.owed + Len(msgs) - answered
      <4> HIDE DEF owed
      <4>1. kept.history \in Numbers /\ owed \in Int
        BY <3>4, <3>10
      <4>2. /\ [kept.history EXCEPT !.owed = owed] \in Numbers
            /\ [kept.history EXCEPT !.owed = owed].owed = owed
            /\ [kept.history EXCEPT !.owed = owed].issued = kept.history.issued
            /\ [kept.history EXCEPT !.owed = owed].instances = kept.history.instances
        BY <4>1 DEF Numbers
      <4>3. QED
        BY <4>2 DEF owed
    <3>6. /\ new \in CoreStore
          /\ new.balances = kept.balances /\ new.contracts = kept.contracts
          /\ new.contract_data = kept.contract_data
          /\ new.history = [kept.history EXCEPT !.owed = @ + Len(msgs) - answered]
      BY <2>5, <3>5 DEF CoreStore
    <3> HIDE DEF new
    <3>7. DataStep(store, new)
      <4>1. Registered(new) = Registered(kept)
        BY <3>6 DEF Registered, IsContract
      <4>2. QED
        BY <2>5, <2>6, <2>7, <3>6, <4>1 DEF DataStep
    <3>11. call.entry \in Entries
      BY DEF EntryCall, Entries
    <3>8. Responds(store, new, {contract}, answered)
      BY <2>5, <3>11, <3>1, <3>2, <3>3, <3>5, <3>6 DEF Responds
    <3>9. QED
      BY <2>1, <2>5, <3>3, <3>5, <3>6, <3>7, <3>8 DEF answered
  <2>12. QED
    BY <1>2, <2>9, <2>10, <2>11 DEF kept
<1>3. QED
  BY <1>1, <1>2 DEF CallContract

-----------------------------------------------------------------------------
(* The messages.                                                           *)

\* The parts of a message have their types.
LEMMA MessageParts ==
    ASSUME NEW m \in CosmosMsg
    PROVE  /\ m.type = "send" => m.to \in Accounts /\ m.amount \in Nat
           /\ m.type = "burn" => m.amount \in Nat
           /\ m.type = "execute" =>
                m.contract \in Accounts /\ m.funds \in Funds /\ m.msg \in Payloads
           /\ m.type = "instantiate" =>
                /\ m.admin \in Accounts \cup {Nothing}
                /\ m.funds \in Funds /\ m.msg \in Payloads
           /\ m.type = "migrate" => m.contract \in Accounts /\ m.msg \in Payloads
BY DEF CosmosMsg

\* A message that is executed has a sender.
LEMMA ExecutingParts ==
    ASSUME control \in ControlType, control.step = "execute"
    PROVE  sender \in Accounts /\ msg \in CosmosMsg
BY DEF ControlType, Idle, Proceed, Failed, sender, msg

\* Payments keep balances balances.
LEMMA PaymentTypes ==
    ASSUME NEW balances \in [Accounts -> Nat], NEW from \in Accounts, NEW to \in Accounts,
           NEW amount, Payable(balances, from, amount)
    PROVE  /\ amount \in Nat
           /\ burn(balances, from, amount) \in [Accounts -> Nat]
           /\ send(balances, from, to, amount) \in [Accounts -> Nat]
<1>1. amount \in Nat /\ balances[from] - amount \in Nat
  BY DEF Payable
<1>2. burn(balances, from, amount) \in [Accounts -> Nat]
  BY <1>1 DEF burn
<1>3. ASSUME NEW b \in [Accounts -> Nat]
      PROVE  mint(b, to, amount) \in [Accounts -> Nat]
  BY <1>1 DEF mint
<1>4. QED
  BY <1>1, <1>2, <1>3 DEF send

\* What the funds of a call do to a store.
LEMMA FundsEffect ==
    ASSUME NEW store \in CoreStore, NEW from \in Accounts,
           NEW to \in Accounts, NEW funds \in Funds, FundsPayable(store, from, funds)
    PROVE  /\ WithFunds(store, from, to, funds) \in CoreStore
           /\ BalanceStep(store, WithFunds(store, from, to, funds), from,
                          IF funds # Nothing THEN funds ELSE 0)
           /\ WithFunds(store, from, to, funds).contracts = store.contracts
           /\ WithFunds(store, from, to, funds).contract_data = store.contract_data
           /\ WithFunds(store, from, to, funds).history = store.history
<1>1. CASE funds = Nothing
  BY <1>1 DEF WithFunds, BalanceStep
<1>2. CASE funds # Nothing
  <2> DEFINE paid == send(store.balances, from, to, funds)
             new == [store EXCEPT !.balances = paid]
  <2>1. Payable(store.balances, from, funds)
    BY <1>2 DEF FundsPayable
  <2>2. store.balances \in [Accounts -> Nat]
    BY DEF CoreStore
  <2>3. paid \in [Accounts -> Nat]
    BY <2>1, <2>2, PaymentTypes
  <2>4. WithFunds(store, from, to, funds) = new
    BY <1>2 DEF WithFunds
  <2> HIDE DEF paid
  <2>5. /\ new \in CoreStore /\ new.balances = paid /\ new.contracts = store.contracts
        /\ new.contract_data = store.contract_data /\ new.history = store.history
    BY <2>3 DEF CoreStore
  <2> HIDE DEF new
  <2>6. BalanceStep(store, new, from, funds)
    BY <2>1, <2>5 DEF BalanceStep, paid
  <2>7. QED
    BY <1>2, <2>4, <2>5, <2>6
<1>3. QED
  BY <1>1, <1>2

\* A step of the contracts is about what is stored of them.
LEMMA SameContracts ==
    ASSUME NEW old, NEW store, NEW new, NEW from, ContractStep(old, store, from),
           new.contracts = store.contracts,
           new.history.instances = store.history.instances
    PROVE  ContractStep(old, new, from)
<1>1. CASE store.contracts = old.contracts /\ store.history.instances = old.history.instances
  BY <1>1 DEF ContractStep
<1>2. CASE /\ next_address(old) < MaxContracts
           /\ \E data \in ContractData :
                store.contracts = [old.contracts EXCEPT ![next_address(old)] = data]
           /\ store.history.instances = old.history.instances + 1
  <2>1. PICK data \in ContractData :
          store.contracts = [old.contracts EXCEPT ![next_address(old)] = data]
    BY <1>2
  <2>2. new.contracts = [old.contracts EXCEPT ![next_address(old)] = data]
    BY <2>1
  <2>3. QED
    BY <1>2, <2>2 DEF ContractStep
<1>3. CASE /\ \E address \in Registered(old), code_id \in codes :
                /\ old.contracts[address].admin = from
                /\ store.contracts = [old.contracts EXCEPT ![address].code_id = code_id]
           /\ store.history.instances = old.history.instances
  <2>1. PICK address \in Registered(old), code_id \in codes :
                /\ old.contracts[address].admin = from
                /\ store.contracts = [old.contracts EXCEPT ![address].code_id = code_id]
    BY <1>3
  <2>2. new.contracts = [old.contracts EXCEPT ![address].code_id = code_id]
    BY <2>1
  <2>3. QED
    BY <1>3, <2>1, <2>2 DEF ContractStep
<1>4. QED
  BY <1>1, <1>2, <1>3 DEF ContractStep

\* What a call makes of a store that a message has prepared.
LEMMA PreparedCall ==
    ASSUME ResponsesAreTyped,
           NEW old \in CoreStore, NEW store \in CoreStore, NEW contract \in Accounts,
           NEW call \in EntryCall, call.entry # "reply",
           CallContract(store, contract, call),
           NEW from, NEW outlay,
           BalanceStep(old, store, from, outlay), ContractStep(old, store, from),
           store.contract_data = old.contract_data,
           store.history.owed = old.history.owed
    PROVE  \E new :
             /\ stores' = Written(new)
             /\ StoreStep(old, new, from, outlay)
             /\ \/ Fails(old, new)
                \/ contract \in Contracts /\ Responds(old, new, {contract}, 0)
<1>1. PICK new \in CoreStore :
        /\ stores' = Written(new)
        /\ new.balances = store.balances /\ new.contracts = store.contracts
        /\ new.history.issued = store.history.issued
        /\ new.history.instances = store.history.instances
        /\ DataStep(store, new)
        /\ \/ Fails(store, new)
           \/ /\ contract \in Contracts
              /\ Responds(store, new, {contract},
                          IF call.entry = "reply" THEN 1 ELSE 0)
  BY CallEffect
<1>2. BalanceStep(old, new, from, outlay)
  BY <1>1 DEF BalanceStep
<1>3. ContractStep(old, new, from)
  BY <1>1, SameContracts
<1>4. DataStep(old, new)
  BY <1>1 DEF DataStep
<1>5. ASSUME Responds(store, new, {contract}, 0)
      PROVE  Responds(old, new, {contract}, 0)
  BY <1>5 DEF Responds
<1>6. QED
  BY <1>1, <1>2, <1>3, <1>4, <1>5 DEF StoreStep, Fails

\* The next address is a number, and a contract's within the bound.
LEMMA NextAddress ==
    ASSUME NEW store
    PROVE  /\ next_address(store) \in Nat
           /\ next_address(store) < MaxContracts => next_address(store) \in Contracts
<1>1. IsFiniteSet(Contracts)
  BY RouterAssumption, FS_Interval DEF Contracts
<1>2. IsFiniteSet(Registered(store))
  BY <1>1, FS_Subset DEF Registered
<1>3. next_address(store) \in Nat
  BY <1>2, FS_CardinalityType DEF next_address
<1>4. QED
  BY RouterAssumption, <1>3 DEF Contracts

\* A failure leaves the store or what was prepared.
LEMMA FailEffect ==
    ASSUME NEW old \in CoreStore, NEW store \in CoreStore, Fail(store), NEW from, NEW outlay,
           BalanceStep(old, store, from, outlay), ContractStep(old, store, from),
           store.contract_data = old.contract_data,
           store.history.owed = old.history.owed
    PROVE  MessageEffect(old, from, outlay)
<1>1. stores' = Written(store) /\ Fails(old, store)
  BY DEF Fail, Fails
<1>2. StoreStep(old, store, from, outlay)
  BY DEF StoreStep, DataStep
<1>3. QED
  BY <1>1, <1>2 DEF MessageEffect, Effect

\* Nothing is a step of each part.
LEMMA NoStep ==
    ASSUME NEW store, NEW from, NEW outlay
    PROVE  BalanceStep(store, store, from, outlay) /\ ContractStep(store, store, from)
BY DEF BalanceStep, ContractStep

LEMMA SendEffect ==
    ASSUME Store \in CoreStore, control \in ControlType, bank_send
    PROVE  MessageEffect(Store, sender, Outlay(msg))
<1>1. control.step = "execute" /\ msg.type = "send"
  BY DEF bank_send, Receives
<1>2. sender \in Accounts /\ msg \in CosmosMsg
  BY <1>1, ExecutingParts
<1>3. msg.to \in Accounts /\ Outlay(msg) = msg.amount
  BY <1>1, <1>2, MessageParts DEF Outlay
<1>4. CASE ~Payable(Store.balances, sender, msg.amount) /\ Fail(Store)
  BY <1>4, NoStep, FailEffect
<1>5. CASE /\ Payable(Store.balances, sender, msg.amount)
           /\ Done([Store EXCEPT !.balances = send(@, sender, msg.to, msg.amount)])
  <2> DEFINE paid == send(Store.balances, sender, msg.to, msg.amount)
             new == [Store EXCEPT !.balances = paid]
  <2>1. Store.balances \in [Accounts -> Nat]
    BY DEF CoreStore
  <2>2. paid \in [Accounts -> Nat]
    BY <1>2, <1>3, <1>5, <2>1, PaymentTypes
  <2>3. stores' = Written(new) /\ control' = Returned(Nothing)
        /\ UNCHANGED <<frames, submessages>>
    BY <1>5 DEF Done
  <2> HIDE DEF paid
  <2>4. /\ new \in CoreStore /\ new.balances = paid /\ new.contracts = Store.contracts
        /\ new.contract_data = Store.contract_data /\ new.history = Store.history
    BY <2>2 DEF CoreStore
  <2> HIDE DEF new
  <2>5. BalanceStep(Store, new, sender, Outlay(msg))
    BY <1>3, <1>5, <2>4 DEF BalanceStep, paid
  <2>6. StoreStep(Store, new, sender, Outlay(msg))
    BY <2>4, <2>5 DEF StoreStep, ContractStep, DataStep
  <2>7. Finishes(Store, new, 0)
    BY <2>3, <2>4 DEF Finishes, CoreStore, Numbers
  <2>8. QED
    BY <2>3, <2>6, <2>7 DEF MessageEffect, Effect
<1>6. QED
  BY <1>4, <1>5 DEF bank_send

LEMMA BurnEffect ==
    ASSUME Store \in CoreStore, control \in ControlType, bank_burn
    PROVE  MessageEffect(Store, sender, Outlay(msg))
<1>1. control.step = "execute" /\ msg.type = "burn"
  BY DEF bank_burn, Receives
<1>2. sender \in Accounts /\ msg \in CosmosMsg
  BY <1>1, ExecutingParts
<1>3. msg.amount \in Nat /\ Outlay(msg) = msg.amount
  BY <1>1, <1>2, MessageParts DEF Outlay
<1>4. CASE ~Payable(Store.balances, sender, msg.amount) /\ Fail(Store)
  BY <1>4, NoStep, FailEffect
<1>5. CASE /\ Payable(Store.balances, sender, msg.amount)
           /\ Done([Store EXCEPT !.balances = burn(@, sender, msg.amount),
                                 !.history.issued = @ - msg.amount])
  <2> DEFINE paid == burn(Store.balances, sender, msg.amount)
             issued == Store.history.issued - msg.amount
             counted == [Store.history EXCEPT !.issued = issued]
             new == [Store EXCEPT !.balances = paid, !.history = counted]
  <2>1. Store.balances \in [Accounts -> Nat] /\ Store.history \in Numbers
    BY DEF CoreStore
  <2>2. paid \in [Accounts -> Nat]
    BY <1>2, <1>3, <1>5, <2>1, PaymentTypes
  <2>3. issued \in Int
    BY <1>3, <2>1 DEF Numbers
  <2>4. stores' = Written(new) /\ control' = Returned(Nothing)
        /\ UNCHANGED <<frames, submessages>>
    BY <1>5, <2>1 DEF Done, CoreStore
  <2> HIDE DEF paid, issued
  <2>5. /\ counted \in Numbers /\ counted.issued = issued
        /\ counted.owed = Store.history.owed /\ counted.instances = Store.history.instances
    BY <2>1, <2>3 DEF Numbers
  <2> HIDE DEF counted
  <2>6. /\ new \in CoreStore /\ new.balances = paid /\ new.contracts = Store.contracts
        /\ new.contract_data = Store.contract_data /\ new.history = counted
    BY <2>2, <2>5 DEF CoreStore
  <2> HIDE DEF new
  <2>7. BalanceStep(Store, new, sender, Outlay(msg))
    BY <1>3, <1>5, <2>5, <2>6 DEF BalanceStep, paid, issued
  <2>8. StoreStep(Store, new, sender, Outlay(msg))
    BY <2>5, <2>6, <2>7 DEF StoreStep, ContractStep, DataStep
  <2>9. Finishes(Store, new, 0)
    BY <2>4, <2>5, <2>6 DEF Finishes, CoreStore, Numbers
  <2>10. QED
    BY <2>4, <2>8, <2>9 DEF MessageEffect, Effect
<1>6. QED
  BY <1>4, <1>5 DEF bank_burn

LEMMA ExecuteEffect ==
    ASSUME ResponsesAreTyped, Store \in CoreStore,
           control \in ControlType, wasm_execute
    PROVE  MessageEffect(Store, sender, Outlay(msg))
<1>1. control.step = "execute" /\ msg.type = "execute"
  BY DEF wasm_execute, Receives
<1>2. sender \in Accounts /\ msg \in CosmosMsg
  BY <1>1, ExecutingParts
<1>3. /\ msg.contract \in Accounts /\ msg.funds \in Funds /\ msg.msg \in Payloads
      /\ Outlay(msg) = IF msg.funds # Nothing THEN msg.funds ELSE 0
  BY <1>1, <1>2, MessageParts DEF Outlay
<1>4. CASE ~FundsPayable(Store, sender, msg.funds) /\ Fail(Store)
  BY <1>4, NoStep, FailEffect
<1>5. CASE /\ FundsPayable(Store, sender, msg.funds)
           /\ CallContract(WithFunds(Store, sender, msg.contract, msg.funds), msg.contract,
                           [entry |-> "execute", sender |-> sender, funds |-> msg.funds,
                            msg |-> msg.msg])
  <2> DEFINE store == WithFunds(Store, sender, msg.contract, msg.funds)
             call == [entry |-> "execute", sender |-> sender, funds |-> msg.funds,
                      msg |-> msg.msg]
  <2>1. /\ store \in CoreStore /\ BalanceStep(Store, store, sender, Outlay(msg))
        /\ store.contracts = Store.contracts
        /\ store.contract_data = Store.contract_data /\ store.history = Store.history
    BY <1>2, <1>3, <1>5, FundsEffect
  <2>2. call \in EntryCall /\ call.entry = "execute"
    BY <1>2, <1>3 DEF EntryCall
  <2>3. CallContract(store, msg.contract, call)
    BY <1>5
  <2> HIDE DEF store, call
  <2>4. ContractStep(Store, store, sender)
    BY <2>1 DEF ContractStep
  <2>5. PICK new :
          /\ stores' = Written(new)
          /\ StoreStep(Store, new, sender, Outlay(msg))
          /\ \/ Fails(Store, new)
             \/ msg.contract \in Contracts /\ Responds(Store, new, {msg.contract}, 0)
    BY <1>3, <2>1, <2>2, <2>3, <2>4, PreparedCall
  <2>6. QED
    BY <2>2, <2>5 DEF MessageEffect, Effect, Responds
<1>6. QED
  BY <1>4, <1>5 DEF wasm_execute

\* Registering a contract is a step of the contracts.
LEMMA RegisterEffect ==
    ASSUME NEW store \in CoreStore, NEW code_id \in codes,
           NEW admin \in Accounts \cup {Nothing}, next_address(store) < MaxContracts
    PROVE  LET registered == register_contract(store, code_id, admin)
           IN  /\ registered \in CoreStore
               /\ registered.balances = store.balances
               /\ registered.contract_data = store.contract_data
               /\ registered.history.issued = store.history.issued
               /\ registered.history.owed = store.history.owed
               /\ \A from : ContractStep(store, registered, from)
<1> DEFINE data == [code_id |-> code_id, admin |-> admin]
           contracts == [store.contracts EXCEPT ![next_address(store)] = data]
           instances == store.history.instances + 1
           counted == [store.history EXCEPT !.instances = instances]
           new == [store EXCEPT !.contracts = contracts, !.history = counted]
<1>1. store.contracts \in [Contracts -> ContractData \cup {Nothing}]
      /\ store.history \in Numbers
  BY DEF CoreStore
<1>2. data \in ContractData
  BY DEF ContractData
<1>3. contracts \in [Contracts -> ContractData \cup {Nothing}]
  <2> HIDE DEF data
  <2>1. QED
    BY <1>1, <1>2
<1>4. instances \in Int
  BY <1>1 DEF Numbers
<1>5. register_contract(store, code_id, admin) = new
  BY DEF register_contract, CoreStore
<1> HIDE DEF data, contracts, instances
<1>6. /\ counted \in Numbers /\ counted.instances = instances
      /\ counted.owed = store.history.owed /\ counted.issued = store.history.issued
  BY <1>1, <1>4 DEF Numbers
<1> HIDE DEF counted
<1>7. /\ new \in CoreStore /\ new.contracts = contracts /\ new.balances = store.balances
      /\ new.contract_data = store.contract_data /\ new.history = counted
  BY <1>3, <1>6 DEF CoreStore
<1> HIDE DEF new
<1>8. /\ new.contracts = [store.contracts EXCEPT ![next_address(store)] = data]
      /\ new.history.instances = store.history.instances + 1
  BY <1>6, <1>7 DEF contracts, instances
<1>9. \A from : ContractStep(store, new, from)
  BY <1>2, <1>8 DEF ContractStep
<1>10. QED
  BY <1>5, <1>6, <1>7, <1>9

LEMMA InstantiateEffect ==
    ASSUME ResponsesAreTyped, Store \in CoreStore,
           control \in ControlType, wasm_instantiate
    PROVE  MessageEffect(Store, sender, Outlay(msg))
<1>1. control.step = "execute" /\ msg.type = "instantiate"
      /\ next_address(Store) < MaxContracts
  BY DEF wasm_instantiate, Receives
<1>2. sender \in Accounts /\ msg \in CosmosMsg
  BY <1>1, ExecutingParts
<1>3. /\ msg.admin \in Accounts \cup {Nothing} /\ msg.funds \in Funds /\ msg.msg \in Payloads
      /\ Outlay(msg) = IF msg.funds # Nothing THEN msg.funds ELSE 0
  BY <1>1, <1>2, MessageParts DEF Outlay
<1> DEFINE contract == next_address(Store)
           registered == register_contract(Store, msg.code_id, msg.admin)
           store == WithFunds(registered, sender, contract, msg.funds)
           call == [entry |-> "instantiate", sender |-> sender, funds |-> msg.funds,
                    msg |-> msg.msg]
<1>4. CASE msg.code_id \notin codes /\ Fail(Store)
  BY <1>4, NoStep, FailEffect
<1>5. CASE /\ msg.code_id \in codes
           /\ \/ FundsPayable(registered, sender, msg.funds)
                 /\ CallContract(store, contract, call)
              \/ ~FundsPayable(registered, sender, msg.funds) /\ Fail(registered)
  <2>1. /\ registered \in CoreStore
        /\ registered.balances = Store.balances
        /\ registered.contract_data = Store.contract_data
        /\ registered.history.issued = Store.history.issued
        /\ registered.history.owed = Store.history.owed
        /\ ContractStep(Store, registered, sender)
    BY <1>1, <1>3, <1>5, RegisterEffect
  <2>2. contract \in Accounts
    BY <1>1, NextAddress DEF Accounts
  <2>3. call \in EntryCall /\ call.entry = "instantiate"
    BY <1>2, <1>3 DEF EntryCall
  <2> HIDE DEF registered, contract, call
  <2>4. BalanceStep(Store, registered, sender, Outlay(msg))
    BY <2>1 DEF BalanceStep
  <2>5. CASE ~FundsPayable(registered, sender, msg.funds) /\ Fail(registered)
    BY <2>1, <2>4, <2>5, FailEffect
  <2>6. CASE FundsPayable(registered, sender, msg.funds)
             /\ CallContract(store, contract, call)
    <3>1. /\ store \in CoreStore /\ BalanceStep(registered, store, sender, Outlay(msg))
          /\ store.contracts = registered.contracts
          /\ store.contract_data = registered.contract_data
          /\ store.history = registered.history
      BY <1>2, <1>3, <2>1, <2>2, <2>6, FundsEffect
    <3>2. CallContract(store, contract, call)
      BY <2>6
    <3> HIDE DEF store
    <3>3. ContractStep(Store, store, sender)
      BY <2>1, <3>1, SameContracts
    <3>4. BalanceStep(Store, store, sender, Outlay(msg))
      BY <2>1, <3>1 DEF BalanceStep
    <3>5. store.contract_data = Store.contract_data /\ store.history.owed = Store.history.owed
      BY <2>1, <3>1
    <3>6. PICK new :
            /\ stores' = Written(new)
            /\ StoreStep(Store, new, sender, Outlay(msg))
            /\ \/ Fails(Store, new)
               \/ contract \in Contracts /\ Responds(Store, new, {contract}, 0)
      BY <2>2, <2>3, <3>1, <3>2, <3>3, <3>4, <3>5, PreparedCall
    <3>7. QED
      BY <2>3, <3>6 DEF MessageEffect, Effect, Responds
  <2>7. QED
    BY <1>5, <2>5, <2>6
<1>6. QED
  BY <1>4, <1>5 DEF wasm_instantiate

\* Migrating a contract changes its code.
LEMMA MigratedStore ==
    ASSUME NEW store \in CoreStore, NEW contract \in Registered(store), NEW code_id \in codes
    PROVE  LET new == [store EXCEPT !.contracts[contract].code_id = code_id]
           IN  /\ new \in CoreStore
               /\ new.contracts = [store.contracts EXCEPT ![contract].code_id = code_id]
               /\ new.balances = store.balances
               /\ new.contract_data = store.contract_data /\ new.history = store.history
<1> DEFINE changed == [store.contracts EXCEPT ![contract].code_id = code_id]
           new == [store EXCEPT !.contracts = changed]
<1>1. contract \in Contracts /\ store.contracts[contract] # Nothing
      /\ store.contracts \in [Contracts -> ContractData \cup {Nothing}]
  BY DEF CoreStore, Registered, IsContract
<1>2. store.contracts[contract] \in ContractData
  BY <1>1
<1>3. [store.contracts[contract] EXCEPT !.code_id = code_id] \in ContractData
  BY <1>2 DEF ContractData
<1>4. changed = [store.contracts EXCEPT
                   ![contract] = [store.contracts[contract] EXCEPT !.code_id = code_id]]
  OBVIOUS
<1>5. changed \in [Contracts -> ContractData \cup {Nothing}]
  <2> HIDE DEF changed
  <2>1. QED
    BY <1>1, <1>3, <1>4
<1>6. new = [store EXCEPT !.contracts[contract].code_id = code_id]
  OBVIOUS
<1> HIDE DEF changed
<1>7. /\ new \in CoreStore /\ new.contracts = changed /\ new.balances = store.balances
      /\ new.contract_data = store.contract_data /\ new.history = store.history
  BY <1>5 DEF CoreStore
<1>8. QED
  BY <1>6, <1>7 DEF changed

LEMMA MigrateEffect ==
    ASSUME ResponsesAreTyped, Store \in CoreStore,
           control \in ControlType, wasm_migrate
    PROVE  MessageEffect(Store, sender, Outlay(msg))
<1>1. control.step = "execute" /\ msg.type = "migrate"
  BY DEF wasm_migrate, Receives
<1>2. sender \in Accounts /\ msg \in CosmosMsg
  BY <1>1, ExecutingParts
<1>3. msg.contract \in Accounts /\ msg.msg \in Payloads
  BY <1>1, <1>2, MessageParts
<1>4. CASE ~(msg.code_id \in codes /\ MayMigrate(Store, sender, msg.contract)) /\ Fail(Store)
  BY <1>4, NoStep, FailEffect
<1> DEFINE contract == msg.contract
           store == [Store EXCEPT !.contracts[contract].code_id = msg.code_id]
           call == [entry |-> "migrate", msg |-> msg.msg]
<1>5. CASE /\ msg.code_id \in codes /\ MayMigrate(Store, sender, contract)
           /\ CallContract(store, contract, call)
  <2>1. contract \in Registered(Store) /\ Store.contracts[contract].admin = sender
    BY <1>5 DEF MayMigrate, IsContract, Registered
  <2>2. /\ store \in CoreStore
        /\ store.contracts = [Store.contracts EXCEPT ![contract].code_id = msg.code_id]
        /\ store.balances = Store.balances
        /\ store.contract_data = Store.contract_data /\ store.history = Store.history
    BY <1>5, <2>1, MigratedStore
  <2>3. call \in EntryCall /\ call.entry = "migrate" /\ CallContract(store, contract, call)
    BY <1>3, <1>5 DEF EntryCall
  <2> HIDE DEF store, call
  <2>4. ContractStep(Store, store, sender)
    BY <1>5, <2>1, <2>2 DEF ContractStep
  <2>5. BalanceStep(Store, store, sender, Outlay(msg))
    BY <2>2 DEF BalanceStep
  <2>6. PICK new :
          /\ stores' = Written(new)
          /\ StoreStep(Store, new, sender, Outlay(msg))
          /\ \/ Fails(Store, new)
             \/ contract \in Contracts /\ Responds(Store, new, {contract}, 0)
    BY <1>3, <2>2, <2>3, <2>4, <2>5, PreparedCall
  <2>7. QED
    BY <2>6 DEF MessageEffect, Effect, Responds
<1>6. QED
  BY <1>4, <1>5 DEF wasm_migrate

\* Every message is a step of the store it runs in.
LEMMA MessageSteps ==
    ASSUME ResponsesAreTyped, Store \in CoreStore,
           control \in ControlType, Message
    PROVE  /\ MessageEffect(Store, sender, Outlay(msg))
           /\ control.step = "execute" /\ UNCHANGED transactions
<1>1. control.step = "execute" /\ UNCHANGED transactions
  BY DEF Message, bank_send, bank_burn, wasm_execute, wasm_instantiate, wasm_migrate,
         unsupported, Receives
<1>2. ASSUME unsupported PROVE MessageEffect(Store, sender, Outlay(msg))
  <2>1. Fail(Store)
    BY <1>2 DEF unsupported
  <2>2. QED
    BY <2>1, NoStep, FailEffect
<1>3. QED
  BY <1>1, <1>2, SendEffect, BurnEffect, ExecuteEffect, InstantiateEffect, MigrateEffect
     DEF Message

-----------------------------------------------------------------------------
(* The calls that no message asks for.                                     *)

\* A call that pays nothing is a step of the store, for whomever.
LEMMA BareCall ==
    ASSUME ResponsesAreTyped, Store \in CoreStore, NEW contract \in Contracts,
           NEW call \in EntryCall, NEW answered, NEW contracts,
           answered = IF call.entry = "reply" THEN 1 ELSE 0, contract \in contracts,
           CallContract(Store, contract, call)
    PROVE  Effect(Store, contract, 0, contracts, answered)
<1>1. PICK new \in CoreStore :
        /\ stores' = Written(new)
        /\ new.balances = Store.balances /\ new.contracts = Store.contracts
        /\ new.history.issued = Store.history.issued
        /\ new.history.instances = Store.history.instances
        /\ DataStep(Store, new)
        /\ \/ Fails(Store, new)
           \/ /\ contract \in Contracts
              /\ Responds(Store, new, {contract},
                          IF call.entry = "reply" THEN 1 ELSE 0)
  BY CallEffect DEF Accounts
<1>2. StoreStep(Store, new, contract, 0)
  BY <1>1 DEF StoreStep, BalanceStep, ContractStep
<1>3. Responds(Store, new, {contract}, answered) => Responds(Store, new, contracts, answered)
  BY DEF Responds
<1>4. QED
  BY <1>1, <1>2, <1>3 DEF Effect

LEMMA ReplyEffect ==
    ASSUME ResponsesAreTyped, Store \in CoreStore, control \in ControlType, reply
    PROVE  /\ control.step = "reply" /\ control.contract \in Contracts
           /\ UNCHANGED transactions
           /\ Effect(Store, control.contract, 0, {control.contract}, 1)
<1> DEFINE call == [entry |-> "reply", ok |-> control.ok]
<1>1. control.step = "reply" /\ control.contract \in Contracts /\ control.ok \in BOOLEAN
  BY DEF reply, ControlType, Idle, Proceed, Failed
<1>2. call \in EntryCall /\ call.entry = "reply" /\ CallContract(Store, control.contract, call)
  BY <1>1 DEF EntryCall, reply
<1> HIDE DEF call
<1>3. Effect(Store, control.contract, 0, {control.contract}, 1)
  BY <1>1, <1>2, BareCall
<1>4. QED
  BY <1>1, <1>3 DEF reply

LEMMA SudoEffect ==
    ASSUME ResponsesAreTyped, Store \in CoreStore, control \in ControlType, call_sudo
    PROVE  /\ control.step = "sudo" /\ control.contract \in Contracts
           /\ UNCHANGED transactions
           /\ Effect(Store, control.contract, 0, Contracts, 0)
<1> DEFINE call == [entry |-> "sudo"]
<1>1. control.step = "sudo" /\ control.contract \in Contracts
  BY DEF call_sudo, ControlType, Idle, Proceed, Failed
<1>2. call \in EntryCall /\ call.entry = "sudo" /\ CallContract(Store, control.contract, call)
  BY <1>1 DEF EntryCall, call_sudo
<1> HIDE DEF call
<1>3. Effect(Store, control.contract, 0, Contracts, 0)
  BY <1>1, <1>2, BareCall
<1>4. QED
  BY <1>1, <1>3 DEF call_sudo

-----------------------------------------------------------------------------
(* What holds in every storage.                                            *)

\* The contracts have the first addresses, and only they have data.
Numbered(store) ==
    /\ store.history.instances \in 0 .. MaxContracts
    /\ Registered(store) = 0 .. store.history.instances - 1
    /\ \A address \in Contracts \ Registered(store) : store.contract_data[address] = Nothing

Conserved(store) == SumFunction(store.balances) = store.history.issued

GoodStore == {store \in CoreStore : Numbered(store) /\ Conserved(store)}

LEMMA FiniteAccounts == IsFiniteSet(Accounts)
<1>1. IsFiniteSet(Contracts)
  BY RouterAssumption, FS_Interval DEF Contracts
<1>2. QED
  BY RouterAssumption, <1>1, FS_Union DEF Accounts

\* Where contracts are numbered, the next address is their number.
LEMMA NextIsNumber ==
    ASSUME NEW store, Numbered(store)
    PROVE  next_address(store) = store.history.instances
<1>1. store.history.instances \in Nat
  BY RouterAssumption DEF Numbered
<1>2. Cardinality(0 .. store.history.instances - 1) = store.history.instances
  BY <1>1, FS_Interval
<1>3. QED
  BY <1>2 DEF Numbered, next_address

\* A step of the contracts and their data keeps them numbered.
LEMMA NumberedStep ==
    ASSUME NEW old \in CoreStore, NEW new \in CoreStore, NEW from,
           Numbered(old), ContractStep(old, new, from), DataStep(old, new)
    PROVE  Numbered(new) /\ Registered(old) \subseteq Registered(new)
<1> DEFINE n == old.history.instances
<1>1. n \in 0 .. MaxContracts /\ Registered(old) = 0 .. n - 1 /\ MaxContracts \in Nat
  BY RouterAssumption DEF Numbered
<1>2. /\ old.contracts \in [Contracts -> ContractData \cup {Nothing}]
      /\ old.contract_data \in [Contracts -> Values \cup {Nothing}]
  BY DEF CoreStore
<1>3. Nothing \notin ContractData
  BY RouterAssumption
<1>4. /\ new.history.instances \in 0 .. MaxContracts
      /\ Registered(new) = 0 .. new.history.instances - 1
      /\ n <= new.history.instances
  <2>1. CASE new.contracts = old.contracts /\ new.history.instances = n
    BY <1>1, <2>1 DEF Registered, IsContract
  <2>2. CASE /\ next_address(old) < MaxContracts
             /\ \E data \in ContractData :
                  new.contracts = [old.contracts EXCEPT ![next_address(old)] = data]
             /\ new.history.instances = n + 1
    <3>0. next_address(old) = n
      BY NextIsNumber
    <3>1. next_address(old) = n /\ n \in Contracts
      <4> HIDE DEF n
      <4>1. QED
        BY <1>1, <2>2, <3>0 DEF Contracts
    <3>2. PICK data \in ContractData : new.contracts = [old.contracts EXCEPT ![n] = data]
      BY <2>2, <3>1
    <3>3. Registered(new) = Registered(old) \cup {n}
      BY <1>2, <1>3, <3>1, <3>2 DEF Registered, IsContract
    <3> HIDE DEF n
    <3>4. n + 1 \in 0 .. MaxContracts /\ n <= n + 1
      BY <1>1, <3>1 DEF Contracts
    <3>5. 0 .. (n + 1) - 1 = (0 .. n - 1) \cup {n}
      BY <1>1
    <3>6. QED
      BY <1>1, <2>2, <3>3, <3>4, <3>5
  <2>3. CASE /\ \E contract \in Registered(old), code_id \in codes :
                  /\ old.contracts[contract].admin = from
                  /\ new.contracts = [old.contracts EXCEPT ![contract].code_id = code_id]
             /\ new.history.instances = n
    <3>1. PICK contract \in Registered(old), code_id \in codes :
                  new.contracts = [old.contracts EXCEPT ![contract].code_id = code_id]
      BY <2>3
    <3>2. contract \in Contracts /\ old.contracts[contract] \in ContractData
      BY <1>2 DEF Registered, IsContract
    <3>3. [old.contracts[contract] EXCEPT !.code_id = code_id] \in ContractData
      BY <3>2 DEF ContractData
    <3>4. new.contracts[contract] # Nothing
      BY <1>2, <1>3, <3>1, <3>2, <3>3
    <3>5. \A address \in Contracts \ {contract} :
            new.contracts[address] = old.contracts[address]
      BY <1>2, <3>1
    <3>6. Registered(new) = Registered(old)
      BY <3>2, <3>4, <3>5 DEF Registered, IsContract
    <3>7. QED
      BY <1>1, <2>3, <3>6
  <2>4. QED
    BY <2>1, <2>2, <2>3 DEF ContractStep
<1>5. Registered(old) \subseteq Registered(new)
  BY <1>1, <1>4
<1>6. ASSUME NEW address \in Contracts \ Registered(new)
      PROVE  new.contract_data[address] = Nothing
  <2>1. old.contract_data[address] = Nothing
    BY <1>5, <1>6 DEF Numbered
  <2>2. QED
    BY <1>2, <1>6, <2>1 DEF DataStep
<1>7. QED
  BY <1>4, <1>5, <1>6 DEF Numbered

\* A payment keeps the sum, a burn lowers it by its amount.
LEMMA ConservedStep ==
    ASSUME NEW old \in CoreStore, NEW new \in CoreStore,
           NEW from \in Accounts, NEW outlay,
           Conserved(old), BalanceStep(old, new, from, outlay)
    PROVE  Conserved(new)
<1> DEFINE balances == old.balances
           burnt == burn(balances, from, outlay)
           left == balances[from] - outlay
<1>1. balances \in [Accounts -> Nat] /\ balances \in [Accounts -> Int]
  BY DEF CoreStore
<1>2. SumFunction(balances) \in Int
  <2>1. SumFunction(balances) = SumFunctionOnSet(balances, Accounts)
    BY <1>1 DEF SumFunction
  <2>2. \A a \in Accounts : balances[a] \in Int
    BY <1>1
  <2> HIDE DEF balances
  <2>3. QED
    BY <2>1, <2>2, FiniteAccounts, SumType
<1>3. ASSUME Payable(balances, from, outlay)
      PROVE  /\ outlay \in Nat /\ burnt \in [Accounts -> Nat]
             /\ SumFunction(burnt) = SumFunction(balances) - outlay
  <2>1. outlay \in Nat /\ burnt \in [Accounts -> Nat]
    BY <1>1, <1>3, PaymentTypes
  <2>2. burnt = [balances EXCEPT ![from] = left]
    BY DEF burn
  <2>3. balances[from] \in Int /\ left \in Int
    BY <1>1, <2>1
  <2> HIDE DEF balances, left
  <2> HIDE DEF burnt
  <2>4. /\ burnt \in [Accounts -> Int] /\ burnt[from] = left
        /\ \A a \in Accounts \ {from} : burnt[a] = balances[a]
    BY <1>1, <2>1, <2>2
  <2>5. SumFunction(burnt) = SumFunction(balances) - balances[from] + burnt[from]
    BY <1>1, <2>4, FiniteAccounts, SumDiffers
  <2>6. QED
    BY <1>2, <2>1, <2>3, <2>4, <2>5 DEF left
<1>4. ASSUME Payable(balances, from, outlay), NEW to \in Accounts
      PROVE  SumFunction(send(balances, from, to, outlay)) = SumFunction(balances)
  <2>1. /\ outlay \in Nat /\ burnt \in [Accounts -> Nat]
        /\ SumFunction(burnt) = SumFunction(balances) - outlay
    BY <1>3, <1>4
  <2> DEFINE more == burnt[to] + outlay
             sent == send(balances, from, to, outlay)
  <2>2. sent = [burnt EXCEPT ![to] = more]
    BY DEF send, mint
  <2> HIDE DEF balances, burnt
  <2>3. burnt \in [Accounts -> Int] /\ burnt[to] \in Int /\ more \in Int
    BY <2>1
  <2> HIDE DEF more, sent
  <2>4. /\ sent \in [Accounts -> Int] /\ sent[to] = more
        /\ \A a \in Accounts \ {to} : sent[a] = burnt[a]
    BY <2>2, <2>3
  <2>5. SumFunction(sent) = SumFunction(burnt) - burnt[to] + sent[to]
    BY <2>3, <2>4, FiniteAccounts, SumDiffers
  <2>6. QED
    BY <1>2, <2>1, <2>3, <2>4, <2>5 DEF more, sent
<1> HIDE DEF balances, burnt, left
<1>5. SumFunction(balances) = old.history.issued
  BY DEF Conserved, balances
<1>6. CASE new.balances = balances /\ new.history.issued = old.history.issued
  BY <1>5, <1>6 DEF Conserved
<1>7. CASE /\ Payable(balances, from, outlay)
           /\ \E to \in Accounts : new.balances = send(balances, from, to, outlay)
           /\ new.history.issued = old.history.issued
  BY <1>4, <1>5, <1>7 DEF Conserved
<1>8. CASE /\ Payable(balances, from, outlay)
           /\ new.balances = burnt
           /\ new.history.issued = old.history.issued - outlay
  BY <1>3, <1>5, <1>8 DEF Conserved
<1>9. QED
  BY <1>6, <1>7, <1>8 DEF BalanceStep, balances, burnt

\* So a step of a good store gives a good store.
LEMMA GoodStep ==
    ASSUME NEW old \in GoodStore, NEW new, NEW from \in Accounts,
           NEW outlay, StoreStep(old, new, from, outlay)
    PROVE  new \in GoodStore
BY NumberedStep, ConservedStep DEF GoodStore, StoreStep

-----------------------------------------------------------------------------
(* The storages and the frames as sequences.                               *)

\* Writing the innermost storage leaves the ones around it.
LEMMA WrittenStores ==
    ASSUME NEW S, stores \in Seq(S), Top \in Nat \ {0}, NEW store \in S
    PROVE  /\ Written(store) \in Seq(S) /\ Len(Written(store)) = Top
           /\ Written(store)[Top] = store
           /\ \A n \in 1 .. Top - 1 : Written(store)[n] = stores[n]
BY DEF Written, Top

\* Beginning a storage transaction leaves them all.
LEMMA OpenedStores ==
    ASSUME NEW S, stores \in Seq(S), NEW store \in S
    PROVE  /\ Append(stores, store) \in Seq(S) /\ Len(Append(stores, store)) = Top + 1
           /\ Append(stores, store)[Top + 1] = store
           /\ \A n \in 1 .. Top : Append(stores, store)[n] = stores[n]
BY DEF Top

\* Committing replaces the storage around, dropping leaves it.
LEMMA CommittedStores ==
    ASSUME NEW S, stores \in Seq(S), Top \in Nat, Top >= 2, NEW store \in S
    PROVE  /\ Committed(store) \in Seq(S) /\ Len(Committed(store)) = Top - 1
           /\ Committed(store)[Top - 1] = store
           /\ \A n \in 1 .. Top - 2 : Committed(store)[n] = stores[n]
<1> DEFINE below == SubSeq(stores, 1, Top - 2)
<1>1. Top = Len(stores) /\ Top - 2 \in 0 .. Len(stores)
  BY DEF Top
<1>2. /\ below \in Seq(S) /\ Len(below) = Top - 2
      /\ \A n \in 1 .. Top - 2 : below[n] = stores[n]
  BY <1>1, SubSeqProperties
<1> HIDE DEF below
<1>3. Committed(store) = Append(below, store)
  BY DEF Committed, below
<1>4. QED
  BY <1>1, <1>2, <1>3

LEMMA DroppedStores ==
    ASSUME NEW S, stores \in Seq(S), Top \in Nat, Top >= 2
    PROVE  /\ Dropped \in Seq(S) /\ Len(Dropped) = Top - 1
           /\ \A n \in 1 .. Top - 1 : Dropped[n] = stores[n]
<1>1. Top = Len(stores) /\ Top - 1 \in 0 .. Len(stores)
  BY DEF Top
<1>2. QED
  BY <1>1, SubSeqProperties DEF Dropped

\* The frames below the innermost.
LEMMA BelowFrames ==
    ASSUME NEW S, frames \in Seq(S), frames # <<>>
    PROVE  /\ Len(frames) \in Nat \ {0} /\ Frame \in S
           /\ Below \in Seq(S) /\ Len(Below) = Len(frames) - 1
           /\ \A n \in 1 .. Len(frames) - 1 : Below[n] = frames[n]
<1>1. Len(frames) \in Nat \ {0}
  OBVIOUS
<1> DEFINE k == Len(frames) - 1
<1>2. k \in 0 .. Len(frames) /\ Below = SubSeq(frames, 1, k)
  BY <1>1 DEF Below
<1> HIDE DEF k
<1>6. /\ Below \in Seq(S) /\ Len(Below) = k
      /\ \A n \in 1 .. k : Below[n] = frames[n]
  BY <1>1, <1>2, SubSeqProperties
<1>3. /\ Below \in Seq(S) /\ Len(Below) = Len(frames) - 1
      /\ \A n \in 1 .. Len(frames) - 1 : Below[n] = frames[n]
  BY <1>6 DEF k
<1>4. Frame \in S
  BY <1>1 DEF Frame
<1>5. QED
  BY <1>1, <1>3, <1>4

-----------------------------------------------------------------------------
(* The storage transactions that are open around a frame.                  *)

\* Of the first n frames, the ones that opened a storage transaction, and the app's storage.
Level(fr, n) == 1 + Cardinality({i \in 1 .. n : Opens(fr[i])})

LEMMA LevelType ==
    ASSUME NEW fr, NEW n \in Nat
    PROVE  Level(fr, n) \in Nat \ {0} /\ IsFiniteSet({i \in 1 .. n : Opens(fr[i])})
<1>1. IsFiniteSet({i \in 1 .. n : Opens(fr[i])})
  <2>1. IsFiniteSet(1 .. n)
    BY FS_Interval
  <2>2. {i \in 1 .. n : Opens(fr[i])} \subseteq 1 .. n
    OBVIOUS
  <2>3. QED
    BY <2>1, <2>2, FS_Subset
<1>2. QED
  BY <1>1, FS_CardinalityType DEF Level

LEMMA LevelZero == ASSUME NEW fr PROVE Level(fr, 0) = 1
BY FS_EmptySet DEF Level

\* A frame that opens one adds one.
LEMMA LevelNext ==
    ASSUME NEW fr, NEW n \in Nat \ {0}
    PROVE  Level(fr, n) = Level(fr, n - 1) + IF Opens(fr[n]) THEN 1 ELSE 0
<1> DEFINE opening(k) == {i \in 1 .. k : Opens(fr[i])}
<1>1. n - 1 \in Nat /\ n \notin opening(n - 1)
  OBVIOUS
<1>2. IsFiniteSet(opening(n - 1)) /\ Level(fr, n - 1) \in Nat
  BY <1>1, LevelType
<1>3. CASE Opens(fr[n])
  <2>1. opening(n) = opening(n - 1) \cup {n}
    BY <1>3
  <2>2. Cardinality(opening(n)) = Cardinality(opening(n - 1)) + 1
    BY <1>1, <1>2, <2>1, FS_AddElement
  <2>3. Cardinality(opening(n - 1)) \in Nat
    BY <1>2, FS_CardinalityType
  <2> HIDE DEF opening
  <2>4. QED
    BY <1>3, <2>2, <2>3 DEF Level, opening
<1>4. CASE ~Opens(fr[n])
  <2>1. opening(n) = opening(n - 1)
    BY <1>4
  <2>2. QED
    BY <1>2, <1>4, <2>1 DEF Level
<1>5. QED
  BY <1>3, <1>4

\* Frames that open the same give the same levels.
LEMMA LevelAgree ==
    ASSUME NEW fr, NEW gr, NEW n \in Nat, \A i \in 1 .. n : Opens(fr[i]) <=> Opens(gr[i])
    PROVE  Level(fr, n) = Level(gr, n)
<1>1. {i \in 1 .. n : Opens(fr[i])} = {i \in 1 .. n : Opens(gr[i])}
  OBVIOUS
<1>2. QED
  BY <1>1 DEF Level

\* Levels grow, and grow past a frame that opens one.
LEMMA LevelGrows ==
    ASSUME NEW fr, NEW m \in Nat, NEW n \in Nat, m <= n
    PROVE  Level(fr, m) <= Level(fr, n)
<1>1. {i \in 1 .. m : Opens(fr[i])} \subseteq {i \in 1 .. n : Opens(fr[i])}
  OBVIOUS
<1>2. /\ IsFiniteSet({i \in 1 .. n : Opens(fr[i])})
      /\ Level(fr, m) \in Nat /\ Level(fr, n) \in Nat
  BY LevelType
<1>3. Cardinality({i \in 1 .. m : Opens(fr[i])}) <= Cardinality({i \in 1 .. n : Opens(fr[i])})
  BY <1>1, <1>2, FS_Subset
<1>4. IsFiniteSet({i \in 1 .. m : Opens(fr[i])})
  BY LevelType
<1>5. QED
  BY <1>2, <1>3, <1>4, FS_CardinalityType DEF Level

LEMMA LevelGrowsPast ==
    ASSUME NEW fr, NEW m \in Nat \ {0}, NEW n \in Nat, m <= n, Opens(fr[m])
    PROVE  Level(fr, m - 1) + 1 <= Level(fr, n)
<1>1. Level(fr, m) = Level(fr, m - 1) + 1
  BY LevelNext
<1>2. QED
  BY <1>1, LevelGrows

-----------------------------------------------------------------------------
(* The call stack: the app's transactional, and on it responses and their  *)
(* submessages, a reply on the response it belongs to.                     *)

\* A transaction with messages has a sender.
Signed(frame) ==
    /\ frame.begun \in 0 .. Len(frame.msgs)
    /\ frame.sender \in Accounts \/ frame.msgs = <<>>

Stacked(fr) ==
    \A n \in DOMAIN fr :
      /\ fr[n].kind = "app" <=> n = 1
      /\ fr[n].kind = "app" => Signed(fr[n])
      /\ fr[n].kind = "submsg" =>
           fr[n-1].kind = "response" /\ fr[n-1].contract = fr[n].contract
      /\ fr[n].kind = "response" =>
           /\ fr[n].data \in {Nothing, fr[n].contract}
           /\ fr[n-1].kind = "response" => fr[n-1].contract = fr[n].contract

\* The parts of a frame have their types.
LEMMA FrameParts ==
    ASSUME NEW f \in FrameType
    PROVE  /\ f.kind \in {"app", "submsg", "response"}
           /\ f.kind = "app" => /\ f.sender \in Accounts \cup {Nothing}
                                /\ f.msgs \in Seq(CosmosMsg) /\ f.begun \in Nat
           /\ f.kind = "submsg" => f.contract \in Contracts /\ f.reply_on \in ReplyOns
           /\ f.kind = "response" => /\ f.contract \in Contracts
                                     /\ f.data \in Contracts \cup {Nothing}
                                     /\ f.entry \in Entries /\ f.msgs \in Seq(SubMsg)
BY DEF FrameType, Entries

\* A frame is pushed.
LEMMA PushedFrames ==
    ASSUME NEW fr \in Seq(FrameType), NEW f \in FrameType
    PROVE  LET gr == Append(fr, f)
           IN  /\ Len(fr) \in Nat /\ gr \in Seq(FrameType) /\ gr # <<>>
               /\ Len(gr) = Len(fr) + 1 /\ gr[Len(gr)] = f
               /\ \A n \in 1 .. Len(fr) : gr[n] = fr[n]
               /\ Level(gr, Len(gr)) = Level(fr, Len(fr)) + IF Opens(f) THEN 1 ELSE 0
<1> DEFINE gr == Append(fr, f)
<1>1. /\ Len(fr) \in Nat /\ gr \in Seq(FrameType) /\ gr # <<>>
      /\ Len(gr) = Len(fr) + 1 /\ gr[Len(gr)] = f
      /\ \A n \in 1 .. Len(fr) : gr[n] = fr[n]
  OBVIOUS
<1> DEFINE k == Len(fr)
<1>2. /\ k \in Nat /\ k + 1 \in Nat \ {0} /\ (k + 1) - 1 = k
      /\ gr[k + 1] = f /\ \A i \in 1 .. k : Opens(gr[i]) <=> Opens(fr[i])
  BY <1>1
<1> HIDE DEF k
<1>3. Level(gr, k) = Level(fr, k)
  BY <1>2, LevelAgree
<1>4. Level(gr, k + 1) = Level(gr, (k + 1) - 1) + IF Opens(gr[k + 1]) THEN 1 ELSE 0
  BY <1>2, LevelNext
<1>5. Level(gr, k + 1) = Level(fr, k) + IF Opens(f) THEN 1 ELSE 0
  BY <1>2, <1>3, <1>4
<1>6. QED
  BY <1>1, <1>5 DEF k

LEMMA PushedStack ==
    ASSUME NEW fr \in Seq(FrameType), Stacked(fr), NEW f \in FrameType,
           f.kind = "app" <=> fr = <<>>,
           f.kind = "app" => Signed(f),
           f.kind = "submsg" =>
             fr[Len(fr)].kind = "response" /\ fr[Len(fr)].contract = f.contract,
           f.kind = "response" =>
             /\ f.data \in {Nothing, f.contract}
             /\ fr[Len(fr)].kind = "response" => fr[Len(fr)].contract = f.contract
    PROVE  Stacked(Append(fr, f))
<1> DEFINE gr == Append(fr, f)
<1>1. /\ Len(fr) \in Nat /\ Len(gr) = Len(fr) + 1 /\ gr[Len(fr) + 1] = f
      /\ DOMAIN gr = 1 .. Len(fr) + 1 /\ DOMAIN fr = 1 .. Len(fr)
      /\ \A n \in 1 .. Len(fr) : gr[n] = fr[n]
  OBVIOUS
<1> HIDE DEF gr
<1>2. SUFFICES ASSUME NEW n \in 1 .. Len(fr) + 1
      PROVE  /\ gr[n].kind = "app" <=> n = 1
             /\ gr[n].kind = "app" => Signed(gr[n])
             /\ gr[n].kind = "submsg" =>
                  gr[n-1].kind = "response" /\ gr[n-1].contract = gr[n].contract
             /\ gr[n].kind = "response" =>
                  /\ gr[n].data \in {Nothing, gr[n].contract}
                  /\ gr[n-1].kind = "response" => gr[n-1].contract = gr[n].contract
  BY <1>1 DEF Stacked, gr
<1>3. CASE n = Len(fr) + 1
  <2>1. gr[n] = f /\ (n = 1 <=> fr = <<>>) /\ (n # 1 => gr[n-1] = fr[Len(fr)])
    BY <1>1, <1>3
  <2>2. CASE n = 1
    BY <2>1, <2>2
  <2>3. CASE n # 1
    BY <2>1, <2>3
  <2>4. QED
    BY <2>2, <2>3
<1>4. CASE n \in 1 .. Len(fr)
  <2>1. gr[n] = fr[n] /\ (n # 1 => gr[n-1] = fr[n-1])
    BY <1>1, <1>4
  <2>2. CASE n = 1
    BY <1>1, <1>4, <2>1, <2>2 DEF Stacked
  <2>3. CASE n # 1
    BY <1>1, <1>4, <2>1, <2>3 DEF Stacked
  <2>4. QED
    BY <2>2, <2>3
<1>5. QED
  BY <1>1, <1>3, <1>4

\* The innermost frame is popped.
LEMMA PoppedFrames ==
    ASSUME frames \in Seq(FrameType), frames # <<>>
    PROVE  /\ Len(frames) \in Nat \ {0} /\ Frame \in FrameType
           /\ Below \in Seq(FrameType) /\ Len(Below) = Len(frames) - 1
           /\ \A n \in 1 .. Len(frames) - 1 : Below[n] = frames[n]
           /\ Level(frames, Len(frames))
                = Level(Below, Len(Below)) + IF Opens(Frame) THEN 1 ELSE 0
           /\ Stacked(frames) => Stacked(Below)
<1>1. /\ Len(frames) \in Nat \ {0} /\ Frame \in FrameType
      /\ Below \in Seq(FrameType) /\ Len(Below) = Len(frames) - 1
      /\ \A n \in 1 .. Len(frames) - 1 : Below[n] = frames[n]
  BY BelowFrames
<1>2. Level(frames, Len(frames) - 1) = Level(Below, Len(Below))
  BY <1>1, LevelAgree
<1>3. Level(frames, Len(frames))
        = Level(frames, Len(frames) - 1) + IF Opens(Frame) THEN 1 ELSE 0
  BY <1>1, LevelNext DEF Frame
<1>4. ASSUME Stacked(frames) PROVE Stacked(Below)
  <2>1. DOMAIN Below = 1 .. Len(frames) - 1 /\ DOMAIN frames = 1 .. Len(frames)
    BY <1>1
  <2>2. SUFFICES ASSUME NEW n \in 1 .. Len(frames) - 1
        PROVE  /\ Below[n].kind = "app" <=> n = 1
               /\ Below[n].kind = "app" => Signed(Below[n])
               /\ Below[n].kind = "submsg" =>
                    Below[n-1].kind = "response" /\ Below[n-1].contract = Below[n].contract
               /\ Below[n].kind = "response" =>
                    /\ Below[n].data \in {Nothing, Below[n].contract}
                    /\ Below[n-1].kind = "response" => Below[n-1].contract = Below[n].contract
    BY <2>1 DEF Stacked
  <2>3. Below[n] = frames[n] /\ (n # 1 => Below[n-1] = frames[n-1]) /\ n \in DOMAIN frames
    BY <1>1, <2>1
  <2>4. CASE n = 1
    BY <1>4, <2>3, <2>4 DEF Stacked
  <2>5. CASE n # 1
    BY <1>4, <2>3, <2>5 DEF Stacked
  <2>6. QED
    BY <2>4, <2>5
<1>5. QED
  BY <1>1, <1>2, <1>3, <1>4

\* The innermost frame is changed into one of its kind.
LEMMA ChangedFrames ==
    ASSUME frames \in Seq(FrameType), frames # <<>>, NEW f \in FrameType,
           f.kind = Frame.kind, NEW gr, gr = [frames EXCEPT ![Len(frames)] = f]
    PROVE  /\ Len(frames) \in Nat \ {0} /\ gr \in Seq(FrameType) /\ gr # <<>>
           /\ Len(gr) = Len(frames) /\ gr[Len(gr)] = f
           /\ \A n \in 1 .. Len(frames) - 1 : gr[n] = frames[n]
           /\ Level(gr, Len(gr)) = Level(frames, Len(frames))
<1>1. /\ Len(frames) \in Nat \ {0} /\ gr \in Seq(FrameType) /\ gr # <<>>
      /\ Len(gr) = Len(frames) /\ gr[Len(gr)] = f
      /\ \A n \in 1 .. Len(frames) - 1 : gr[n] = frames[n]
  OBVIOUS
<1>2. Opens(f) <=> Opens(Frame)
  BY DEF Opens
<1> DEFINE k == Len(frames)
<1>3. /\ k \in Nat \ {0} /\ Len(gr) = k /\ gr[k] = f /\ Frame = frames[k]
      /\ \A n \in 1 .. k - 1 : gr[n] = frames[n]
  BY <1>1 DEF Frame
<1> HIDE DEF k
<1>4. ASSUME NEW n \in 1 .. k
      PROVE  Opens(gr[n]) <=> Opens(frames[n])
  <2>1. n = k \/ n \in 1 .. k - 1
    BY <1>3
  <2>2. QED
    BY <1>2, <1>3, <2>1
<1>5. k \in Nat /\ \A i \in 1 .. k : Opens(gr[i]) <=> Opens(frames[i])
  BY <1>3, <1>4
<1>6. Level(gr, k) = Level(frames, k)
  BY ONLY <1>5, LevelAgree
<1>7. QED
  BY <1>1, <1>3, <1>6 DEF k

LEMMA ChangedStack ==
    ASSUME frames \in Seq(FrameType), frames # <<>>, Stacked(frames), NEW f \in FrameType,
           f.kind = Frame.kind, NEW gr, gr = [frames EXCEPT ![Len(frames)] = f],
           f.kind = "app" => Signed(f),
           f.kind # "app" => f.contract = Frame.contract,
           f.kind = "response" => f.data \in {Nothing, f.contract}
    PROVE  Stacked(gr)
<1> DEFINE k == Len(frames)
<1>1. /\ k \in Nat \ {0} /\ gr[k] = f /\ Frame = frames[k]
      /\ DOMAIN gr = 1 .. k /\ DOMAIN frames = 1 .. k
      /\ \A n \in 1 .. k - 1 : gr[n] = frames[n]
  BY DEF Frame
<1> HIDE DEF k
<1>2. SUFFICES ASSUME NEW n \in 1 .. k
      PROVE  /\ gr[n].kind = "app" <=> n = 1
             /\ gr[n].kind = "app" => Signed(gr[n])
             /\ gr[n].kind = "submsg" =>
                  gr[n-1].kind = "response" /\ gr[n-1].contract = gr[n].contract
             /\ gr[n].kind = "response" =>
                  /\ gr[n].data \in {Nothing, gr[n].contract}
                  /\ gr[n-1].kind = "response" => gr[n-1].contract = gr[n].contract
  BY <1>1 DEF Stacked
<1>3. n # 1 => gr[n-1] = frames[n-1]
  BY <1>1
<1>4. gr[n].kind = frames[n].kind
      /\ (gr[n].kind # "app" => gr[n].contract = frames[n].contract)
      /\ (gr[n].kind = "app" => Signed(gr[n]))
      /\ (gr[n].kind = "response" => gr[n].data \in {Nothing, gr[n].contract})
  <2>1. CASE n = k
    BY <1>1, <2>1
  <2>2. CASE n \in 1 .. k - 1
    BY <1>1, <2>2 DEF Stacked
  <2>3. QED
    BY <1>1, <2>1, <2>2
<1>5. /\ frames[n].kind = "app" <=> n = 1
      /\ frames[n].kind = "submsg" =>
           frames[n-1].kind = "response" /\ frames[n-1].contract = frames[n].contract
      /\ frames[n].kind = "response" =>
           (frames[n-1].kind = "response" => frames[n-1].contract = frames[n].contract)
  BY <1>1 DEF Stacked
<1>6. CASE n = 1
  BY <1>4, <1>5, <1>6
<1>7. CASE n # 1
  BY <1>3, <1>4, <1>5, <1>7
<1>8. QED
  BY <1>6, <1>7

-----------------------------------------------------------------------------
(* The invariant of the calls.                                             *)

\* What happens next is the innermost frame's: a message it sent, its reply, its result.
WaitsOn(fr, c) ==
    LET top == fr[Len(fr)]
    IN  /\ c = Idle <=> fr = <<>>
        /\ c.step = "execute" =>
             \/ /\ top.kind = "app" /\ top.begun # 0
                /\ c.sender = top.sender /\ c.msg = top.msgs[top.begun]
             \/ top.kind = "submsg" /\ c.sender = top.contract
        /\ c.step = "reply" => top.kind = "response" /\ c.contract = top.contract
        /\ c.step = "sudo" => top.kind = "app"
        /\ c.step = "proceed" => top.kind \in {"app", "response"}
        /\ c.step = "returned" /\ top.kind = "response" => c.data \in {Nothing, top.contract}

CallStack ==
    /\ stores \in Seq(GoodStore) /\ frames \in Seq(FrameType) /\ control \in ControlType
    /\ Top = Level(frames, Len(frames))
    /\ submessages \in 0 .. MaxSubmessages /\ transactions \in 0 .. MaxTransactions
    /\ Stacked(frames) /\ WaitsOn(frames, control)

\* The storages that exist, and the innermost frame, are what they should be.
LEMMA CallStackFacts ==
    ASSUME CallStack
    PROVE  /\ Top \in Nat \ {0} /\ Base \in GoodStore
           /\ Store \in GoodStore /\ Store \in CoreStore
           /\ frames = <<>> => Top = 1
           /\ frames # <<>> => /\ Frame \in FrameType /\ Len(frames) \in Nat \ {0}
                               /\ Frame.kind = "app" <=> Len(frames) = 1
                               /\ Top >= 2
           /\ control.step # "idle" => frames # <<>>
<1>1. /\ Len(frames) \in Nat /\ stores \in Seq(GoodStore) /\ frames \in Seq(FrameType)
      /\ Stacked(frames) /\ WaitsOn(frames, control) /\ control \in ControlType
      /\ Top = Level(frames, Len(frames))
  BY DEF CallStack
<1>2. Top \in Nat \ {0}
  BY <1>1, LevelType
<1>3. Store \in GoodStore /\ Base \in GoodStore
  BY <1>1, <1>2 DEF Store, Base, Top
<1>4. frames = <<>> => Top = 1
  BY <1>1, LevelZero
<1>5. ASSUME frames # <<>>
      PROVE  /\ Frame \in FrameType /\ Len(frames) \in Nat \ {0}
             /\ Frame.kind = "app" <=> Len(frames) = 1
             /\ Top >= 2
  <2>1. /\ Frame \in FrameType /\ Len(frames) \in Nat \ {0} /\ DOMAIN frames = 1 .. Len(frames)
    BY <1>1, <1>5, BelowFrames
  <2>2. Frame.kind = "app" <=> Len(frames) = 1
    BY <1>1, <2>1 DEF Stacked, Frame
  <2>3. frames[1].kind = "app"
    BY <1>1, <2>1 DEF Stacked
  <2>4. Opens(frames[1])
    BY <2>3 DEF Opens
  <2> DEFINE k == Len(frames)
  <2>5. k \in Nat /\ 1 <= k
    BY <2>1
  <2> HIDE DEF k
  <2>6. Level(frames, 1 - 1) + 1 <= Level(frames, k)
    BY <2>4, <2>5, LevelGrowsPast
  <2>7. Level(frames, 1 - 1) = 1
    BY LevelZero
  <2>8. QED
    BY <1>1, <1>2, <2>1, <2>2, <2>6, <2>7 DEF k
<1>6. control.step # "idle" => frames # <<>>
  BY <1>1 DEF WaitsOn, Idle
<1>7. QED
  BY <1>2, <1>3, <1>4, <1>5, <1>6 DEF GoodStore

\* The parts of what happens next have their types.
LEMMA ControlParts ==
    ASSUME NEW c \in ControlType
    PROVE  /\ c.step = "execute" => c.sender \in Accounts /\ c.msg \in CosmosMsg
           /\ c.step = "reply" => c.contract \in Contracts /\ c.ok \in BOOLEAN
           /\ c.step = "sudo" => c.contract \in Contracts
           /\ c.step = "returned" => c.data \in Contracts \cup {Nothing}
           /\ c.step = "idle" <=> c = Idle
BY DEF ControlType, Idle, Proceed, Failed

\* What may happen next, by the frame it happens to.
LEMMA ControlCases ==
    /\ Proceed \in ControlType /\ Failed \in ControlType /\ Idle \in ControlType
    /\ \A data \in Contracts \cup {Nothing} : Returned(data) \in ControlType
    /\ \A contract \in Contracts, ok \in BOOLEAN : Replying(contract, ok) \in ControlType
    /\ \A from \in Accounts, m \in CosmosMsg : Executing(from, m) \in ControlType
BY DEF ControlType, Idle, Proceed, Failed, Returned, Replying, Executing

LEMMA WaitsCases ==
    ASSUME NEW fr, fr # <<>>
    PROVE  LET top == fr[Len(fr)]
           IN  /\ WaitsOn(fr, Failed)
               /\ top.kind \in {"app", "response"} => WaitsOn(fr, Proceed)
               /\ \A data : (top.kind = "response" => data \in {Nothing, top.contract})
                              => WaitsOn(fr, Returned(data))
               /\ \A ok : top.kind = "response" => WaitsOn(fr, Replying(top.contract, ok))
               /\ top.kind = "submsg" => \A m : WaitsOn(fr, Executing(top.contract, m))
               /\ top.kind = "app" /\ top.begun # 0
                    => WaitsOn(fr, Executing(top.sender, top.msgs[top.begun]))
               /\ \A contract : top.kind = "app"
                    => WaitsOn(fr, [step |-> "sudo", contract |-> contract])
BY DEF WaitsOn, Idle, Proceed, Failed, Returned, Replying, Executing

\* Every effect of a call or a message keeps the invariant.
LEMMA EffectStep ==
    ASSUME CallStack, frames # <<>>, NEW from \in Accounts, NEW outlay,
           NEW contracts \in SUBSET Contracts, NEW answered,
           Frame.kind = "response" => contracts \subseteq {Frame.contract},
           Effect(Store, from, outlay, contracts, answered), UNCHANGED transactions
    PROVE  CallStack'
<1>1. PICK new :
        /\ stores' = Written(new)
        /\ StoreStep(Store, new, from, outlay)
        /\ \/ Fails(Store, new)
           \/ Finishes(Store, new, answered)
           \/ Responds(Store, new, contracts, answered)
  BY DEF Effect
<1>2. /\ stores \in Seq(GoodStore) /\ frames \in Seq(FrameType) /\ Stacked(frames)
      /\ Top = Level(frames, Len(frames)) /\ Top \in Nat \ {0} /\ Store \in GoodStore
      /\ submessages \in 0 .. MaxSubmessages /\ transactions' \in 0 .. MaxTransactions
      /\ Frame \in FrameType /\ Frame.kind = "app" <=> Len(frames) = 1
  BY CallStackFacts DEF CallStack
<1>3. new \in GoodStore
  BY <1>1, <1>2, GoodStep
<1>4. stores' \in Seq(GoodStore) /\ Top' = Top
  BY <1>1, <1>2, <1>3, WrittenStores DEF Top
<1>5. CASE /\ UNCHANGED <<frames, submessages>>
           /\ control' \in {Failed, Returned(Nothing)}
  <2>1. control' \in ControlType
    BY <1>5, ControlCases
  <2>2. WaitsOn(frames, control')
    BY <1>5, WaitsCases
  <2>3. QED
    BY <1>2, <1>4, <1>5, <2>1, <2>2 DEF CallStack
<1>6. CASE Responds(Store, new, contracts, answered)
  <2>1. PICK contract \in contracts, entry \in Entries, msgs \in Seq(SubMsg) :
          \E data \in {Nothing, contract} :
            /\ frames' = Append(frames, ResponseFrame(contract, entry, data, msgs))
            /\ control' = Proceed
            /\ Len(msgs) <= submessages
            /\ submessages' = submessages - Len(msgs)
    BY <1>6 DEF Responds
  <2>2. PICK data \in {Nothing, contract} :
            /\ frames' = Append(frames, ResponseFrame(contract, entry, data, msgs))
            /\ control' = Proceed
            /\ Len(msgs) <= submessages
            /\ submessages' = submessages - Len(msgs)
    BY <2>1
  <2> DEFINE f == ResponseFrame(contract, entry, data, msgs)
  <2>3. /\ f \in FrameType /\ f.kind = "response" /\ f.contract = contract /\ f.data = data
        /\ ~Opens(f)
    BY DEF FrameType, ResponseFrame, Entries, Opens
  <2>4. frames' = Append(frames, f)
    BY <2>2
  <2> HIDE DEF f
  <2>5. /\ frames' \in Seq(FrameType) /\ frames' # <<>> /\ frames'[Len(frames')] = f
        /\ Level(frames', Len(frames')) = Level(frames, Len(frames))
    <3> DEFINE gr == frames'
    <3>1. gr = Append(frames, f)
      BY <2>4
    <3> HIDE DEF gr
    <3>2. /\ gr \in Seq(FrameType) /\ gr # <<>> /\ gr[Len(gr)] = f
          /\ Level(gr, Len(gr)) = Level(frames, Len(frames)) + IF Opens(f) THEN 1 ELSE 0
      BY <1>2, <2>3, <3>1, PushedFrames
    <3>3. Level(frames, Len(frames)) \in Nat
      BY <1>2
    <3>4. Level(gr, Len(gr)) = Level(frames, Len(frames))
      BY <2>3, <3>2, <3>3
    <3>5. QED
      BY <3>2, <3>4 DEF gr
  <2>6. Stacked(frames')
    BY <1>2, <2>3, <2>4, PushedStack DEF Frame
  <2>7. WaitsOn(frames', Proceed)
    BY <2>3, <2>5, WaitsCases
  <2>8. submessages' \in 0 .. MaxSubmessages
    BY <1>2, <2>2, RouterAssumption
  <2>9. QED
    BY <1>2, <1>4, <2>2, <2>5, <2>6, <2>7, <2>8, ControlCases DEF CallStack
<1>7. QED
  BY <1>1, <1>5, <1>6 DEF Fails, Finishes

-----------------------------------------------------------------------------
(* The other steps keep it too.                                            *)

\* A transaction begins in a copy of the app's storage.
LEMMA StartStep ==
    ASSUME CallStack, NEW from \in Accounts \cup {Nothing}, NEW msgs \in Seq(CosmosMsg),
           NEW step \in ControlType,
           from \in Accounts \/ msgs = <<>>, step.step \in {"proceed", "sudo"},
           StartWith(AppFrame(from, msgs), step)
    PROVE  CallStack'
<1> DEFINE f == AppFrame(from, msgs)
<1>1. /\ f \in FrameType /\ f.kind = "app" /\ f.begun = 0 /\ f.msgs = msgs
      /\ Len(msgs) \in Nat /\ Signed(f)
  BY DEF AppFrame, FrameType, Signed
<1>2. /\ control = Idle /\ transactions > 0 /\ stores' = Append(stores, Base)
      /\ frames' = <<f>> /\ control' = step
      /\ submessages' = MaxSubmessages /\ transactions' = transactions - 1
  BY DEF StartWith
<1> HIDE DEF f
<1>3. /\ stores \in Seq(GoodStore) /\ Base \in GoodStore
      /\ frames = <<>> /\ Top = 1 /\ transactions \in 0 .. MaxTransactions
  BY <1>2, CallStackFacts DEF CallStack, WaitsOn
<1>4. stores' \in Seq(GoodStore) /\ Top' = 2
  BY <1>2, <1>3, OpenedStores DEF Top
<1>5. Opens(f)
  BY <1>1 DEF Opens
<1>6. Level(frames', Len(frames')) = 2
  <2> DEFINE gr == frames'
  <2>1. Len(gr) = 1 /\ gr[1] = f
    BY <1>2
  <2> HIDE DEF gr
  <2>2. Level(gr, 1) = Level(gr, 1 - 1) + IF Opens(gr[1]) THEN 1 ELSE 0
    BY LevelNext
  <2>3. Level(gr, 1 - 1) = 1
    BY LevelZero
  <2>4. QED
    BY <1>5, <2>1, <2>2, <2>3 DEF gr
<1>7. frames' \in Seq(FrameType) /\ Stacked(frames')
  BY <1>1, <1>2 DEF Stacked
<1>8. WaitsOn(frames', control')
  BY <1>1, <1>2, ControlParts DEF WaitsOn
<1>9. submessages' \in 0 .. MaxSubmessages /\ transactions' \in 0 .. MaxTransactions
  BY <1>2, <1>3, RouterAssumption
<1>10. QED
  BY <1>2, <1>4, <1>6, <1>7, <1>8, <1>9 DEF CallStack

\* Minting adds what it counts.
LEMMA MintedStore ==
    ASSUME NEW store \in GoodStore, NEW to \in Accounts, NEW amount \in Nat
    PROVE  [store EXCEPT !.balances = mint(@, to, amount),
                         !.history.issued = @ + amount] \in GoodStore
<1> DEFINE balances == store.balances
           minted == mint(balances, to, amount)
           more == balances[to] + amount
           issued == store.history.issued + amount
           counted == [store.history EXCEPT !.issued = issued]
           new == [store EXCEPT !.balances = minted, !.history = counted]
<1>1. /\ store \in CoreStore /\ balances \in [Accounts -> Nat]
      /\ balances \in [Accounts -> Int] /\ store.history \in Numbers
      /\ store.history.issued \in Int /\ Numbered(store)
      /\ SumFunction(balances) = store.history.issued
  BY DEF GoodStore, CoreStore, Numbers, Conserved
<1>2. more \in Nat /\ issued \in Int /\ balances[to] \in Int
  BY <1>1
<1>3. minted = [balances EXCEPT ![to] = more]
  BY DEF mint
<1>4. new = [store EXCEPT !.balances = mint(@, to, amount), !.history.issued = @ + amount]
  BY <1>1 DEF CoreStore
<1> HIDE DEF balances, minted, more, issued
<1>5. /\ minted \in [Accounts -> Nat] /\ minted \in [Accounts -> Int] /\ minted[to] = more
      /\ \A a \in Accounts \ {to} : minted[a] = balances[a]
  BY <1>1, <1>2, <1>3
<1>6. SumFunction(minted) = SumFunction(balances) - balances[to] + minted[to]
  BY <1>1, <1>5, FiniteAccounts, SumDiffers
<1>7. SumFunction(minted) = issued
  BY <1>1, <1>2, <1>5, <1>6 DEF more, issued
<1>8. /\ counted \in Numbers /\ counted.issued = issued
      /\ counted.instances = store.history.instances
  BY <1>1, <1>2 DEF Numbers
<1> HIDE DEF counted
<1>9. /\ new \in CoreStore /\ new.contracts = store.contracts /\ new.balances = minted
      /\ new.contract_data = store.contract_data /\ new.history = counted
  BY <1>1, <1>5, <1>8 DEF CoreStore
<1> HIDE DEF new
<1>10. Numbered(new)
  BY <1>1, <1>8, <1>9 DEF Numbered, Registered, IsContract
<1>11. Conserved(new)
  BY <1>7, <1>8, <1>9 DEF Conserved
<1>12. QED
  BY <1>4, <1>9, <1>10, <1>11 DEF GoodStore, new

LEMMA MintStep ==
    ASSUME CallStack, bank_sudo
    PROVE  CallStack'
<1>1. PICK to \in Accounts, amount \in Mints \ {0} :
        stores' = Written([Store EXCEPT !.balances = mint(@, to, amount),
                                        !.history.issued = @ + amount])
  BY DEF bank_sudo
<1> DEFINE new == [Store EXCEPT !.balances = mint(@, to, amount),
                                !.history.issued = @ + amount]
<1>2. amount \in Nat
  BY <1>1, RouterAssumption
<1>3. /\ stores \in Seq(GoodStore) /\ Top \in Nat \ {0} /\ Store \in GoodStore
      /\ transactions \in 0 .. MaxTransactions
  BY CallStackFacts DEF CallStack
<1>4. new \in GoodStore
  BY <1>2, <1>3, MintedStore
<1> HIDE DEF new
<1>5. stores' \in Seq(GoodStore) /\ Top' = Top
  BY <1>1, <1>3, <1>4, WrittenStores DEF Top, new
<1>6. /\ UNCHANGED <<frames, control, submessages>>
      /\ transactions' \in 0 .. MaxTransactions
  BY <1>3, RouterAssumption DEF bank_sudo
<1>7. QED
  BY <1>5, <1>6 DEF CallStack

\* A submessage begins in a copy of the storage of its contract's call.
LEMMA SubmsgStep ==
    ASSUME CallStack, execute_submsg
    PROVE  CallStack'
<1>1. /\ control = Proceed /\ frames # <<>> /\ Frame.kind = "response" /\ Frame.msgs # <<>>
      /\ stores' = Append(stores, Store)
      /\ frames' = Append([frames EXCEPT ![Len(frames)].msgs = Tail(@)],
                          SubmsgFrame(Frame.contract, Head(Frame.msgs).reply_on))
      /\ control' = Executing(Frame.contract, Head(Frame.msgs).msg)
      /\ UNCHANGED <<submessages, transactions>>
  BY DEF execute_submsg, AtFrame, SubmsgSender
<1>2. /\ stores \in Seq(GoodStore) /\ Top \in Nat \ {0} /\ Store \in GoodStore
      /\ frames \in Seq(FrameType) /\ Stacked(frames) /\ Frame \in FrameType
      /\ Top = Level(frames, Len(frames)) /\ Frame = frames[Len(frames)]
  BY <1>1, CallStackFacts DEF CallStack, Frame
<1>3. /\ Frame.contract \in Contracts /\ Frame.msgs \in Seq(SubMsg)
  BY <1>1, <1>2, FrameParts
<1>4. Head(Frame.msgs) \in SubMsg /\ Tail(Frame.msgs) \in Seq(SubMsg)
  BY <1>1, <1>3
<1>5. /\ Head(Frame.msgs).msg \in CosmosMsg /\ Head(Frame.msgs).reply_on \in ReplyOns
  BY <1>4 DEF SubMsg
<1> DEFINE rest == [Frame EXCEPT !.msgs = Tail(Frame.msgs)]
           fr == [frames EXCEPT ![Len(frames)] = rest]
           g == SubmsgFrame(Frame.contract, Head(Frame.msgs).reply_on)
<1>6. /\ rest \in FrameType /\ rest.kind = "response" /\ rest.contract = Frame.contract
      /\ rest.data = Frame.data
  BY <1>1, <1>2, <1>4 DEF FrameType
<1>7. g \in FrameType /\ g.kind = "submsg" /\ g.contract = Frame.contract /\ Opens(g)
  BY <1>3, <1>5 DEF SubmsgFrame, FrameType, Opens
<1>8. frames' = Append(fr, g)
  BY <1>1, <1>2
<1> HIDE DEF rest, g
<1>9. Frame.data \in {Nothing, Frame.contract}
  BY <1>1, <1>2, BelowFrames DEF Stacked
<1>10. /\ fr \in Seq(FrameType) /\ fr # <<>> /\ Len(fr) = Len(frames) /\ fr[Len(fr)] = rest
       /\ Level(fr, Len(fr)) = Level(frames, Len(frames))
  BY <1>1, <1>2, <1>6, ChangedFrames
<1>11. Stacked(fr)
  BY <1>1, <1>2, <1>6, <1>9, ChangedStack
<1> HIDE DEF fr
<1>12. /\ frames' \in Seq(FrameType) /\ frames' # <<>> /\ frames'[Len(frames')] = g
       /\ Level(frames', Len(frames')) = Top + 1
  <2> DEFINE gr == frames'
  <2>1. gr = Append(fr, g)
    BY <1>8
  <2> HIDE DEF gr
  <2>2. /\ gr \in Seq(FrameType) /\ gr # <<>> /\ gr[Len(gr)] = g
        /\ Level(gr, Len(gr)) = Level(fr, Len(fr)) + IF Opens(g) THEN 1 ELSE 0
    BY <1>7, <1>10, <2>1, PushedFrames
  <2>3. Level(gr, Len(gr)) = Top + 1
    BY <1>2, <1>7, <1>10, <2>2
  <2>4. QED
    BY <2>2, <2>3 DEF gr
<1>13. Stacked(frames')
  BY <1>6, <1>7, <1>8, <1>10, <1>11, PushedStack
<1>14. stores' \in Seq(GoodStore) /\ Top' = Top + 1
  BY <1>1, <1>2, OpenedStores DEF Top
<1>15. WaitsOn(frames', control')
  BY <1>1, <1>7, <1>12, WaitsCases
<1>16. control' \in ControlType
  BY <1>1, <1>3, <1>5, ControlCases DEF Accounts
<1>17. QED
  BY <1>1, <1>12, <1>13, <1>14, <1>15, <1>16 DEF CallStack

\* What an innermost frame rests on.
LEMMA UnderTop ==
    ASSUME CallStack, frames # <<>>, Frame.kind # "app"
    PROVE  /\ Below \in Seq(FrameType) /\ Below # <<>> /\ Stacked(Below)
           /\ Len(frames) - 1 \in Nat \ {0} /\ Len(Below) = Len(frames) - 1
           /\ Below[Len(Below)] = frames[Len(frames) - 1]
           /\ Level(Below, Len(Below)) = Top - IF Opens(Frame) THEN 1 ELSE 0
           /\ Frame.kind = "submsg" => /\ Below[Len(Below)].kind = "response"
                                       /\ Below[Len(Below)].contract = Frame.contract
           /\ Frame.kind = "response" /\ Below[Len(Below)].kind = "response" =>
                Below[Len(Below)].contract = Frame.contract
<1>1. /\ frames \in Seq(FrameType) /\ Stacked(frames) /\ Top = Level(frames, Len(frames))
      /\ Len(frames) # 1 /\ Top \in Nat
  BY CallStackFacts DEF CallStack
<1>2. /\ Len(frames) \in Nat \ {0} /\ Frame \in FrameType
      /\ Below \in Seq(FrameType) /\ Len(Below) = Len(frames) - 1
      /\ \A n \in 1 .. Len(frames) - 1 : Below[n] = frames[n]
      /\ Level(frames, Len(frames))
           = Level(Below, Len(Below)) + IF Opens(Frame) THEN 1 ELSE 0
      /\ Stacked(Below)
  BY <1>1, PoppedFrames
<1> DEFINE k == Len(frames)
<1>3. /\ k - 1 \in Nat \ {0} /\ Below # <<>> /\ Below[k - 1] = frames[k - 1]
      /\ k \in DOMAIN frames /\ k # 1 /\ Frame = frames[k] /\ Len(Below) = k - 1
  BY <1>1, <1>2 DEF Frame
<1>4. Level(Below, Len(Below)) \in Nat
  BY <1>2, <1>3, LevelType
<1>5. Level(Below, Len(Below)) = Top - IF Opens(Frame) THEN 1 ELSE 0
  BY <1>1, <1>2, <1>4
<1> HIDE DEF k
<1>6. /\ Frame.kind = "submsg" =>
           frames[k - 1].kind = "response" /\ frames[k - 1].contract = Frame.contract
      /\ Frame.kind = "response" /\ frames[k - 1].kind = "response" =>
           frames[k - 1].contract = Frame.contract
  BY <1>1, <1>3 DEF Stacked
<1>7. QED
  BY <1>2, <1>3, <1>5, <1>6 DEF k

LEMMA SettledStore ==
    ASSUME NEW store \in GoodStore
    PROVE  /\ Settled(store) \in GoodStore
           /\ Settled(store).balances = store.balances
           /\ Settled(store).contracts = store.contracts
           /\ Settled(store).history.owed = store.history.owed - 1
<1> DEFINE owed == store.history.owed - 1
           counted == [store.history EXCEPT !.owed = owed]
           new == [store EXCEPT !.history = counted]
<1>1. /\ store \in CoreStore /\ store.history \in Numbers /\ store.history.owed \in Int
      /\ Numbered(store) /\ Conserved(store)
  BY DEF GoodStore, CoreStore, Numbers
<1>2. owed \in Int /\ Settled(store) = new
  BY <1>1 DEF Settled, CoreStore
<1> HIDE DEF owed
<1>3. /\ counted \in Numbers /\ counted.issued = store.history.issued
      /\ counted.instances = store.history.instances /\ counted.owed = owed
  BY <1>1, <1>2 DEF Numbers
<1> HIDE DEF counted
<1>4. /\ new \in CoreStore /\ new.contracts = store.contracts /\ new.balances = store.balances
      /\ new.contract_data = store.contract_data /\ new.history = counted
  BY <1>1, <1>3 DEF CoreStore
<1> HIDE DEF new
<1>5. Numbered(new) /\ Conserved(new)
  BY <1>1, <1>3, <1>4 DEF Numbered, Conserved, Registered, IsContract
<1>6. QED
  BY <1>2, <1>3, <1>4, <1>5 DEF GoodStore, owed

\* A submessage that succeeded is committed, one that failed is dropped.
LEMMA SubmsgEnds ==
    ASSUME CallStack, submsg_succeeded \/ submsg_failed
    PROVE  CallStack'
<1>1. /\ frames # <<>> /\ Frame.kind = "submsg" /\ frames' = Below
      /\ UNCHANGED <<submessages, transactions>>
  BY DEF submsg_succeeded, submsg_failed, AtFrame
<1>2. /\ stores \in Seq(GoodStore) /\ Top \in Nat /\ Top >= 2 /\ Store \in GoodStore
      /\ Frame.contract \in Contracts /\ Opens(Frame)
  BY <1>1, CallStackFacts, FrameParts DEF CallStack, Opens
<1>3. /\ frames' \in Seq(FrameType) /\ frames' # <<>> /\ Stacked(frames')
      /\ Level(frames', Len(frames')) = Top - 1
      /\ frames'[Len(frames')].kind = "response"
      /\ frames'[Len(frames')].contract = Frame.contract
  BY <1>1, <1>2, UnderTop
<1>4. stores' \in {Committed(Store), Committed(Settled(Store)), Dropped}
  BY DEF submsg_succeeded, submsg_failed
<1>5. stores' \in Seq(GoodStore) /\ Top' = Top - 1
  BY <1>2, <1>4, CommittedStores, DroppedStores, SettledStore DEF Top
<1>6. \/ control' = Replying(Frame.contract, TRUE)
      \/ control' = Replying(Frame.contract, FALSE)
      \/ control' = Returned(Nothing)
      \/ control' = Failed
  BY DEF submsg_succeeded, submsg_failed, DataWithoutReply, FailureWithoutReply
<1>7. control' \in ControlType
  BY <1>2, <1>6, ControlCases
<1>8. WaitsOn(frames', control')
  BY <1>3, <1>6, WaitsCases
<1>9. QED
  BY <1>1, <1>3, <1>5, <1>7, <1>8 DEF CallStack

\* A response goes on with the data of a submessage, of its own contract.
LEMMA ContinueStep ==
    ASSUME CallStack, response_continued
    PROVE  CallStack'
<1>1. /\ control.step = "returned" /\ frames # <<>> /\ Frame.kind = "response"
      /\ frames' = [frames EXCEPT ![Len(frames)].data =
                      IF control.data = Nothing THEN @ ELSE control.data]
      /\ control' = Proceed
      /\ UNCHANGED <<stores, submessages, transactions>>
  BY DEF response_continued, AtFrame
<1> DEFINE data == IF control.data = Nothing THEN Frame.data ELSE control.data
           f == [Frame EXCEPT !.data = data]
<1>2. /\ frames \in Seq(FrameType) /\ Stacked(frames) /\ Frame \in FrameType
      /\ Frame.contract \in Contracts /\ Frame = frames[Len(frames)]
      /\ Len(frames) \in DOMAIN frames
  BY <1>1, CallStackFacts, FrameParts DEF CallStack, Frame
<1>3. data \in {Nothing, Frame.contract}
  <2>1. Frame.data \in {Nothing, Frame.contract}
    BY <1>1, <1>2 DEF Stacked
  <2>2. control.data \in {Nothing, Frame.contract}
    BY <1>1, <1>2 DEF CallStack, WaitsOn
  <2>3. QED
    BY <2>1, <2>2
<1>4. frames' = [frames EXCEPT ![Len(frames)] = f]
  BY <1>1, <1>2
<1> HIDE DEF data
<1>5. f \in FrameType /\ f.kind = "response" /\ f.contract = Frame.contract /\ f.data = data
  BY <1>1, <1>2, <1>3 DEF FrameType
<1> HIDE DEF f
<1> DEFINE fr == [frames EXCEPT ![Len(frames)] = f]
<1>6. /\ fr \in Seq(FrameType) /\ fr # <<>> /\ fr[Len(fr)] = f
      /\ Level(fr, Len(fr)) = Level(frames, Len(frames))
  BY <1>1, <1>2, <1>5, ChangedFrames
<1>7. Stacked(fr)
  BY <1>1, <1>2, <1>3, <1>5, ChangedStack
<1> HIDE DEF fr
<1>8. WaitsOn(fr, Proceed)
  BY <1>5, <1>6, WaitsCases
<1>9. frames' = fr
  BY <1>4 DEF fr
<1>10. QED
  BY <1>1, <1>6, <1>7, <1>8, <1>9, ControlCases DEF CallStack, Top

\* A response is over: its caller gets its data, which are of its contract, or its error.
LEMMA ResponseEnds ==
    ASSUME CallStack, response_failed \/ response_done
    PROVE  CallStack'
<1>1. /\ frames # <<>> /\ Frame.kind = "response" /\ frames' = Below
      /\ UNCHANGED <<stores, submessages, transactions>>
  BY DEF response_failed, response_done, AtFrame
<1>2. /\ Frame.contract \in Contracts /\ ~Opens(Frame) /\ Top \in Nat
      /\ frames \in Seq(FrameType) /\ Stacked(frames) /\ Len(frames) \in DOMAIN frames
      /\ Frame = frames[Len(frames)] /\ control \in ControlType
  BY <1>1, CallStackFacts, FrameParts DEF CallStack, Opens, Frame
<1>3. /\ frames' \in Seq(FrameType) /\ frames' # <<>> /\ Stacked(frames')
      /\ Level(frames', Len(frames')) = Top
      /\ frames'[Len(frames')].kind = "response" =>
           frames'[Len(frames')].contract = Frame.contract
  BY <1>1, <1>2, UnderTop
<1>4. Frame.data \in {Nothing, Frame.contract}
  BY <1>1, <1>2 DEF Stacked
<1>5. control' = Failed \/ \E data \in {Nothing, Frame.contract} : control' = Returned(data)
  <2>1. CASE response_failed
    BY <1>2, <2>1 DEF response_failed, ControlType, Idle, Proceed, Failed
  <2>2. CASE response_done
    BY <1>4, <2>2 DEF response_done
  <2>3. QED
    BY <2>1, <2>2
<1>6. control' \in ControlType
  BY <1>2, <1>5, ControlCases
<1>7. WaitsOn(frames', control')
  BY <1>3, <1>5, WaitsCases
<1>8. QED
  BY <1>1, <1>3, <1>6, <1>7 DEF CallStack, Top

\* The next message of the transaction begins.
LEMMA NextMessageStep ==
    ASSUME CallStack, next_message
    PROVE  CallStack'
<1>1. /\ control.step \in {"proceed", "returned"} /\ frames # <<>> /\ Frame.kind = "app"
      /\ Frame.begun < Len(Frame.msgs)
      /\ frames' = [frames EXCEPT ![1].begun = @ + 1]
      /\ control' = Executing(Frame.sender, Frame.msgs[Frame.begun + 1])
      /\ UNCHANGED <<stores, submessages, transactions>>
  BY DEF next_message, AtFrame
<1>2. /\ frames \in Seq(FrameType) /\ Stacked(frames) /\ Frame \in FrameType
      /\ Len(frames) = 1 /\ Frame = frames[1]
      /\ Frame.msgs \in Seq(CosmosMsg) /\ Frame.begun \in Nat
  BY <1>1, CallStackFacts, FrameParts DEF CallStack, Frame
<1>9. Frame.sender \in Accounts
  <2>1. Signed(Frame)
    BY <1>1, <1>2 DEF Stacked
  <2>2. QED
    BY <1>1, <1>2, <2>1 DEF Signed
<1> DEFINE begun == Frame.begun + 1
           f == [Frame EXCEPT !.begun = begun]
           fr == [frames EXCEPT ![Len(frames)] = f]
<1>3. begun \in 1 .. Len(Frame.msgs) /\ begun \in Nat /\ Frame.msgs[begun] \in CosmosMsg
  BY <1>1, <1>2
<1>4. frames' = fr
  BY <1>1, <1>2
<1> HIDE DEF begun
<1>5. /\ f \in FrameType /\ f.kind = "app" /\ f.begun = begun /\ f.msgs = Frame.msgs
      /\ f.sender = Frame.sender
  BY <1>1, <1>2, <1>3 DEF FrameType
<1>11. Signed(f) /\ f.kind = Frame.kind
  BY <1>1, <1>3, <1>5, <1>9 DEF Signed
<1> HIDE DEF f
<1>6. /\ fr \in Seq(FrameType) /\ fr # <<>> /\ fr[Len(fr)] = f
      /\ Level(fr, Len(fr)) = Level(frames, Len(frames))
  BY <1>1, <1>2, <1>5, ChangedFrames
<1>7. Stacked(fr)
  BY <1>1, <1>2, <1>5, <1>11, ChangedStack
<1> HIDE DEF fr
<1>8. WaitsOn(fr, control')
  BY <1>1, <1>3, <1>5, <1>6, WaitsCases DEF begun
<1>10. control' \in ControlType
  BY <1>1, <1>3, <1>9, ControlCases DEF begun
<1>12. QED
  BY <1>1, <1>4, <1>6, <1>7, <1>8, <1>10 DEF CallStack, Top

\* A transaction is committed or dropped.
LEMMA AppEnds ==
    ASSUME CallStack, app_succeeded \/ app_failed
    PROVE  CallStack'
<1>1. /\ frames # <<>> /\ Frame.kind = "app" /\ frames' = Below /\ control' = Idle
      /\ stores' \in {Committed(Store), Dropped}
      /\ UNCHANGED <<submessages, transactions>>
  BY DEF app_succeeded, app_failed, AtFrame
<1>2. /\ stores \in Seq(GoodStore) /\ Top \in Nat /\ Top >= 2 /\ Store \in GoodStore
      /\ Len(frames) = 1 /\ Opens(Frame) /\ frames \in Seq(FrameType)
      /\ Top = Level(frames, Len(frames))
  BY <1>1, CallStackFacts DEF CallStack, Opens
<1>3. frames' = <<>> /\ Level(frames', Len(frames')) = 1 /\ Top = 2
  <2>1. Below = <<>>
    BY <1>1, <1>2, BelowFrames
  <2>2. Level(frames, 1) = Level(frames, 1 - 1) + IF Opens(frames[1]) THEN 1 ELSE 0
    BY LevelNext
  <2>3. Level(frames, 1 - 1) = 1 /\ Level(<<>>, 0) = 1
    BY LevelZero
  <2>4. QED
    BY <1>1, <1>2, <2>1, <2>2, <2>3 DEF Frame
<1>4. stores' \in Seq(GoodStore) /\ Top' = 1
  <2>1. stores' \in Seq(GoodStore) /\ Len(stores') = Top - 1
    BY <1>1, <1>2, CommittedStores, DroppedStores
  <2>2. QED
    BY <1>3, <2>1 DEF Top
<1>5. frames' \in Seq(FrameType) /\ Stacked(frames') /\ WaitsOn(frames', control')
  BY <1>1, <1>3 DEF Stacked, WaitsOn, Idle
<1>6. QED
  BY <1>1, <1>3, <1>4, <1>5, ControlCases DEF CallStack

\* The app begins with no call.
LEMMA InitCallStack ==
    ASSUME Init
    PROVE  CallStack
<1> DEFINE count == Cardinality({address \in Contracts : InitialContracts[address] # Nothing})
           counted == [issued |-> SumFunction(InitialBalances), owed |-> 0,
                       instances |-> count]
           store == [balances |-> InitialBalances, contracts |-> InitialContracts,
                     contract_data |-> InitialData, history |-> counted]
<1>1. /\ InitialBalances \in [Accounts -> Nat]
      /\ InitialContracts \in [Contracts -> ContractData \cup {Nothing}]
      /\ InitialData \in [Contracts -> Values \cup {Nothing}]
      /\ MaxContracts \in Nat
  BY RouterAssumption
<1>2. PICK n \in 0 .. MaxContracts :
        \A address \in Contracts :
          IF address < n THEN InitialContracts[address] # Nothing
          ELSE InitialContracts[address] = Nothing /\ InitialData[address] = Nothing
  BY RouterAssumption
<1>3. {address \in Contracts : InitialContracts[address] # Nothing} = 0 .. n - 1
  BY <1>1, <1>2 DEF Contracts
<1>4. count = n
  <2>1. Cardinality(0 .. n - 1) = n
    BY <1>1, FS_Interval
  <2>2. QED
    BY <1>3, <2>1
<1>5. SumFunction(InitialBalances) \in Int
  <2>1. DOMAIN InitialBalances = Accounts /\ \A a \in Accounts : InitialBalances[a] \in Int
    BY <1>1
  <2>2. SumFunctionOnSet(InitialBalances, Accounts) \in Int
    BY <2>1, FiniteAccounts, SumType
  <2>3. QED
    BY <2>1, <2>2 DEF SumFunction
<1> HIDE DEF count
<1>6. counted \in Numbers /\ counted.issued = SumFunction(InitialBalances)
      /\ counted.instances = n
  BY <1>1, <1>2, <1>4, <1>5 DEF Numbers
<1>7. stores = <<store>>
  BY DEF Init, count
<1> HIDE DEF counted
<1>8. /\ store \in CoreStore /\ store.contracts = InitialContracts
      /\ store.contract_data = InitialData /\ store.balances = InitialBalances
      /\ store.history = counted
  BY <1>1, <1>6 DEF CoreStore
<1> HIDE DEF store
<1>9. Numbered(store)
  <2>1. Registered(store) = 0 .. n - 1
    BY <1>3, <1>8 DEF Registered, IsContract
  <2>2. \A address \in Contracts \ Registered(store) : store.contract_data[address] = Nothing
    BY <1>2, <1>8 DEF Registered, IsContract
  <2>3. QED
    BY <1>6, <1>8, <2>1, <2>2 DEF Numbered
<1>10. store \in GoodStore
  BY <1>6, <1>8, <1>9 DEF GoodStore, Conserved
<1>11. stores \in Seq(GoodStore) /\ Top = 1
  BY <1>7, <1>10 DEF Top
<1>12. frames = <<>> /\ Len(frames) = 0 /\ frames \in Seq(FrameType)
       /\ Stacked(frames) /\ control = Idle /\ WaitsOn(frames, control)
  BY DEF Init, Stacked, WaitsOn, Idle
<1>13. Top = Level(frames, Len(frames))
  BY <1>11, <1>12, LevelZero
<1>14. submessages \in 0 .. MaxSubmessages /\ transactions \in 0 .. MaxTransactions
  BY RouterAssumption DEF Init
<1>15. QED
  BY <1>11, <1>12, <1>13, <1>14, ControlCases DEF CallStack

\* What a message or a call does, by the frame it is done for.
LEMMA EffectCases ==
    ASSUME ResponsesAreTyped, CallStack, Message \/ reply \/ call_sudo
    PROVE  /\ frames # <<>> /\ control # Failed /\ UNCHANGED transactions
           /\ \E from \in Accounts, outlay \in Nat, contracts \in SUBSET Contracts,
                 answered \in {0, 1} :
                /\ Effect(Store, from, outlay, contracts, answered)
                /\ answered = IF control.step = "reply" THEN 1 ELSE 0
                /\ Frame.kind = "response" => contracts = {Frame.contract}
                /\ \/ /\ control.step = "execute" /\ Frame.kind = "app" /\ Frame.begun # 0
                      /\ from = Frame.sender /\ outlay = Outlay(Frame.msgs[Frame.begun])
                   \/ Frame.kind # "app" /\ from = Frame.contract
                   \/ /\ control.step = "sudo" /\ Frame.kind = "app"
                      /\ from \in Contracts /\ outlay = 0
<1>1. /\ control \in ControlType /\ WaitsOn(frames, control) /\ Store \in CoreStore
  BY CallStackFacts DEF CallStack
<1>2. CASE Message
  <2>1. /\ Effect(Store, sender, Outlay(msg), Contracts, 0)
        /\ control.step = "execute" /\ UNCHANGED transactions
    BY <1>1, <1>2, MessageSteps DEF MessageEffect
  <2>2. sender \in Accounts /\ msg \in CosmosMsg
    BY <1>1, <2>1, ExecutingParts
  <2>3. Outlay(msg) \in Nat
    BY <2>2, MessageParts DEF Outlay, Funds
  <2>4. frames # <<>> /\ control # Failed
    BY <2>1, CallStackFacts DEF Failed
  <2>5. \/ /\ Frame.kind = "app" /\ Frame.begun # 0
           /\ sender = Frame.sender /\ msg = Frame.msgs[Frame.begun]
        \/ Frame.kind = "submsg" /\ sender = Frame.contract
    BY <1>1, <2>1 DEF WaitsOn, Frame, sender, msg
  <2>6. QED
    BY <2>1, <2>2, <2>3, <2>4, <2>5
<1>3. CASE reply
  <2>1. /\ control.step = "reply" /\ control.contract \in Contracts
        /\ UNCHANGED transactions
        /\ Effect(Store, control.contract, 0, {control.contract}, 1)
    BY <1>1, <1>3, ReplyEffect
  <2>2. frames # <<>> /\ control # Failed
    BY <2>1, CallStackFacts DEF Failed
  <2>3. Frame.kind = "response" /\ control.contract = Frame.contract
    BY <1>1, <2>1 DEF WaitsOn, Frame
  <2>4. QED
    BY <2>1, <2>2, <2>3 DEF Accounts
<1>4. CASE call_sudo
  <2>1. /\ control.step = "sudo" /\ control.contract \in Contracts
        /\ UNCHANGED transactions
        /\ Effect(Store, control.contract, 0, Contracts, 0)
    BY <1>1, <1>4, SudoEffect
  <2>2. frames # <<>> /\ control # Failed
    BY <2>1, CallStackFacts DEF Failed
  <2>3. Frame.kind = "app"
    BY <1>1, <2>1 DEF WaitsOn, Frame
  <2>4. QED
    BY <2>1, <2>2, <2>3 DEF Accounts
<1>5. QED
  BY <1>2, <1>3, <1>4

\* A transaction that starts is one of the app's, or a call by the chain itself.
LEMMA StartCases ==
    ASSUME execute_multi \/ wasm_sudo
    PROVE  \E from \in Accounts \cup {Nothing}, msgs \in Seq(CosmosMsg), step \in ControlType :
             /\ from \in Accounts \/ msgs = <<>>
             /\ step.step \in {"proceed", "sudo"}
             /\ StartWith(AppFrame(from, msgs), step)
<1>1. CASE execute_multi
  <2>1. PICK tx \in Transactions : StartWith(AppFrame(tx.sender, tx.msgs), Proceed)
    BY <1>1 DEF execute_multi
  <2>2. tx.sender \in Accounts /\ tx.msgs \in Seq(CosmosMsg)
    BY RouterAssumption
  <2>3. Proceed \in ControlType /\ Proceed.step = "proceed"
    BY DEF ControlType, Proceed
  <2>4. QED
    BY <2>1, <2>2, <2>3
<1>2. CASE wasm_sudo
  <2>1. PICK contract \in Contracts :
          StartWith(AppFrame(Nothing, <<>>), [step |-> "sudo", contract |-> contract])
    BY <1>2 DEF wasm_sudo
  <2> DEFINE step == [step |-> "sudo", contract |-> contract]
  <2>2. step \in ControlType /\ step.step = "sudo"
    BY DEF ControlType
  <2>3. <<>> \in Seq(CosmosMsg)
    OBVIOUS
  <2> HIDE DEF step
  <2>4. StartWith(AppFrame(Nothing, <<>>), step)
    BY <2>1 DEF step
  <2>5. QED
    BY <2>2, <2>3, <2>4
<1>3. QED
  BY <1>1, <1>2

\* Every step keeps the invariant of the calls.
LEMMA NextCallStack ==
    ASSUME ResponsesAreTyped, CallStack, [Next]_vars
    PROVE  CallStack'
<1>1. CASE UNCHANGED vars
  BY <1>1 DEF vars, CallStack, Top
<1>2. CASE execute_multi \/ wasm_sudo
  BY <1>2, StartCases, StartStep
<1>3. CASE Message \/ reply \/ call_sudo
  <2>1. PICK from \in Accounts, outlay \in Nat, contracts \in SUBSET Contracts,
             answered \in {0, 1} :
               /\ Effect(Store, from, outlay, contracts, answered)
               /\ Frame.kind = "response" => contracts = {Frame.contract}
    BY <1>3, EffectCases
  <2>2. frames # <<>> /\ UNCHANGED transactions
    BY <1>3, EffectCases
  <2>3. QED
    BY <2>1, <2>2, EffectStep
<1>4. QED
  BY <1>1, <1>2, <1>3, MintStep, SubmsgStep, SubmsgEnds, ContinueStep, ResponseEnds,
     NextMessageStep, AppEnds
     DEF Next, Start, Run, Submessage

\* So the invariant of the calls holds whatever contracts answer.
THEOREM CallStackInvariant ==
    ASSUME ResponsesAreTyped
    PROVE  Spec => []CallStack
<1>1. Init => CallStack
  BY InitCallStack
<1>2. CallStack /\ [Next]_vars => CallStack'
  BY NextCallStack
<1>3. QED
  BY <1>1, <1>2, PTL DEF Spec

\* In every storage the balances sum up to what was minted less what was burnt,
\* whatever contracts do (bank.rs send, mint, burn).
THEOREM MoneyIsConserved ==
    ASSUME ResponsesAreTyped
    PROVE  Spec => []MoneyConserved
<1>1. CallStack => MoneyConserved
  BY DEF CallStack, MoneyConserved, GoodStore, Conserved
<1>2. QED
  BY <1>1, CallStackInvariant, PTL

\* In every storage contracts have addresses of their own (wasm.rs next_address).
THEOREM ContractsHaveTheirAddresses ==
    ASSUME ResponsesAreTyped
    PROVE  Spec => []AddressesAreUnique
<1>1. CallStack => AddressesAreUnique
  BY DEF CallStack, AddressesAreUnique, GoodStore, Numbered
<1>2. QED
  BY <1>1, CallStackInvariant, PTL

\* The data a call returns are its contract's (wasm.rs process_response).
THEOREM DataAreTheContracts ==
    ASSUME ResponsesAreTyped
    PROVE  Spec => []DataIsTheContracts
<1>1. CallStack => DataIsTheContracts
  BY DEF CallStack, DataIsTheContracts, Stacked
<1>2. QED
  BY <1>1, CallStackInvariant, PTL

-----------------------------------------------------------------------------
(* Submessages are accounted for: a storage that others were opened in     *)
(* owes what the frames that opened them, and those below, still have to   *)
(* carry out, and so does the innermost.                                   *)

Weight(frame) ==
    IF frame.kind = "response" THEN Len(frame.msgs)
    ELSE IF frame.kind = "submsg" THEN 1 ELSE 0

Weights(fr) == [i \in DOMAIN fr |-> Weight(fr[i])]
Pending(fr, n) == SumUpTo(Weights(fr), n)

OwedStore == {store \in GoodStore : store.history.owed \in Nat}

Settles(sts, fr) ==
    \A n \in DOMAIN fr :
      Opens(fr[n]) => sts[Level(fr, n - 1)].history.owed = Pending(fr, n)

Owing ==
    /\ stores \in Seq(OwedStore)
    /\ Settles(stores, frames)
    /\ control # Failed =>
         Store.history.owed = Pending(frames, Len(frames))
                                + IF control.step = "reply" THEN 1 ELSE 0

LEMMA WeightType == ASSUME NEW f \in FrameType PROVE Weight(f) \in Nat
BY FrameParts DEF Weight

LEMMA PendingType ==
    ASSUME NEW fr \in Seq(FrameType), NEW n \in 0 .. Len(fr)
    PROVE  Pending(fr, n) \in Nat
<1>1. n \in Nat /\ \A i \in 1 .. n : Weights(fr)[i] \in Nat
  BY WeightType DEF Weights
<1>2. QED
  BY <1>1, SumUpToNatural DEF Pending

LEMMA PendingZero == ASSUME NEW fr PROVE Pending(fr, 0) = 0
BY SumUpToZero DEF Pending

LEMMA PendingNext ==
    ASSUME NEW fr \in Seq(FrameType), NEW n \in 1 .. Len(fr)
    PROVE  Pending(fr, n) = Pending(fr, n - 1) + Weight(fr[n])
<1>1. n \in Nat \ {0} /\ Weights(fr)[n] = Weight(fr[n])
      /\ \A i \in 1 .. n : Weights(fr)[i] \in Nat
  BY WeightType DEF Weights
<1>2. QED
  BY <1>1, SumUpToNext DEF Pending

LEMMA PendingAgree ==
    ASSUME NEW fr \in Seq(FrameType), NEW gr \in Seq(FrameType), NEW n \in 0 .. Len(fr),
           n <= Len(gr), \A i \in 1 .. n : Weight(fr[i]) = Weight(gr[i])
    PROVE  Pending(fr, n) = Pending(gr, n)
<1>1. n \in Nat /\ \A i \in 1 .. n : Weights(fr)[i] \in Nat /\ Weights(fr)[i] = Weights(gr)[i]
  BY WeightType DEF Weights
<1>2. QED
  BY <1>1, SumUpToAgree DEF Pending

\* The first m frames, and the storages they were opened in, stay as they were.
Kept(sts, fr, sts2, gr, m) ==
    /\ fr \in Seq(FrameType) /\ gr \in Seq(FrameType)
    /\ m \in 0 .. Len(fr) /\ m <= Len(gr)
    /\ \A n \in 1 .. m : (Opens(gr[n]) <=> Opens(fr[n])) /\ Weight(gr[n]) = Weight(fr[n])
    /\ \A i \in 1 .. Level(fr, m) - 1 : sts2[i] = sts[i]

\* Then they owe what they did.
LEMMA SettlesKept ==
    ASSUME NEW fr, NEW gr, NEW m, NEW sts, NEW sts2,
           Kept(sts, fr, sts2, gr, m), Settles(sts, fr)
    PROVE  \A n \in 1 .. m :
             Opens(gr[n]) => sts2[Level(gr, n - 1)].history.owed = Pending(gr, n)
<1> SUFFICES ASSUME NEW n \in 1 .. m, Opens(gr[n])
             PROVE  sts2[Level(gr, n - 1)].history.owed = Pending(gr, n)
  OBVIOUS
<1> USE DEF Kept
<1>1. /\ n \in DOMAIN fr /\ Opens(fr[n]) /\ m \in Nat /\ n \in Nat \ {0} /\ n <= m
      /\ n - 1 \in Nat /\ n \in 0 .. Len(fr) /\ n <= Len(gr)
  OBVIOUS
<1>2. Level(fr, n - 1) \in Nat \ {0} /\ Level(fr, m) \in Nat
  BY <1>1, LevelType
<1>3. Level(fr, n - 1) + 1 <= Level(fr, m)
  BY <1>1, LevelGrowsPast
<1>4. Level(gr, n - 1) = Level(fr, n - 1)
  <2>1. \A i \in 1 .. n - 1 : Opens(gr[i]) <=> Opens(fr[i])
    BY <1>1
  <2>2. QED
    BY ONLY <1>1, <2>1, LevelAgree
<1>5. Pending(fr, n) = Pending(gr, n)
  <2>1. \A i \in 1 .. n : Weight(fr[i]) = Weight(gr[i])
    BY <1>1
  <2>2. QED
    BY <1>1, <2>1, PendingAgree
<1>6. Level(fr, n - 1) \in 1 .. Level(fr, m) - 1
  BY <1>2, <1>3
<1>7. sts[Level(fr, n - 1)].history.owed = Pending(fr, n)
  BY <1>1 DEF Settles
<1>8. QED
  BY <1>4, <1>5, <1>6, <1>7

\* What an effect leaves to be carried out.
LEMMA EffectOwing ==
    ASSUME CallStack, Owing, frames # <<>>, control # Failed,
           NEW from \in Accounts, NEW outlay, NEW contracts \in SUBSET Contracts,
           NEW answered, answered = IF control.step = "reply" THEN 1 ELSE 0,
           Effect(Store, from, outlay, contracts, answered), CallStack'
    PROVE  Owing'
<1>1. PICK new :
        /\ stores' = Written(new)
        /\ StoreStep(Store, new, from, outlay)
        /\ \/ Fails(Store, new)
           \/ Finishes(Store, new, answered)
           \/ Responds(Store, new, contracts, answered)
  BY DEF Effect
<1>2. /\ stores \in Seq(OwedStore) /\ frames \in Seq(FrameType) /\ Len(frames) \in Nat
      /\ frames' \in Seq(FrameType) /\ Settles(stores, frames)
      /\ Top = Level(frames, Len(frames)) /\ Top \in Nat \ {0} /\ Store \in GoodStore
      /\ Store \in OwedStore
      /\ Store.history.owed = Pending(frames, Len(frames)) + answered
  BY CallStackFacts DEF CallStack, Owing, Store, Top
<1>3. /\ new \in GoodStore /\ Store.history.owed \in Nat
      /\ Pending(frames, Len(frames)) \in Nat /\ answered \in {0, 1}
  BY <1>1, <1>2, GoodStep, PendingType DEF OwedStore
<1>4. ASSUME new.history.owed \in Nat
      PROVE  /\ stores' \in Seq(OwedStore) /\ Top' = Top /\ Store' = new
             /\ \A n \in 1 .. Top - 1 : stores'[n] = stores[n]
  <2>1. new \in OwedStore
    BY <1>3, <1>4 DEF OwedStore
  <2>2. /\ stores' \in Seq(OwedStore) /\ Len(stores') = Top /\ stores'[Top] = new
        /\ \A n \in 1 .. Top - 1 : stores'[n] = stores[n]
    BY <1>1, <1>2, <2>1, WrittenStores
  <2>3. QED
    BY <2>2 DEF Top, Store
<1>5. CASE frames' = frames /\ new.history.owed \in Nat
           /\ (control' # Failed => /\ new.history.owed = Pending(frames, Len(frames))
                                    /\ control' = Returned(Nothing))
  <2> DEFINE m == Len(frames)
             sts == stores'
  <2>4. m = Len(frames) /\ Kept(stores, frames, sts, frames, m)
    BY <1>2, <1>4, <1>5 DEF Kept
  <2> HIDE DEF m, sts
  <2>5. \A n \in 1 .. m :
          Opens(frames[n]) => sts[Level(frames, n - 1)].history.owed = Pending(frames, n)
    BY <1>2, <2>4, SettlesKept
  <2>1. \A n \in 1 .. Len(frames) :
          Opens(frames[n]) =>
            stores'[Level(frames, n - 1)].history.owed = Pending(frames, n)
    BY <2>4, <2>5 DEF sts
  <2>2. Settles(stores', frames')
    BY <1>2, <1>5, <2>1 DEF Settles
  <2>3. control' # Failed => control'.step # "reply"
    BY <1>5 DEF Returned
  <2>6. QED
    BY <1>3, <1>4, <1>5, <2>2, <2>3 DEF Owing
<1>6. CASE Fails(Store, new)
  BY <1>3, <1>5, <1>6 DEF Fails
<1>7. CASE Finishes(Store, new, answered)
  <2>1. new.history.owed = Pending(frames, Len(frames))
    BY <1>2, <1>3, <1>7 DEF Finishes
  <2>2. QED
    BY <1>3, <1>5, <1>7, <2>1 DEF Finishes
<1>8. CASE Responds(Store, new, contracts, answered)
  <2>1. PICK contract \in contracts, entry \in Entries, msgs \in Seq(SubMsg) :
          \E data \in {Nothing, contract} :
            /\ frames' = Append(frames, ResponseFrame(contract, entry, data, msgs))
            /\ control' = Proceed
            /\ new.history.owed = Store.history.owed + Len(msgs) - answered
    BY <1>8 DEF Responds
  <2>2. PICK data \in {Nothing, contract} :
            frames' = Append(frames, ResponseFrame(contract, entry, data, msgs))
    BY <2>1
  <2> DEFINE f == ResponseFrame(contract, entry, data, msgs)
             k == Len(frames)
             gr == frames'
             sts == stores'
  <2>3. /\ f.kind = "response" /\ f.msgs = msgs /\ Len(msgs) \in Nat /\ ~Opens(f)
        /\ Weight(f) = Len(msgs)
    BY DEF ResponseFrame, Opens, Weight
  <2>4. frames' = Append(frames, f)
    BY <2>2
  <2> HIDE DEF f
  <2>5. /\ k \in Nat /\ gr \in Seq(FrameType) /\ Len(gr) = k + 1 /\ gr[k + 1] = f
        /\ DOMAIN gr = 1 .. k + 1
        /\ \A n \in 1 .. k : gr[n] = frames[n]
    BY <1>2, <2>4
  <2> HIDE DEF gr, k, sts
  <2>17. new.history.owed = Store.history.owed + Len(msgs) - answered
    BY <2>1
  <2>6. new.history.owed = Pending(frames, k) + Len(msgs) /\ new.history.owed \in Nat
    <3> DEFINE owed == Store.history.owed
               pending == Pending(frames, Len(frames))
               l == Len(msgs)
    <3>1. /\ owed = pending + answered /\ new.history.owed = owed + l - answered
          /\ pending \in Nat /\ answered \in Nat /\ l \in Nat
      BY <1>2, <1>3, <2>3, <2>17
    <3> HIDE DEF owed, pending, l
    <3>2. new.history.owed = pending + l
      BY ONLY <3>1
    <3>3. QED
      BY <3>1, <3>2 DEF pending, l, k
  <2>7. k \in 0 .. Len(frames) /\ k <= Len(gr) /\ Kept(stores, frames, sts, gr, k)
    BY <1>2, <1>4, <2>5, <2>6 DEF k, sts, Kept
  <2>8. \A n \in 1 .. k :
          Opens(gr[n]) => sts[Level(gr, n - 1)].history.owed = Pending(gr, n)
    BY <1>2, <2>5, <2>7, SettlesKept
  <2>9. Settles(sts, gr)
    <3>1. \A n \in DOMAIN gr : n \in 1 .. k \/ n = k + 1
      BY <2>5
    <3>2. QED
      BY <2>3, <2>5, <2>8, <3>1 DEF Settles
  <2>10. Pending(gr, k) = Pending(frames, k)
    BY <1>2, <2>5, <2>7, PendingAgree
  <2>11. Pending(gr, k + 1) = Pending(gr, (k + 1) - 1) + Weight(gr[k + 1])
    BY <2>5, PendingNext
  <2>12. Pending(gr, k + 1) = new.history.owed
    BY <2>3, <2>5, <2>6, <2>10, <2>11
  <2>13. control'.step # "reply"
    BY <2>1 DEF Proceed
  <2>14. frames' = gr
    BY DEF gr
  <2>15. new.history.owed = Pending(gr, Len(gr)) + 0
    BY <2>5, <2>6, <2>12
  <2>16. QED
    BY <1>4, <2>6, <2>9, <2>13, <2>14, <2>15 DEF Owing, sts
<1>9. QED
  BY <1>1, <1>6, <1>7, <1>8

\* When the innermost frame is popped, the others owe what they did.
LEMMA PoppedOwing ==
    ASSUME CallStack, Owing, frames # <<>>,
           \A i \in 1 .. Level(Below, Len(Below)) - 1 : stores'[i] = stores[i]
    PROVE  /\ Settles(stores', Below) /\ Pending(Below, Len(Below)) \in Nat
           /\ Pending(frames, Len(frames)) = Pending(Below, Len(Below)) + Weight(Frame)
<1>1. /\ frames \in Seq(FrameType) /\ Settles(stores, frames)
  BY DEF CallStack, Owing
<1>2. /\ Len(frames) \in Nat \ {0} /\ Below \in Seq(FrameType)
      /\ Len(Below) = Len(frames) - 1
      /\ \A n \in 1 .. Len(frames) - 1 : Below[n] = frames[n]
  BY <1>1, PoppedFrames
<1> DEFINE k == Len(frames) - 1
           gr == Below
           sts == stores'
<1>3. /\ k \in Nat /\ k + 1 \in 1 .. Len(frames) /\ Len(gr) = k /\ gr \in Seq(FrameType)
      /\ k \in 0 .. Len(frames) /\ \A n \in 1 .. k : gr[n] = frames[n]
      /\ frames[k + 1] = Frame /\ k + 1 = Len(frames) /\ DOMAIN gr = 1 .. k
      /\ \A i \in 1 .. Level(gr, k) - 1 : sts[i] = stores[i]
  BY <1>2 DEF Frame
<1> HIDE DEF k, gr, sts
<1>4. Level(gr, k) = Level(frames, k)
  BY <1>3, LevelAgree
<1>5. Kept(stores, frames, sts, gr, k)
  BY <1>1, <1>3, <1>4 DEF Kept
<1>6. \A n \in 1 .. k : Opens(gr[n]) => sts[Level(gr, n - 1)].history.owed = Pending(gr, n)
  BY <1>1, <1>5, SettlesKept
<1>7. Settles(sts, gr)
  BY <1>3, <1>6 DEF Settles
<1>8. Pending(frames, k) = Pending(gr, k) /\ Pending(gr, k) \in Nat
  BY <1>1, <1>3, PendingAgree, PendingType
<1>9. Pending(frames, k + 1) = Pending(frames, (k + 1) - 1) + Weight(frames[k + 1])
  BY <1>1, <1>3, PendingNext
<1>10. Pending(frames, k + 1) = Pending(gr, k) + Weight(Frame)
  BY <1>3, <1>8, <1>9
<1>11. QED
  BY <1>3, <1>7, <1>8, <1>10 DEF gr, sts

\* When it is changed into one of its weight, nothing is owed more or less.
LEMMA ChangedOwing ==
    ASSUME CallStack, Owing, frames # <<>>, NEW f \in FrameType, f.kind = Frame.kind,
           Weight(f) = Weight(Frame), UNCHANGED stores
    PROVE  LET gr == [frames EXCEPT ![Len(frames)] = f]
           IN  /\ Settles(stores', gr)
               /\ Pending(gr, Len(gr)) = Pending(frames, Len(frames))
<1>1. /\ frames \in Seq(FrameType) /\ Settles(stores, frames)
  BY DEF CallStack, Owing
<1> DEFINE gr == [frames EXCEPT ![Len(frames)] = f]
           k == Len(frames)
<1>2. /\ k \in Nat \ {0} /\ gr \in Seq(FrameType) /\ Len(gr) = k /\ gr[k] = f
      /\ Frame = frames[k] /\ DOMAIN gr = 1 .. k /\ k \in 0 .. Len(frames)
      /\ \A n \in 1 .. k - 1 : gr[n] = frames[n]
  BY <1>1 DEF Frame
<1>3. Opens(f) <=> Opens(Frame)
  BY DEF Opens
<1> HIDE DEF gr, k
<1>4. ASSUME NEW n \in 1 .. k
      PROVE  (Opens(gr[n]) <=> Opens(frames[n])) /\ Weight(gr[n]) = Weight(frames[n])
  <2>1. n = k \/ n \in 1 .. k - 1
    BY <1>2
  <2>2. QED
    BY <1>2, <1>3, <2>1
<1>5. Kept(stores, frames, stores, gr, k)
  BY <1>1, <1>2, <1>4 DEF Kept
<1>6. \A n \in 1 .. k : Opens(gr[n]) => stores[Level(gr, n - 1)].history.owed = Pending(gr, n)
  BY <1>1, <1>5, SettlesKept
<1>7. Settles(stores', gr)
  BY <1>2, <1>6 DEF Settles
<1>8. Pending(frames, k) = Pending(gr, k)
  BY <1>1, <1>2, <1>4, PendingAgree
<1>9. QED
  BY <1>2, <1>7, <1>8 DEF gr, k

\* A submessage that begins is one of its response's less.
LEMMA SubmsgOwing ==
    ASSUME CallStack, Owing, execute_submsg
    PROVE  Owing'
<1>1. /\ control = Proceed /\ frames # <<>> /\ Frame.kind = "response" /\ Frame.msgs # <<>>
      /\ stores' = Append(stores, Store)
      /\ frames' = Append([frames EXCEPT ![Len(frames)].msgs = Tail(@)],
                          SubmsgFrame(Frame.contract, Head(Frame.msgs).reply_on))
      /\ control' = Executing(Frame.contract, Head(Frame.msgs).msg)
  BY DEF execute_submsg, AtFrame, SubmsgSender
<1>2. /\ stores \in Seq(OwedStore) /\ Settles(stores, frames)
      /\ frames \in Seq(FrameType) /\ Frame \in FrameType /\ Top \in Nat \ {0}
      /\ Top = Level(frames, Len(frames)) /\ Frame.msgs \in Seq(SubMsg)
      /\ Store.history.owed = Pending(frames, Len(frames)) + 0
      /\ frames' \in Seq(FrameType)
  <2>1. control # Failed /\ control.step # "reply"
    BY <1>1 DEF Proceed, Failed
  <2>2. CallStack'
    BY SubmsgStep
  <2>3. QED
    BY <1>1, <2>1, <2>2, CallStackFacts, FrameParts DEF CallStack, Owing
<1> DEFINE rest == [Frame EXCEPT !.msgs = Tail(Frame.msgs)]
           g == SubmsgFrame(Frame.contract, Head(Frame.msgs).reply_on)
           k == Len(frames)
           gr == frames'
           sts == stores'
<1>3. /\ k \in Nat \ {0} /\ Len(gr) = k + 1 /\ gr \in Seq(FrameType) /\ Frame = frames[k]
      /\ DOMAIN gr = 1 .. k + 1 /\ gr[k] = rest /\ gr[k + 1] = g /\ k = Len(frames)
      /\ \A n \in 1 .. k - 1 : gr[n] = frames[n]
  <2> DEFINE fr == [frames EXCEPT ![k] = rest]
  <2>1. gr = Append(fr, g)
    BY <1>1, <1>2 DEF Frame
  <2>2. /\ k \in Nat \ {0} /\ Len(fr) = k /\ fr[k] = rest /\ DOMAIN fr = 1 .. k
        /\ \A n \in 1 .. k - 1 : fr[n] = frames[n]
        /\ fr = [n \in 1 .. k |-> fr[n]]
    <3> HIDE DEF rest
    <3>1. QED
      BY <1>1, <1>2, SMTT(30)
  <2> HIDE DEF fr, rest, g
  <2>3. /\ Len(gr) = k + 1 /\ DOMAIN gr = 1 .. k + 1 /\ gr[k + 1] = g
        /\ \A n \in 1 .. k : gr[n] = fr[n]
    <3> HIDE DEF gr, k
    <3>1. fr \in Seq({fr[n] : n \in 1 .. k})
      BY <2>2
    <3>2. QED
      BY <2>1, <2>2, <3>1
  <2>4. gr \in Seq(FrameType) /\ Frame = frames[k] /\ k = Len(frames)
    BY <1>2 DEF Frame
  <2> HIDE DEF k, gr
  <2>7. /\ k \in 1 .. k /\ fr[k] = rest /\ \A n \in 1 .. k - 1 : fr[n] = frames[n]
        /\ \A n \in 1 .. k - 1 : n \in 1 .. k
    BY <2>2
  <2>5. gr[k] = rest /\ \A n \in 1 .. k - 1 : gr[n] = frames[n]
    BY ONLY <2>3, <2>7
  <2>6. QED
    BY <2>2, <2>3, <2>4, <2>5
<1>4. /\ ~Opens(rest) /\ ~Opens(Frame) /\ Opens(g) /\ Weight(g) = 1
      /\ Weight(Frame) = Len(Frame.msgs) /\ Weight(rest) = Len(Frame.msgs) - 1
      /\ Len(Frame.msgs) \in Nat
  BY <1>1, <1>2 DEF Opens, Weight, SubmsgFrame, FrameType
<1>5. /\ sts \in Seq(OwedStore) /\ Len(sts) = Top + 1 /\ sts[Top + 1] = Store
      /\ \A n \in 1 .. Top : sts[n] = stores[n]
  <2>1. Store \in OwedStore
    BY <1>2 DEF Store, Top
  <2>2. QED
    BY <1>1, <1>2, <2>1, OpenedStores
<1> HIDE DEF rest, g, k, gr, sts
<1>6. Level(gr, k) = Level(frames, k)
  <2>1. ASSUME NEW n \in 1 .. k PROVE Opens(gr[n]) <=> Opens(frames[n])
    <3>1. n = k \/ n \in 1 .. k - 1
      BY <1>3
    <3>2. QED
      BY <1>3, <1>4, <3>1
  <2>2. QED
    BY <1>3, <2>1, LevelAgree
<1>7. k - 1 \in 0 .. Len(frames) /\ k - 1 <= Len(gr) /\ k - 1 \in Nat
  BY <1>3
<1>8. Level(frames, k - 1) <= Level(frames, k) /\ Level(frames, k - 1) \in Nat
  <2>1. k \in Nat /\ k - 1 <= k
    BY <1>3
  <2>2. QED
    BY <1>7, <2>1, LevelGrows, LevelType
<1>9. Kept(stores, frames, sts, gr, k - 1)
  <2>1. Level(frames, k) = Top
    BY <1>2, <1>3
  <2>2. \A i \in 1 .. Level(frames, k - 1) - 1 : sts[i] = stores[i]
    <3> DEFINE l == Level(frames, k - 1)
    <3>1. l \in Nat /\ l <= Top /\ Top \in Nat
      BY <1>2, <1>8, <2>1
    <3> HIDE DEF l
    <3>2. \A i \in 1 .. l - 1 : i \in 1 .. Top
      BY <3>1
    <3>3. QED
      BY <1>5, <3>2 DEF l
  <2>3. QED
    BY <1>2, <1>3, <1>7, <2>2 DEF Kept
<1>10. \A n \in 1 .. k - 1 :
         Opens(gr[n]) => sts[Level(gr, n - 1)].history.owed = Pending(gr, n)
  BY <1>2, <1>9, SettlesKept
<1>11. Pending(gr, k + 1) = Pending(frames, k)
  <2>1. Pending(gr, k - 1) = Pending(frames, k - 1) /\ Pending(gr, k - 1) \in Nat
    BY <1>2, <1>3, <1>7, PendingAgree, PendingType, ZenonT(60)
  <2>2. Pending(frames, k) = Pending(frames, k - 1) + Weight(frames[k])
    BY <1>2, <1>3, PendingNext
  <2>3. k \in 1 .. Len(gr) /\ k + 1 \in 1 .. Len(gr) /\ (k + 1) - 1 = k
    BY <1>3
  <2>4. Pending(gr, k) = Pending(gr, k - 1) + Weight(gr[k])
    BY <1>3, <2>3, PendingNext
  <2>5. Pending(gr, k + 1) = Pending(gr, (k + 1) - 1) + Weight(gr[k + 1])
    BY <1>3, <2>3, PendingNext
  <2>6. Pending(gr, k + 1) = Pending(gr, k) + 1
    BY <1>3, <1>4, <2>3, <2>5
  <2>7. Pending(gr, k) = Pending(gr, k - 1) + (Len(Frame.msgs) - 1)
    BY <1>3, <1>4, <2>4
  <2>8. Pending(frames, k) = Pending(gr, k - 1) + Len(Frame.msgs)
    BY <1>3, <1>4, <2>1, <2>2
  <2>9. QED
    <3> DEFINE p == Pending(gr, k - 1)
               l == Len(Frame.msgs)
    <3>1. p \in Nat /\ l \in Nat
      BY <1>4, <2>1
    <3> HIDE DEF p, l
    <3>2. Pending(gr, k + 1) = (p + (l - 1)) + 1 /\ Pending(frames, k) = p + l
      BY <2>6, <2>7, <2>8 DEF p, l
    <3>3. QED
      BY <3>1, <3>2
<1>12. sts[Level(gr, (k + 1) - 1)].history.owed = Pending(gr, k + 1)
  <2>1. (k + 1) - 1 = k /\ Level(gr, k) = Top /\ sts[Top] = stores[Top] /\ stores[Top] = Store
    BY <1>2, <1>3, <1>5, <1>6 DEF Store
  <2>2. Pending(frames, k) \in Nat /\ Store.history.owed = Pending(frames, k) + 0
    BY <1>2, <1>3, PendingType
  <2>3. QED
    BY <1>11, <2>1, <2>2
<1>13. Settles(sts, gr)
  <2>1. \A n \in DOMAIN gr : n \in 1 .. k - 1 \/ n = k \/ n = k + 1
    BY <1>3
  <2>2. QED
    BY <1>3, <1>4, <1>10, <1>12, <2>1 DEF Settles
<1>14. Store' = Store
  BY <1>5, <1>2 DEF Store, Top, sts
<1>15. Store'.history.owed = Pending(gr, Len(gr)) + 0
  BY <1>2, <1>3, <1>11, <1>14
<1>16. control'.step # "reply"
  BY <1>1 DEF Executing
<1>17. QED
  BY <1>5, <1>13, <1>15, <1>16 DEF Owing, gr, sts

\* A submessage that ended, carried out or answered, is owed no longer; one that is
\* to be answered is owed its reply.
LEMMA SubmsgEndsOwing ==
    ASSUME CallStack, Owing, submsg_succeeded \/ submsg_failed
    PROVE  Owing'
<1>1. /\ frames # <<>> /\ Frame.kind = "submsg" /\ frames' = Below
      /\ control.step \in {"returned", "failed"}
  BY DEF submsg_succeeded, submsg_failed, AtFrame
<1>2. /\ stores \in Seq(OwedStore) /\ Settles(stores, frames) /\ Top \in Nat /\ Top >= 2
      /\ Store \in OwedStore /\ Store \in GoodStore /\ Opens(Frame)
      /\ Level(Below, Len(Below)) = Top - 1
      /\ Len(frames) \in Nat \ {0} /\ Len(frames) \in DOMAIN frames
      /\ Level(Below, Len(Below)) = Level(frames, Len(frames) - 1)
      /\ Frame = frames[Len(frames)]
  <2>1. frames \in Seq(FrameType) /\ stores \in Seq(OwedStore) /\ Settles(stores, frames)
    BY DEF CallStack, Owing
  <2>2. Top \in Nat /\ Top >= 2 /\ Store \in GoodStore
    BY <1>1, CallStackFacts
  <2>3. Opens(Frame)
    BY <1>1 DEF Opens
  <2>4. Level(Below, Len(Below)) = Top - 1
    BY <1>1, <2>2, <2>3, UnderTop
  <2>5. /\ Len(frames) \in Nat \ {0} /\ Len(Below) = Len(frames) - 1
        /\ Level(frames, Len(frames)) = Level(Below, Len(Below)) + 1
    BY <1>1, <2>1, <2>3, PoppedFrames
  <2> DEFINE k == Len(frames)
  <2>6. k \in Nat \ {0} /\ Frame = frames[k] /\ k \in DOMAIN frames
    BY <1>1, <2>1, <2>5 DEF Frame
  <2> HIDE DEF k
  <2>7. Level(frames, k) = Level(frames, k - 1) + IF Opens(frames[k]) THEN 1 ELSE 0
    BY <2>6, LevelNext
  <2>8. Level(frames, k - 1) \in Nat /\ Level(Below, Len(Below)) \in Nat
    <3>1. k - 1 \in Nat /\ Len(Below) \in Nat
      BY <2>5, <2>6 DEF k
    <3>2. QED
      BY <3>1, LevelType
  <2>9. Level(frames, k - 1) = Level(Below, Len(Below))
    BY <2>3, <2>5, <2>6, <2>7, <2>8 DEF k
  <2>10. Store \in OwedStore
    BY <2>1, <2>2 DEF Store, Top
  <2>11. QED
    BY <2>1, <2>2, <2>3, <2>4, <2>6, <2>9, <2>10 DEF k
<1>3. Weight(Frame) = 1
  BY <1>1 DEF Weight
<1>4. ASSUME \A i \in 1 .. Top - 2 : stores'[i] = stores[i]
      PROVE  /\ Settles(stores', Below) /\ Pending(Below, Len(Below)) \in Nat
             /\ Pending(frames, Len(frames)) = Pending(Below, Len(Below)) + 1
  <2>1. \A i \in 1 .. Level(Below, Len(Below)) - 1 : stores'[i] = stores[i]
    BY <1>2, <1>4
  <2>2. QED
    BY <1>1, <1>3, <2>1, PoppedOwing
<1>5. ASSUME NEW s \in GoodStore, stores' = Committed(s), s.history.owed \in Nat
      PROVE  /\ stores' \in Seq(OwedStore) /\ Store' = s
             /\ Settles(stores', Below) /\ Pending(Below, Len(Below)) \in Nat
             /\ Pending(frames, Len(frames)) = Pending(Below, Len(Below)) + 1
  <2>1. s \in OwedStore
    BY <1>5 DEF OwedStore
  <2>2. /\ stores' \in Seq(OwedStore) /\ Len(stores') = Top - 1 /\ stores'[Top - 1] = s
        /\ \A n \in 1 .. Top - 2 : stores'[n] = stores[n]
    BY <1>2, <1>5, <2>1, CommittedStores
  <2>3. QED
    BY <1>4, <2>2 DEF Store, Top
<1>6. CASE submsg_succeeded
  <2>1. Store.history.owed = Pending(frames, Len(frames)) + 0 /\ Store.history.owed \in Nat
    BY <1>2, <1>6 DEF submsg_succeeded, Owing, Failed, OwedStore
  <2>2. CASE stores' = Committed(Store) /\ control' = Replying(Frame.contract, TRUE)
    <3>1. /\ stores' \in Seq(OwedStore) /\ Store' = Store
          /\ Settles(stores', Below) /\ Pending(Below, Len(Below)) \in Nat
          /\ Pending(frames, Len(frames)) = Pending(Below, Len(Below)) + 1
      BY <1>2, <1>5, <2>1, <2>2
    <3>2. control'.step = "reply" /\ Store'.history.owed = Pending(Below, Len(Below)) + 1
      BY <2>1, <2>2, <3>1 DEF Replying
    <3>3. QED
      BY <1>1, <3>1, <3>2 DEF Owing
  <2>3. CASE stores' = Committed(Settled(Store)) /\ control' = Returned(Nothing)
    <3>1. /\ Settled(Store) \in GoodStore
          /\ Settled(Store).history.owed = Store.history.owed - 1
      BY <1>2, SettledStore
    <3>2. Store.history.owed - 1 \in Nat
      <4>1. \A i \in 1 .. Top - 2 : stores'[i] = stores[i]
        BY <1>2, <2>3, <3>1, CommittedStores DEF CallStack
      <4>2. QED
        BY <1>4, <2>1, <4>1
    <3>3. /\ stores' \in Seq(OwedStore) /\ Store' = Settled(Store)
          /\ Settles(stores', Below) /\ Pending(Below, Len(Below)) \in Nat
          /\ Pending(frames, Len(frames)) = Pending(Below, Len(Below)) + 1
      BY <1>5, <2>3, <3>1, <3>2
    <3>4. control'.step # "reply" /\ Store'.history.owed = Pending(Below, Len(Below)) + 0
      BY <2>1, <2>3, <3>1, <3>3 DEF Returned
    <3>5. QED
      BY <1>1, <3>3, <3>4 DEF Owing
  <2>4. QED
    BY <1>6, <2>2, <2>3 DEF submsg_succeeded, DataWithoutReply
<1>7. CASE submsg_failed
  <2>1. stores' = Dropped /\ control' \in {Replying(Frame.contract, FALSE), Failed}
    BY <1>7 DEF submsg_failed, FailureWithoutReply
  <2>2. /\ stores' \in Seq(OwedStore) /\ Len(stores') = Top - 1
        /\ \A n \in 1 .. Top - 1 : stores'[n] = stores[n]
    BY <1>2, <2>1, DroppedStores
  <2>3. /\ Settles(stores', Below) /\ Pending(Below, Len(Below)) \in Nat
        /\ Pending(frames, Len(frames)) = Pending(Below, Len(Below)) + 1
    <3>1. \A n \in 1 .. Top - 2 : stores'[n] = stores[n]
      BY <1>2, <2>2
    <3>2. QED
      BY <1>4, <3>1
  <2>4. stores[Top - 1].history.owed = Pending(frames, Len(frames))
    BY <1>2 DEF Settles
  <2>5. Store' = stores[Top - 1]
    BY <1>2, <2>2 DEF Store, Top
  <2>6. Store'.history.owed = Pending(Below, Len(Below)) + 1
    BY <2>3, <2>4, <2>5
  <2>7. control' # Failed => control'.step = "reply"
    BY <2>1 DEF Replying
  <2>8. QED
    BY <1>1, <2>2, <2>3, <2>6, <2>7 DEF Owing
<1>8. QED
  BY <1>6, <1>7

\* A transaction begins with nothing owed.
LEMMA StartOwing ==
    ASSUME CallStack, Owing, NEW from \in Accounts \cup {Nothing},
           NEW msgs \in Seq(CosmosMsg), NEW step \in ControlType,
           step.step \in {"proceed", "sudo"}, StartWith(AppFrame(from, msgs), step)
    PROVE  Owing'
<1> DEFINE f == AppFrame(from, msgs)
           gr == frames'
<1>1. f \in FrameType /\ Opens(f) /\ Weight(f) = 0
  BY DEF AppFrame, FrameType, Opens, Weight
<1>2. /\ control = Idle /\ stores' = Append(stores, Base) /\ gr = <<f>> /\ control' = step
  BY DEF StartWith
<1> HIDE DEF f, gr
<1>3. /\ stores \in Seq(OwedStore) /\ frames = <<>> /\ Top = 1
      /\ Store.history.owed = Pending(frames, Len(frames)) + 0 /\ Base = Store
      /\ Base \in OwedStore
  BY <1>2, CallStackFacts DEF CallStack, WaitsOn, Owing, Idle, Failed, Base, Store, Top
<1>4. Store.history.owed = 0
  BY <1>3, PendingZero
<1>5. /\ stores' \in Seq(OwedStore) /\ Len(stores') = 2 /\ stores'[2] = Store
      /\ stores'[1] = Store
  BY <1>2, <1>3, OpenedStores DEF Store
<1>6. gr \in Seq(FrameType) /\ Len(gr) = 1 /\ gr[1] = f /\ DOMAIN gr = {1}
  BY <1>1, <1>2
<1>7. Pending(gr, 1) = 0
  <2>1. Pending(gr, 1) = Pending(gr, 1 - 1) + Weight(gr[1])
    BY <1>6, PendingNext
  <2>2. Pending(gr, 1 - 1) = 0
    BY PendingZero
  <2>3. QED
    BY <1>1, <1>6, <2>1, <2>2
<1>8. Level(gr, 1 - 1) = 1
  BY LevelZero
<1>9. Settles(stores', gr)
  BY <1>4, <1>5, <1>6, <1>7, <1>8 DEF Settles
<1>10. Store'.history.owed = Pending(gr, Len(gr)) + 0
  BY <1>4, <1>5, <1>6, <1>7 DEF Store, Top
<1>11. control'.step # "reply"
  BY <1>2
<1>12. QED
  BY <1>5, <1>9, <1>10, <1>11 DEF Owing, gr

\* Minting owes nothing.
LEMMA MintOwing ==
    ASSUME CallStack, Owing, bank_sudo
    PROVE  Owing'
<1>1. PICK to \in Accounts, amount \in Mints \ {0} :
        stores' = Written([Store EXCEPT !.balances = mint(@, to, amount),
                                        !.history.issued = @ + amount])
  BY DEF bank_sudo
<1> DEFINE new == [Store EXCEPT !.balances = mint(@, to, amount),
                                !.history.issued = @ + amount]
<1>2. amount \in Nat
  BY <1>1, RouterAssumption
<1>3. /\ stores \in Seq(OwedStore) /\ Top = 1 /\ Store \in GoodStore /\ frames = <<>>
      /\ Store \in OwedStore /\ control = Idle
  BY CallStackFacts DEF CallStack, Owing, bank_sudo, WaitsOn, Store, Top
<1>4. new \in GoodStore /\ new.history.owed = Store.history.owed
  BY <1>2, <1>3, MintedStore DEF GoodStore, CoreStore, Numbers
<1> HIDE DEF new
<1>5. new \in OwedStore
  BY <1>3, <1>4 DEF OwedStore
<1>6. stores' \in Seq(OwedStore) /\ Store' = new
  <2>1. stores' = Written(new)
    BY <1>1 DEF new
  <2>2. stores' \in Seq(OwedStore) /\ Len(stores') = Top /\ stores'[Top] = new
    BY <1>3, <1>5, <2>1, WrittenStores
  <2>3. QED
    BY <2>2 DEF Store, Top
<1>7. UNCHANGED <<frames, control>>
  BY DEF bank_sudo
<1>8. Settles(stores', frames')
  BY <1>3, <1>7 DEF Settles
<1>9. QED
  BY <1>4, <1>6, <1>7, <1>8 DEF Owing

\* Nothing is owed more or less when a submessage has given its data, a response
\* has ended, or a message begins.
LEMMA ContinueOwing ==
    ASSUME CallStack, Owing, response_continued
    PROVE  Owing'
<1>1. /\ control.step = "returned" /\ frames # <<>> /\ Frame.kind = "response"
      /\ frames' = [frames EXCEPT ![Len(frames)].data =
                      IF control.data = Nothing THEN @ ELSE control.data]
      /\ control' = Proceed /\ UNCHANGED stores
  BY DEF response_continued, AtFrame
<1> DEFINE f == [Frame EXCEPT !.data = IF control.data = Nothing THEN @ ELSE control.data]
<1>2. /\ frames \in Seq(FrameType) /\ Frame \in FrameType /\ Len(frames) \in DOMAIN frames
      /\ Frame = frames[Len(frames)] /\ stores \in Seq(OwedStore)
      /\ control.data \in Contracts \cup {Nothing}
      /\ Store.history.owed = Pending(frames, Len(frames)) + 0
  BY <1>1, CallStackFacts, ControlParts DEF CallStack, Frame, Owing, Failed
<1>3. frames' = [frames EXCEPT ![Len(frames)] = f]
  BY <1>1, <1>2
<1>4. f \in FrameType /\ f.kind = Frame.kind /\ Weight(f) = Weight(Frame)
  BY <1>1, <1>2 DEF FrameType, Weight
<1> HIDE DEF f
<1> DEFINE gr == [frames EXCEPT ![Len(frames)] = f]
<1>5. Settles(stores', gr) /\ Pending(gr, Len(gr)) = Pending(frames, Len(frames))
  BY <1>1, <1>4, ChangedOwing
<1> HIDE DEF gr
<1>6. frames' = gr
  BY <1>3 DEF gr
<1>7. Store' = Store /\ control'.step # "reply"
  BY <1>1 DEF Store, Top, Proceed
<1>8. QED
  BY <1>1, <1>2, <1>5, <1>6, <1>7 DEF Owing

LEMMA ResponseEndsOwing ==
    ASSUME CallStack, Owing, response_failed \/ response_done
    PROVE  Owing'
<1>1. /\ frames # <<>> /\ Frame.kind = "response" /\ frames' = Below
      /\ UNCHANGED stores
  BY DEF response_failed, response_done, AtFrame
<1>2. /\ stores' \in Seq(OwedStore) /\ Store' = Store
  BY <1>1 DEF Owing, Store, Top
<1>3. /\ Settles(stores', Below) /\ Pending(Below, Len(Below)) \in Nat
      /\ Pending(frames, Len(frames)) = Pending(Below, Len(Below)) + Weight(Frame)
  BY <1>1, PoppedOwing
<1>4. CASE response_failed
  <2>1. control' = Failed
    BY <1>4 DEF response_failed, CallStack, ControlType, Idle, Proceed, Failed
  <2>2. QED
    BY <1>1, <1>2, <1>3, <2>1 DEF Owing
<1>5. CASE response_done
  <2>1. Weight(Frame) = 0
    BY <1>1, <1>5 DEF response_done, Weight
  <2>2. Store.history.owed = Pending(frames, Len(frames)) + 0
    BY <1>5 DEF response_done, Owing, Proceed, Failed
  <2>3. control'.step # "reply"
    BY <1>5 DEF response_done, Returned
  <2>4. Store'.history.owed = Pending(Below, Len(Below)) + 0
    BY <1>2, <1>3, <2>1, <2>2
  <2>5. QED
    BY <1>1, <1>2, <1>3, <2>3, <2>4 DEF Owing
<1>6. QED
  BY <1>4, <1>5

LEMMA NextMessageOwing ==
    ASSUME CallStack, Owing, next_message
    PROVE  Owing'
<1>1. /\ control.step \in {"proceed", "returned"} /\ frames # <<>> /\ Frame.kind = "app"
      /\ frames' = [frames EXCEPT ![1].begun = @ + 1]
      /\ control' = Executing(Frame.sender, Frame.msgs[Frame.begun + 1])
      /\ UNCHANGED stores
  BY DEF next_message, AtFrame
<1>2. /\ frames \in Seq(FrameType) /\ Frame \in FrameType /\ Len(frames) = 1
      /\ Frame = frames[1] /\ stores \in Seq(OwedStore) /\ Frame.begun \in Nat
      /\ Store.history.owed = Pending(frames, Len(frames)) + 0
  <2>1. frames \in Seq(FrameType) /\ Frame \in FrameType /\ Len(frames) = 1
    BY <1>1, CallStackFacts DEF CallStack
  <2>2. Frame = frames[1] /\ Frame.begun \in Nat
    BY <1>1, <2>1, FrameParts DEF Frame
  <2>3. control # Failed /\ control.step # "reply"
    BY <1>1 DEF Failed
  <2>4. QED
    BY <2>1, <2>2, <2>3 DEF Owing
<1> DEFINE begun == Frame.begun + 1
           f == [Frame EXCEPT !.begun = begun]
<1>3. frames' = [frames EXCEPT ![Len(frames)] = f] /\ begun \in Nat
  BY <1>1, <1>2
<1> HIDE DEF begun
<1>4. f \in FrameType /\ f.kind = Frame.kind /\ Weight(f) = Weight(Frame)
  BY <1>1, <1>2, <1>3 DEF FrameType, Weight
<1> HIDE DEF f
<1> DEFINE gr == [frames EXCEPT ![Len(frames)] = f]
<1>5. Settles(stores', gr) /\ Pending(gr, Len(gr)) = Pending(frames, Len(frames))
  BY <1>1, <1>4, ChangedOwing
<1> HIDE DEF gr
<1>6. frames' = gr
  BY <1>3 DEF gr
<1>7. Store' = Store /\ control'.step # "reply"
  BY <1>1 DEF Store, Top, Executing
<1>8. QED
  BY <1>1, <1>2, <1>5, <1>6, <1>7 DEF Owing

\* A transaction, committed or dropped, leaves nothing owed.
LEMMA AppEndsOwing ==
    ASSUME CallStack, Owing, app_succeeded \/ app_failed
    PROVE  Owing'
<1>1. /\ frames # <<>> /\ Frame.kind = "app" /\ frames' = Below /\ control' = Idle
      /\ \/ stores' = Committed(Store) /\ control.step \in {"proceed", "returned"}
         \/ stores' = Dropped
  BY DEF app_succeeded, app_failed, AtFrame
<1>2. /\ stores \in Seq(OwedStore) /\ Store \in OwedStore /\ Settles(stores, frames)
      /\ Len(frames) = 1 /\ Opens(Frame) /\ Weight(Frame) = 0 /\ frames \in Seq(FrameType)
      /\ Frame = frames[1] /\ Frame \in FrameType /\ Top \in Nat /\ Top >= 2
  <2>1. /\ frames \in Seq(FrameType) /\ Frame \in FrameType /\ Len(frames) = 1
        /\ Top \in Nat \ {0} /\ Top >= 2
    BY <1>1, CallStackFacts DEF CallStack
  <2>2. Frame = frames[1] /\ Opens(Frame) /\ Weight(Frame) = 0
    BY <1>1, <2>1 DEF Frame, Opens, Weight
  <2>3. stores \in Seq(OwedStore) /\ Settles(stores, frames)
    BY DEF Owing
  <2>4. Store \in OwedStore
    BY <2>1, <2>3 DEF Store, Top
  <2>5. QED
    BY <2>1, <2>2, <2>3, <2>4
<1>3. Pending(frames, 1) = 0
  <2>0. 1 \in 1 .. Len(frames)
    BY <1>2
  <2>1. Pending(frames, 1) = Pending(frames, 1 - 1) + Weight(frames[1])
    BY <1>2, <2>0, PendingNext
  <2>2. Pending(frames, 1 - 1) = 0
    BY PendingZero
  <2>3. QED
    BY <1>2, <2>1, <2>2
<1>4. Top = 2
  <2>1. Level(frames, 1) = Level(frames, 1 - 1) + IF Opens(frames[1]) THEN 1 ELSE 0
    BY LevelNext
  <2>2. Level(frames, 1 - 1) = 1
    BY LevelZero
  <2>3. QED
    BY <1>2, <2>1, <2>2 DEF CallStack
<1>5. stores[1].history.owed = 0
  <2>1. Level(frames, 1 - 1) = 1
    BY LevelZero
  <2>2. stores[Level(frames, 1 - 1)].history.owed = Pending(frames, 1)
    BY <1>2 DEF Settles
  <2>3. QED
    BY <1>3, <2>1, <2>2
<1>6. frames' = <<>> /\ control'.step # "reply"
  BY <1>1, <1>2, BelowFrames DEF Idle
<1>7. stores' \in Seq(OwedStore) /\ Store'.history.owed = 0
  <2>1. CASE stores' = Committed(Store) /\ control.step \in {"proceed", "returned"}
    <3>1. stores' \in Seq(OwedStore) /\ Len(stores') = Top - 1 /\ stores'[Top - 1] = Store
      BY <1>2, <2>1, CommittedStores
    <3>2. Store.history.owed = 0
      BY <1>2, <1>3, <2>1 DEF Owing, Failed
    <3>3. QED
      BY <1>4, <3>1, <3>2 DEF Store, Top
  <2>2. CASE stores' = Dropped
    <3>1. stores' \in Seq(OwedStore) /\ Len(stores') = Top - 1 /\ stores'[1] = stores[1]
      BY <1>2, <1>4, <2>2, DroppedStores
    <3>2. QED
      BY <1>4, <1>5, <3>1 DEF Store, Top
  <2>3. QED
    BY <1>1, <2>1, <2>2
<1>8. Settles(stores', frames') /\ Pending(frames', Len(frames')) = 0
  BY <1>6, PendingZero DEF Settles
<1>9. QED
  BY <1>6, <1>7, <1>8 DEF Owing

LEMMA InitOwing ==
    ASSUME Init
    PROVE  Owing
<1>1. /\ stores \in Seq(GoodStore) /\ Top = 1 /\ Store.history.owed = 0
      /\ frames = <<>> /\ control = Idle /\ Store = stores[1]
  BY InitCallStack, CallStackFacts DEF Init, CallStack, Store, Top
<1>2. stores \in Seq(OwedStore)
  <2>1. Len(stores) = 1 /\ stores \in Seq(GoodStore)
    BY <1>1 DEF Top
  <2>2. stores[1] \in GoodStore
    BY <2>1
  <2>3. stores[1].history.owed = 0
    BY ONLY <1>1
  <2>4. stores[1] \in OwedStore
    BY <2>2, <2>3 DEF OwedStore
  <2>5. stores = <<stores[1]>>
    BY ONLY <2>1
  <2> DEFINE base == stores[1]
  <2> HIDE DEF base
  <2>6. <<base>> \in Seq(OwedStore)
    BY <2>4 DEF base
  <2>7. QED
    BY <2>5, <2>6 DEF base
<1>3. Settles(stores, frames) /\ Pending(frames, Len(frames)) = 0
  BY <1>1, PendingZero DEF Settles
<1>4. QED
  BY <1>1, <1>2, <1>3 DEF Owing, Idle

\* Every step keeps the accounts.
LEMMA NextOwing ==
    ASSUME ResponsesAreTyped, CallStack, Owing, [Next]_vars
    PROVE  Owing'
<1>1. CASE UNCHANGED vars
  BY <1>1 DEF vars, Owing, Store, Top
<1>2. CASE execute_multi \/ wasm_sudo
  BY <1>2, StartCases, StartOwing
<1>3. CASE Message \/ reply \/ call_sudo
  <2>1. PICK from \in Accounts, outlay \in Nat, contracts \in SUBSET Contracts,
             answered \in {0, 1} :
               /\ Effect(Store, from, outlay, contracts, answered)
               /\ answered = IF control.step = "reply" THEN 1 ELSE 0
    BY <1>3, EffectCases
  <2>2. frames # <<>> /\ control # Failed
    BY <1>3, EffectCases
  <2>3. CallStack'
    BY NextCallStack
  <2>4. QED
    BY <2>1, <2>2, <2>3, EffectOwing
<1>4. QED
  BY <1>1, <1>2, <1>3, MintOwing, SubmsgOwing, SubmsgEndsOwing, ContinueOwing,
     ResponseEndsOwing, NextMessageOwing, AppEndsOwing
     DEF Next, Start, Run, Submessage

\* So the accounts are right in every state.
THEOREM OwingInvariant ==
    ASSUME ResponsesAreTyped
    PROVE  Spec => [](CallStack /\ Owing)
<1>1. Init => CallStack /\ Owing
  BY InitCallStack, InitOwing
<1>2. CallStack /\ Owing /\ [Next]_vars => (CallStack /\ Owing)'
  BY NextCallStack, NextOwing
<1>3. QED
  BY <1>1, <1>2, PTL DEF Spec

\* Whatever a transaction leaves, each submessage of the responses that count was
\* carried out or its failure answered (wasm.rs execute_submsg, process_response).
THEOREM NothingIsOwed ==
    ASSUME ResponsesAreTyped
    PROVE  Spec => []NothingOwed
<1>1. ASSUME CallStack, Owing
      PROVE  NothingOwed
  <2>1. CASE frames = <<>>
    <3>1. control = Idle /\ Top = 1
      BY <1>1, <2>1, CallStackFacts DEF CallStack, WaitsOn
    <3>2. Store.history.owed = Pending(frames, Len(frames)) + 0
      BY <1>1, <3>1 DEF Owing, Idle, Failed
    <3>3. QED
      BY <2>1, <3>1, <3>2, PendingZero DEF NothingOwed, Base, Store
  <2>2. CASE frames # <<>>
    <3>1. frames \in Seq(FrameType) /\ Stacked(frames) /\ Settles(stores, frames)
      BY <1>1 DEF CallStack, Owing
    <3>2. 1 \in DOMAIN frames /\ 1 \in 1 .. Len(frames)
      BY <2>2, <3>1
    <3>3. frames[1].kind = "app"
      BY <3>1, <3>2 DEF Stacked
    <3>4. Opens(frames[1]) /\ Weight(frames[1]) = 0
      BY <3>3 DEF Opens, Weight
    <3>5. Level(frames, 1 - 1) = 1 /\ Pending(frames, 1 - 1) = 0
      BY LevelZero, PendingZero
    <3>6. stores[Level(frames, 1 - 1)].history.owed = Pending(frames, 1)
      BY <3>1, <3>2, <3>4 DEF Settles
    <3>7. Pending(frames, 1) = Pending(frames, 1 - 1) + Weight(frames[1])
      BY <3>1, <3>2, PendingNext
    <3>8. QED
      BY <3>4, <3>5, <3>6, <3>7 DEF NothingOwed, Base
  <2>3. QED
    BY <2>1, <2>2
<1>2. CallStack /\ Owing => NothingOwed
  BY <1>1
<1>3. QED
  BY <1>2, OwingInvariant, PTL

\* Every part of every storage has its type, and there are as many storages as
\* transactionals: none is left open, and none ends twice.
THEOREM TypeCorrect ==
    ASSUME ResponsesAreTyped
    PROVE  Spec => []TypeOK
<1>1. ASSUME CallStack, Owing
      PROVE  TypeOK
  <2>1. OwedStore \subseteq StoreType
    BY DEF OwedStore, GoodStore, CoreStore, Numbers, Numbered, StoreType
  <2>2. stores \in Seq(StoreType)
    <3>1. stores \in Seq(OwedStore)
      BY <1>1 DEF Owing
    <3>2. QED
      BY <2>1, <3>1
  <2>3. frames \in Seq(FrameType)
    BY <1>1 DEF CallStack
  <2>4. DOMAIN frames = 1 .. Len(frames)
    BY <2>3
  <2>5. Top = 1 + Cardinality({n \in DOMAIN frames : Opens(frames[n])})
    BY <1>1, <2>4 DEF CallStack, Level
  <2>6. QED
    BY <1>1, <2>2, <2>3, <2>5 DEF CallStack, WaitsOn, TypeOK
<1>2. CallStack /\ Owing => TypeOK
  BY <1>1
<1>3. QED
  BY <1>2, OwingInvariant, PTL

-----------------------------------------------------------------------------
(* The steps as a signer sees them: what he signed, what he has been       *)
(* charged so far, and who governs the contracts.                          *)

\* What the first messages may take from who signed them.
Due(msgs, n) == SumUpTo([i \in DOMAIN msgs |-> Outlay(msgs[i])], n)

\* How many messages may have taken something; the one that is about to has not.
Paid(fr, c) ==
    IF c.step = "execute" /\ Len(fr) = 1 THEN fr[1].begun - 1 ELSE fr[1].begun

Limit(fr, c, user) == IF user = fr[1].sender THEN Due(fr[1].msgs, Paid(fr, c)) ELSE 0

\* In no storage has a user paid more than that.
Spending ==
    frames # <<>> =>
      \A n \in DOMAIN stores, user \in Users :
        Base.balances[user] - stores[n].balances[user] <= Limit(frames, control, user)

Governed(before, after, signer) ==
    /\ after \in ContractData /\ after.admin = before.admin
    /\ after # before => before.admin \in Contracts \cup {signer}

\* In no storage has a contract of the app left its admin.
Administered ==
    frames # <<>> =>
      \A n \in DOMAIN stores, address \in Registered(Base) :
        Governed(Base.contracts[address], stores[n].contracts[address], frames[1].sender)

\* Nothing was spent or migrated between two storages.
Same(one, other) == one.balances = other.balances /\ one.contracts = other.contracts

\* A step between two messages of a transaction: each storage is one there was.
Carried ==
    /\ frames # <<>> /\ frames' # <<>>
    /\ \A n \in DOMAIN stores' : \E m \in DOMAIN stores : Same(stores'[n], stores[m])
    /\ Same(stores'[1], stores[1])
    /\ frames'[1].sender = frames[1].sender /\ frames'[1].msgs = frames[1].msgs
    /\ Paid(frames', control') = Paid(frames, control)

LEMMA DueZero == ASSUME NEW msgs PROVE Due(msgs, 0) = 0
BY SumUpToZero DEF Due

LEMMA OutlayType == ASSUME NEW m \in CosmosMsg PROVE Outlay(m) \in Nat
BY MessageParts DEF Outlay, Funds

\* Each message adds what it takes.
LEMMA DueNext ==
    ASSUME NEW msgs \in Seq(CosmosMsg), NEW n \in 1 .. Len(msgs)
    PROVE  /\ Due(msgs, n - 1) \in Nat
           /\ Due(msgs, n) = Due(msgs, n - 1) + Outlay(msgs[n])
<1> DEFINE f == [i \in DOMAIN msgs |-> Outlay(msgs[i])]
<1>1. /\ n \in Nat \ {0} /\ n - 1 \in Nat /\ f[n] = Outlay(msgs[n])
      /\ \A i \in 1 .. n : f[i] \in Nat
  BY OutlayType
<1>2. \A i \in 1 .. n - 1 : f[i] \in Nat
  BY <1>1
<1> HIDE DEF f
<1>3. SumUpTo(f, n) = SumUpTo(f, n - 1) + f[n]
  BY <1>1, SumUpToNext
<1>4. SumUpTo(f, n - 1) \in Nat
  BY <1>1, <1>2, SumUpToNatural
<1>5. QED
  BY <1>1, <1>3, <1>4 DEF Due, f

LEMMA DueType ==
    ASSUME NEW msgs \in Seq(CosmosMsg), NEW n \in 0 .. Len(msgs)
    PROVE  Due(msgs, n) \in Nat
<1> DEFINE f == [i \in DOMAIN msgs |-> Outlay(msgs[i])]
<1>1. n \in Nat /\ \A i \in 1 .. n : f[i] \in Nat
  BY OutlayType
<1> HIDE DEF f
<1>2. SumUpTo(f, n) \in Nat
  BY <1>1, SumUpToNatural
<1>3. QED
  BY <1>2 DEF Due, f

\* A transaction is at the bottom of the stack, in a storage above the app's.
LEMMA FirstFrame ==
    ASSUME NEW fr \in Seq(FrameType), Stacked(fr), fr # <<>>
    PROVE  /\ Len(fr) \in Nat \ {0} /\ 1 \in DOMAIN fr /\ fr[1] \in FrameType
           /\ fr[1].kind = "app" /\ Signed(fr[1]) /\ Level(fr, Len(fr)) >= 2
           /\ fr[1].msgs \in Seq(CosmosMsg) /\ fr[1].begun \in 0 .. Len(fr[1].msgs)
           /\ fr[1].sender \in Accounts \cup {Nothing}
<1>1. Len(fr) \in Nat \ {0} /\ 1 \in DOMAIN fr /\ fr[1] \in FrameType
  OBVIOUS
<1>2. fr[1].kind = "app" /\ Signed(fr[1])
  BY <1>1 DEF Stacked
<1>3. Opens(fr[1])
  BY <1>2 DEF Opens
<1> DEFINE k == Len(fr)
<1>4. k \in Nat /\ 1 <= k /\ 1 \in Nat \ {0}
  BY <1>1
<1> HIDE DEF k
<1>5. Level(fr, 1 - 1) + 1 <= Level(fr, k)
  BY <1>3, <1>4, LevelGrowsPast
<1>6. Level(fr, 1 - 1) = 1 /\ Level(fr, k) \in Nat
  <2>1. Level(fr, k) \in Nat
    BY <1>4, LevelType
  <2>2. QED
    BY <2>1, LevelZero
<1>7. fr[1].msgs \in Seq(CosmosMsg) /\ fr[1].begun \in 0 .. Len(fr[1].msgs)
      /\ fr[1].sender \in Accounts \cup {Nothing}
  BY <1>1, <1>2, FrameParts DEF Signed
<1>8. QED
  BY <1>1, <1>2, <1>5, <1>6, <1>7 DEF k

\* Storages that are begun, committed inside the transaction, or dropped there.
LEMMA StoresCarried ==
    ASSUME stores \in Seq(GoodStore), Top \in Nat \ {0},
           \/ stores' = stores
           \/ stores' = Append(stores, Store)
           \/ Top >= 3 /\ stores' = Dropped
           \/ Top >= 3 /\ \E s \in GoodStore : stores' = Committed(s) /\ Same(s, Store)
    PROVE  /\ \A n \in DOMAIN stores' : \E m \in DOMAIN stores : Same(stores'[n], stores[m])
           /\ Same(stores'[1], stores[1])
<1>1. /\ DOMAIN stores = 1 .. Top /\ Top \in DOMAIN stores /\ 1 \in DOMAIN stores
      /\ Store = stores[Top]
  BY DEF Top, Store
<1>2. \A s : Same(s, s)
  BY DEF Same
<1>3. Store \in GoodStore
  BY <1>1
<1>4. CASE stores' = stores
  BY <1>1, <1>2, <1>4
<1>5. CASE stores' = Append(stores, Store)
  <2>1. /\ stores' \in Seq(GoodStore) /\ Len(stores') = Top + 1 /\ stores'[Top + 1] = Store
        /\ \A n \in 1 .. Top : stores'[n] = stores[n]
    BY <1>3, <1>5, OpenedStores
  <2>2. \A n \in DOMAIN stores' : n \in 1 .. Top \/ n = Top + 1
    BY <2>1
  <2>3. QED
    BY <1>1, <1>2, <2>1, <2>2
<1>6. CASE Top >= 3 /\ stores' = Dropped
  <2>1. /\ stores' \in Seq(GoodStore) /\ Len(stores') = Top - 1
        /\ \A n \in 1 .. Top - 1 : stores'[n] = stores[n]
    BY <1>6, DroppedStores
  <2>2. \A n \in DOMAIN stores' : n \in DOMAIN stores /\ n \in 1 .. Top - 1
    BY <1>1, <2>1
  <2>3. 1 \in 1 .. Top - 1
    BY <1>6
  <2>4. QED
    BY <1>2, <2>1, <2>2, <2>3
<1>7. ASSUME NEW s \in GoodStore, Top >= 3, stores' = Committed(s), Same(s, Store)
      PROVE  /\ \A n \in DOMAIN stores' : \E m \in DOMAIN stores : Same(stores'[n], stores[m])
             /\ Same(stores'[1], stores[1])
  <2>1. /\ stores' \in Seq(GoodStore) /\ Len(stores') = Top - 1 /\ stores'[Top - 1] = s
        /\ \A n \in 1 .. Top - 2 : stores'[n] = stores[n]
    <3>1. Top \in Nat /\ Top >= 2
      BY <1>7
    <3>2. QED
      BY <1>7, <3>1, CommittedStores
  <2>2. \A n \in DOMAIN stores' : n = Top - 1 \/ (n \in 1 .. Top - 2 /\ n \in DOMAIN stores)
    BY <1>1, <2>1
  <2>3. 1 \in 1 .. Top - 2
    BY <1>7
  <2>4. QED
    BY <1>1, <1>2, <1>7, <2>1, <2>2, <2>3
<1>8. QED
  BY <1>4, <1>5, <1>6, <1>7

\* Between messages nothing is paid, and no step of a submessage is one of the signer's.
LEMMA InnerStep ==
    ASSUME CallStack,
           execute_submsg \/ submsg_succeeded \/ submsg_failed \/ response_continued
             \/ response_failed \/ response_done
    PROVE  Carried
<1>1. /\ frames # <<>> /\ Frame.kind \in {"submsg", "response"}
      /\ control.step \in {"proceed", "returned", "failed"}
  <2>1. Proceed.step = "proceed"
    BY DEF Proceed
  <2>2. CASE execute_submsg \/ response_done
    BY <2>1, <2>2 DEF execute_submsg, response_done, AtFrame
  <2>3. CASE submsg_succeeded \/ submsg_failed
    BY <2>3 DEF submsg_succeeded, submsg_failed, AtFrame
  <2>4. CASE response_continued \/ response_failed
    BY <2>4 DEF response_continued, response_failed, AtFrame
  <2>5. QED
    BY <2>2, <2>3, <2>4
<1>2. /\ stores \in Seq(GoodStore) /\ Top \in Nat \ {0} /\ Store \in GoodStore
      /\ frames \in Seq(FrameType) /\ Stacked(frames)
      /\ Len(frames) \in Nat \ {0, 1} /\ Frame \in FrameType
  BY <1>1, CallStackFacts DEF CallStack
<1>3. /\ frames' # <<>> /\ frames'[1] = frames[1]
      /\ execute_submsg => Len(frames') # 1
  <2>1. CASE frames' = Below /\ ~execute_submsg
    <3>1. Below # <<>> /\ Len(frames) - 1 \in Nat \ {0}
      BY <1>1, UnderTop
    <3>2. Below[1] = frames[1]
      BY <1>1, <1>2, <3>1, BelowFrames
    <3>3. QED
      BY <2>1, <3>1, <3>2
  <2>2. CASE response_continued /\ ~execute_submsg
    BY <1>2, <2>2 DEF response_continued
  <2>3. CASE execute_submsg
    <3> DEFINE f == SubmsgFrame(Frame.contract, Head(Frame.msgs).reply_on)
               rest == [Frame EXCEPT !.msgs = Tail(@)]
    <3>1. frames' = Append([frames EXCEPT ![Len(frames)] = rest], f)
      BY <2>3 DEF execute_submsg, Frame
    <3>2. Frame.kind = "response" /\ Frame.msgs # <<>>
      BY <2>3 DEF execute_submsg, AtFrame
    <3>3. Frame.msgs \in Seq(SubMsg)
      BY <1>2, <3>2, FrameParts
    <3>4. Tail(Frame.msgs) \in Seq(SubMsg)
      BY <3>2, <3>3
    <3>5. rest \in FrameType
      BY <1>2, <3>2, <3>4 DEF FrameType
    <3> HIDE DEF f, rest
    <3> DEFINE fr == [frames EXCEPT ![Len(frames)] = rest]
    <3>6. fr \in Seq(FrameType) /\ fr[1] = frames[1] /\ Len(fr) = Len(frames)
      BY <1>2, <3>5
    <3>7. frames' = Append(fr, f)
      BY <3>1
    <3> HIDE DEF fr
    <3>8. QED
      BY <1>2, <3>6, <3>7
  <2>4. QED
    <3>1. ASSUME ~execute_submsg, ~response_continued
          PROVE  frames' = Below
      BY <3>1 DEF submsg_succeeded, submsg_failed, response_failed, response_done
    <3>2. QED
      BY <2>1, <2>2, <2>3, <3>1
<1>4. Paid(frames', control') = Paid(frames, control)
  <2>1. CASE execute_submsg
    <3>1. QED
      BY <1>1, <1>3, <2>1 DEF Paid
  <2>2. CASE ~execute_submsg
    <3>1. control'.step # "execute"
      BY <1>1, <2>2 DEF submsg_succeeded, submsg_failed, response_continued, response_failed,
         response_done, Replying, Returned, Failed, Proceed, DataWithoutReply,
         FailureWithoutReply
    <3>2. QED
      BY <1>1, <1>3, <3>1 DEF Paid
  <2>3. QED
    BY <2>1, <2>2
<1>5. /\ \A n \in DOMAIN stores' : \E m \in DOMAIN stores : Same(stores'[n], stores[m])
      /\ Same(stores'[1], stores[1])
  <2>1. CASE submsg_succeeded \/ submsg_failed
    <3>1. Frame.kind = "submsg"
      BY <2>1 DEF submsg_succeeded, submsg_failed, AtFrame
    <3>2. Opens(Frame)
      BY <3>1 DEF Opens
    <3>3. Top - 1 = Level(Below, Len(Below)) /\ Below \in Seq(FrameType) /\ Below # <<>>
          /\ Stacked(Below)
      BY <1>1, <3>2, UnderTop
    <3>4. Top >= 3
      BY <1>2, <3>3, FirstFrame
    <3>5. Same(Store, Store) /\ Same(Settled(Store), Store) /\ Settled(Store) \in GoodStore
      BY <1>2, SettledStore DEF Same
    <3>6. stores' \in {Committed(Store), Committed(Settled(Store)), Dropped}
      BY <2>1 DEF submsg_succeeded, submsg_failed
    <3>7. QED
      BY <1>2, <3>4, <3>5, <3>6, StoresCarried
  <2>2. CASE ~(submsg_succeeded \/ submsg_failed)
    <3>1. stores' = stores \/ stores' = Append(stores, Store)
      BY <2>2 DEF execute_submsg, response_continued, response_failed, response_done
    <3>2. QED
      BY <1>2, <3>1, StoresCarried
  <2>3. QED
    BY <2>1, <2>2
<1>6. QED
  BY <1>1, <1>3, <1>4, <1>5 DEF Carried

\* A message that begins is not paid for yet.
LEMMA NextMessageCarried ==
    ASSUME CallStack, next_message
    PROVE  Carried
<1>1. /\ control.step \in {"proceed", "returned"} /\ frames # <<>> /\ Frame.kind = "app"
      /\ frames' = [frames EXCEPT ![1].begun = @ + 1]
      /\ control'.step = "execute"
      /\ UNCHANGED stores
  BY DEF next_message, AtFrame, Executing
<1>2. /\ stores \in Seq(GoodStore) /\ Top \in Nat \ {0}
      /\ frames \in Seq(FrameType) /\ Stacked(frames) /\ Len(frames) = 1
  BY <1>1, CallStackFacts DEF CallStack
<1>3. frames[1] \in FrameType /\ frames[1].kind = "app" /\ frames[1].begun \in Nat
  BY <1>1, <1>2, FirstFrame
<1> DEFINE begun == frames[1].begun + 1
           f == [frames[1] EXCEPT !.begun = begun]
<1>4. /\ frames' = [frames EXCEPT ![1] = f] /\ begun - 1 = frames[1].begun
      /\ begun \in Nat
  BY <1>1, <1>2, <1>3
<1> HIDE DEF begun
<1>5. /\ f.begun = begun /\ f.sender = frames[1].sender /\ f.msgs = frames[1].msgs
      /\ f \in FrameType
  BY <1>3, <1>4 DEF FrameType
<1> HIDE DEF f
<1>6. frames' # <<>> /\ Len(frames') = 1 /\ frames'[1] = f
  BY <1>2, <1>4, <1>5
<1>7. Paid(frames', control') = Paid(frames, control)
  BY <1>1, <1>4, <1>5, <1>6 DEF Paid
<1>8. /\ \A n \in DOMAIN stores' : \E m \in DOMAIN stores : Same(stores'[n], stores[m])
      /\ Same(stores'[1], stores[1])
  BY <1>1, <1>2, StoresCarried
<1>9. QED
  BY <1>1, <1>5, <1>6, <1>7, <1>8 DEF Carried

LEMMA CarriedSpending ==
    ASSUME Spending, Carried
    PROVE  Spending'
<1>1. /\ frames # <<>>
      /\ \A n \in DOMAIN stores' : \E m \in DOMAIN stores : Same(stores'[n], stores[m])
      /\ Base'.balances = Base.balances
  BY DEF Carried, Same, Base
<1>2. \A user : Limit(frames', control', user) = Limit(frames, control, user)
  BY DEF Carried, Limit
<1>3. ASSUME NEW n \in DOMAIN stores', NEW user \in Users
      PROVE  Base'.balances[user] - stores'[n].balances[user] <= Limit(frames', control', user)
  <2>1. PICK m \in DOMAIN stores : stores'[n].balances = stores[m].balances
    BY <1>1 DEF Same
  <2>2. Base.balances[user] - stores[m].balances[user] <= Limit(frames, control, user)
    BY <1>1 DEF Spending
  <2>3. QED
    BY <1>1, <1>2, <2>1, <2>2
<1>4. QED
  BY <1>3 DEF Spending

LEMMA CarriedAdministered ==
    ASSUME Administered, Carried
    PROVE  Administered'
<1>1. /\ frames # <<>>
      /\ \A n \in DOMAIN stores' : \E m \in DOMAIN stores : Same(stores'[n], stores[m])
      /\ Base'.contracts = Base.contracts /\ frames'[1].sender = frames[1].sender
  BY DEF Carried, Same, Base
<1>2. Registered(Base)' = Registered(Base)
  BY <1>1 DEF Registered, IsContract
<1>3. ASSUME NEW n \in DOMAIN stores', NEW address \in Registered(Base)
      PROVE  Governed(Base'.contracts[address], stores'[n].contracts[address],
                      frames'[1].sender)
  <2>1. PICK m \in DOMAIN stores : stores'[n].contracts = stores[m].contracts
    BY <1>1 DEF Same
  <2>2. Governed(Base.contracts[address], stores[m].contracts[address], frames[1].sender)
    BY <1>1 DEF Administered
  <2>3. QED
    BY <1>1, <2>1, <2>2
<1>4. QED
  BY <1>2, <1>3 DEF Administered

\* Nobody but who pays loses anything, and he no more than he pays.
LEMMA BalanceLoss ==
    ASSUME NEW old \in CoreStore, NEW new \in CoreStore, NEW from \in Accounts,
           NEW outlay \in Nat, BalanceStep(old, new, from, outlay), NEW user \in Accounts
    PROVE  old.balances[user] - new.balances[user] <= IF user = from THEN outlay ELSE 0
<1> DEFINE balances == old.balances
<1>1. balances \in [Accounts -> Nat] /\ new.balances \in [Accounts -> Nat]
  BY DEF CoreStore
<1>2. CASE new.balances = balances
  BY <1>1, <1>2
<1>3. CASE \E to \in Accounts : new.balances = send(balances, from, to, outlay)
  <2>1. PICK to \in Accounts : new.balances = mint(burn(balances, from, outlay), to, outlay)
    BY <1>3 DEF send
  <2> DEFINE burnt == burn(balances, from, outlay)
  <2>2. burnt = [balances EXCEPT ![from] = @ - outlay] /\ burnt \in [Accounts -> Int]
    BY <1>1 DEF burn
  <2> HIDE DEF balances
  <2>3. /\ burnt[user] = IF user = from THEN balances[user] - outlay ELSE balances[user]
        /\ burnt[user] \in Int
    BY <1>1, <2>2
  <2> HIDE DEF burnt
  <2>4. new.balances[user] = IF user = to THEN burnt[user] + outlay ELSE burnt[user]
    BY <2>1, <2>2 DEF mint, burnt
  <2>5. balances[user] \in Nat
    BY <1>1
  <2>6. QED
    BY <2>3, <2>4, <2>5 DEF balances
<1>4. CASE new.balances = burn(balances, from, outlay)
  <2>1. new.balances = [balances EXCEPT ![from] = @ - outlay]
    BY <1>4 DEF burn
  <2> HIDE DEF balances
  <2>2. new.balances[user] = IF user = from THEN balances[user] - outlay ELSE balances[user]
    BY <1>1, <2>1
  <2>3. balances[user] \in Nat
    BY <1>1
  <2>4. QED
    BY <2>2, <2>3 DEF balances
<1>5. QED
  BY <1>2, <1>3, <1>4 DEF BalanceStep

\* What a message or call takes: of the signer's when it is one of his messages, else of
\* a contract's.
LEMMA EffectTaken ==
    ASSUME ResponsesAreTyped, CallStack, Message \/ reply \/ call_sudo
    PROVE  /\ frames # <<>> /\ frames' # <<>> /\ frames'[1] = frames[1]
           /\ control'.step # "execute"
           /\ \E new \in GoodStore, from \in Accounts, outlay \in Nat :
                /\ stores' = Written(new)
                /\ StoreStep(Store, new, from, outlay)
                /\ \/ /\ control.step = "execute" /\ Len(frames) = 1
                      /\ frames[1].begun # 0 /\ from = frames[1].sender
                      /\ outlay = Outlay(frames[1].msgs[frames[1].begun])
                   \/ ~(control.step = "execute" /\ Len(frames) = 1) /\ from \in Contracts
<1>1. frames # <<>>
  BY EffectCases
<1>2. /\ Store \in GoodStore /\ frames \in Seq(FrameType) /\ Stacked(frames)
      /\ Len(frames) \in Nat \ {0} /\ Frame \in FrameType
      /\ Frame.kind = "app" <=> Len(frames) = 1
  BY <1>1, CallStackFacts DEF CallStack
<1>3. PICK from \in Accounts, outlay \in Nat, contracts \in SUBSET Contracts,
           answered \in {0, 1} :
        /\ Effect(Store, from, outlay, contracts, answered)
        /\ \/ /\ control.step = "execute" /\ Frame.kind = "app" /\ Frame.begun # 0
              /\ from = Frame.sender /\ outlay = Outlay(Frame.msgs[Frame.begun])
           \/ Frame.kind # "app" /\ from = Frame.contract
           \/ /\ control.step = "sudo" /\ Frame.kind = "app"
              /\ from \in Contracts /\ outlay = 0
  BY EffectCases
<1>4. PICK new :
        /\ stores' = Written(new)
        /\ StoreStep(Store, new, from, outlay)
        /\ \/ Fails(Store, new)
           \/ Finishes(Store, new, answered)
           \/ Responds(Store, new, contracts, answered)
  BY <1>3 DEF Effect
<1>5. new \in GoodStore
  BY <1>2, <1>4, GoodStep
<1>6. frames' # <<>> /\ frames'[1] = frames[1] /\ control'.step # "execute"
  <2>1. CASE Fails(Store, new) \/ Finishes(Store, new, answered)
    BY <1>1, <2>1 DEF Fails, Finishes, Failed, Returned
  <2>2. CASE Responds(Store, new, contracts, answered)
    <3>1. PICK f : frames' = Append(frames, f) /\ control' = Proceed
      BY <2>2 DEF Responds
    <3>2. QED
      BY <1>2, <3>1 DEF Proceed
  <2>3. QED
    BY <1>4, <2>1, <2>2
<1>7. \/ /\ control.step = "execute" /\ Len(frames) = 1
         /\ frames[1].begun # 0 /\ from = frames[1].sender
         /\ outlay = Outlay(frames[1].msgs[frames[1].begun])
      \/ ~(control.step = "execute" /\ Len(frames) = 1) /\ from \in Contracts
  <2>1. CASE Frame.kind = "app"
    <3>1. Frame = frames[1] /\ Len(frames) = 1
      BY <1>2, <2>1 DEF Frame
    <3>2. QED
      BY <1>3, <2>1, <3>1
  <2>2. CASE Frame.kind # "app"
    <3>1. Frame.contract \in Contracts
      BY <1>2, <2>2, FrameParts
    <3>2. QED
      BY <1>2, <1>3, <2>2, <3>1
  <2>3. QED
    BY <2>1, <2>2
<1>8. QED
  BY <1>1, <1>4, <1>5, <1>6, <1>7

\* So a message or call keeps users within what they signed.
LEMMA EffectSpending ==
    ASSUME ResponsesAreTyped, CallStack, Spending, Message \/ reply \/ call_sudo
    PROVE  Spending'
<1>1. /\ frames # <<>> /\ frames' # <<>> /\ frames'[1] = frames[1]
      /\ control'.step # "execute"
  BY EffectTaken
<1>2. PICK new \in GoodStore, from \in Accounts, outlay \in Nat :
        /\ stores' = Written(new)
        /\ StoreStep(Store, new, from, outlay)
        /\ \/ /\ control.step = "execute" /\ Len(frames) = 1
              /\ frames[1].begun # 0 /\ from = frames[1].sender
              /\ outlay = Outlay(frames[1].msgs[frames[1].begun])
           \/ ~(control.step = "execute" /\ Len(frames) = 1) /\ from \in Contracts
  BY EffectTaken
<1>3. /\ stores \in Seq(GoodStore) /\ Store \in CoreStore /\ Top \in Nat /\ Top >= 2
      /\ frames \in Seq(FrameType) /\ Stacked(frames) /\ Base \in CoreStore
      /\ Store = stores[Top] /\ Top \in DOMAIN stores
  BY <1>1, CallStackFacts DEF CallStack, GoodStore, Store, Top
<1>4. /\ stores' \in Seq(GoodStore) /\ Len(stores') = Top /\ stores'[Top] = new
      /\ \A n \in 1 .. Top - 1 : stores'[n] = stores[n]
  BY <1>2, <1>3, WrittenStores
<1>5. Base' = Base
  BY <1>3, <1>4 DEF Base
<1> DEFINE begun == frames[1].begun
           msgs == frames[1].msgs
<1>6. /\ msgs \in Seq(CosmosMsg) /\ begun \in 0 .. Len(msgs)
      /\ frames[1].sender \in Accounts \cup {Nothing}
  BY <1>1, <1>3, FirstFrame
<1> HIDE DEF begun, msgs
<1> SUFFICES ASSUME NEW n \in DOMAIN stores', NEW user \in Users
             PROVE  Base.balances[user] - stores'[n].balances[user]
                      <= Limit(frames', control', user)
  BY <1>5 DEF Spending
<1> DEFINE paid == Limit(frames, control, user)
           loss == Store.balances[user] - new.balances[user]
           due == IF user = frames[1].sender THEN Due(msgs, begun) ELSE 0
<1>7. Limit(frames', control', user) = due
  BY <1>1 DEF Limit, Paid, msgs, begun
<1>8. user \in Accounts /\ user \notin Contracts
  BY RouterAssumption DEF Accounts
<1>9. loss <= IF user = from THEN outlay ELSE 0
  BY <1>2, <1>3, <1>8, BalanceLoss DEF StoreStep, GoodStore
<1>10. /\ paid \in Nat /\ due \in Nat /\ paid <= due
       /\ (IF user = from THEN outlay ELSE 0) <= due - paid
  <2>1. CASE ~(control.step = "execute" /\ Len(frames) = 1) /\ from \in Contracts
    <3>1. paid = due /\ user # from
      BY <1>8, <2>1 DEF Limit, Paid, msgs, begun
    <3>2. due \in Nat
      BY <1>6, DueType
    <3> HIDE DEF due, paid
    <3>3. QED
      BY <3>1, <3>2
  <2>2. CASE /\ control.step = "execute" /\ Len(frames) = 1
             /\ frames[1].begun # 0 /\ from = frames[1].sender
             /\ outlay = Outlay(frames[1].msgs[frames[1].begun])
    <3>1. paid = IF user = from THEN Due(msgs, begun - 1) ELSE 0
      BY <2>2 DEF Limit, Paid, msgs, begun
    <3>2. begun \in 1 .. Len(msgs)
      BY <1>6, <2>2 DEF begun
    <3>3. /\ Due(msgs, begun - 1) \in Nat
          /\ Due(msgs, begun) = Due(msgs, begun - 1) + outlay
      BY <1>6, <2>2, <3>2, DueNext DEF msgs, begun
    <3>4. due = IF user = from THEN Due(msgs, begun) ELSE 0
      BY <2>2
    <3> HIDE DEF due, paid
    <3>5. QED
      BY <3>1, <3>3, <3>4
  <2>3. QED
    BY <1>2, <2>1, <2>2
<1>11. \A m \in DOMAIN stores : Base.balances[user] - stores[m].balances[user] <= paid
  BY <1>1 DEF Spending
<1>12. /\ Base.balances[user] \in Nat /\ Store.balances[user] \in Nat
       /\ new.balances[user] \in Nat
  BY <1>2, <1>3, <1>8 DEF CoreStore, GoodStore
<1> HIDE DEF due, paid
<1>13. CASE n = Top
  <2> DEFINE base == Base.balances[user]
             old == Store.balances[user]
             left == new.balances[user]
  <2>1. base - old <= paid /\ stores'[n] = new
    BY <1>3, <1>4, <1>11, <1>13
  <2>2. base \in Nat /\ old \in Nat /\ left \in Nat /\ old - left <= due - paid
    BY <1>9, <1>10, <1>12
  <2> HIDE DEF base, old, left
  <2>3. base - left <= due
    BY <1>10, <2>1, <2>2
  <2>4. QED
    BY <1>7, <2>1, <2>3 DEF base, left
<1>14. CASE n \in 1 .. Top - 1
  <2>1. stores'[n] = stores[n] /\ n \in DOMAIN stores
    BY <1>3, <1>4, <1>14 DEF Top
  <2>2. stores[n].balances[user] \in Nat
    BY <1>3, <1>8, <2>1 DEF GoodStore, CoreStore
  <2> DEFINE base == Base.balances[user]
             left == stores[n].balances[user]
  <2>3. base \in Nat /\ left \in Nat /\ base - left <= paid
    BY <1>11, <1>12, <2>1, <2>2
  <2> HIDE DEF base, left
  <2>4. base - left <= due
    BY <1>10, <2>3
  <2>5. QED
    BY <1>7, <2>1, <2>4 DEF base, left
<1>15. QED
  BY <1>3, <1>4, <1>13, <1>14

\* And it migrates only what its sender is the admin of.
LEMMA EffectAdministered ==
    ASSUME ResponsesAreTyped, CallStack, Administered, Message \/ reply \/ call_sudo
    PROVE  Administered'
<1>1. /\ frames # <<>> /\ frames' # <<>> /\ frames'[1] = frames[1]
  BY EffectTaken
<1>2. PICK new \in GoodStore, from \in Accounts :
        /\ stores' = Written(new)
        /\ ContractStep(Store, new, from)
        /\ from = frames[1].sender \/ from \in Contracts
  <2>1. PICK new \in GoodStore, from \in Accounts, outlay \in Nat :
          /\ stores' = Written(new)
          /\ StoreStep(Store, new, from, outlay)
          /\ from = frames[1].sender \/ from \in Contracts
    BY EffectTaken
  <2>2. QED
    BY <2>1 DEF StoreStep
<1>3. /\ stores \in Seq(GoodStore) /\ Store \in GoodStore /\ Top \in Nat /\ Top >= 2
      /\ Store = stores[Top] /\ Top \in DOMAIN stores
  BY <1>1, CallStackFacts DEF CallStack, Store, Top
<1>4. /\ stores' \in Seq(GoodStore) /\ Len(stores') = Top /\ stores'[Top] = new
      /\ \A n \in 1 .. Top - 1 : stores'[n] = stores[n]
  BY <1>2, <1>3, WrittenStores
<1>5. Base' = Base /\ Registered(Base)' = Registered(Base)
  BY <1>3, <1>4 DEF Base, Registered, IsContract
<1> SUFFICES ASSUME NEW n \in DOMAIN stores', NEW address \in Registered(Base)
             PROVE  Governed(Base.contracts[address], stores'[n].contracts[address],
                             frames[1].sender)
  BY <1>1, <1>5 DEF Administered
<1> DEFINE before == Base.contracts[address]
           signer == frames[1].sender
           old == Store.contracts[address]
<1>6. \A m \in DOMAIN stores : Governed(before, stores[m].contracts[address], signer)
  BY <1>1 DEF Administered
<1>7. address \in Contracts
  BY DEF Registered
<1>8. CASE n = Top
  <2>1. Governed(before, old, signer)
    BY <1>3, <1>6
  <2>2. old \in ContractData /\ old.admin = before.admin
        /\ (old # before => before.admin \in Contracts \cup {signer})
    BY <2>1 DEF Governed
  <2>3. /\ address \in Registered(Store)
        /\ Store.contracts \in [Contracts -> ContractData \cup {Nothing}]
    BY <1>3, <1>7, <2>2, RouterAssumption DEF Registered, IsContract, GoodStore, CoreStore
  <2> DEFINE after == new.contracts[address]
  <2>4. after = old \/ /\ old.admin = from /\ \E code_id \in codes :
                           after = [old EXCEPT !.code_id = code_id]
    <3>1. CASE new.contracts = Store.contracts
      BY <3>1
    <3>2. CASE \E data \in ContractData :
                 new.contracts = [Store.contracts EXCEPT ![next_address(Store)] = data]
      <4>1. next_address(Store) = Store.history.instances
            /\ Registered(Store) = 0 .. Store.history.instances - 1
            /\ Store.history.instances \in Nat
        BY <1>3, NextIsNumber, RouterAssumption DEF GoodStore, Numbered
      <4>2. address # next_address(Store)
        BY <2>3, <4>1
      <4>3. QED
        BY <2>3, <3>2, <4>2, <1>7
    <3>3. CASE \E contract \in Registered(Store), code_id \in codes :
                 /\ Store.contracts[contract].admin = from
                 /\ new.contracts = [Store.contracts EXCEPT ![contract].code_id = code_id]
      <4>1. PICK contract \in Registered(Store), code_id \in codes :
                 /\ Store.contracts[contract].admin = from
                 /\ new.contracts = [Store.contracts EXCEPT ![contract].code_id = code_id]
        BY <3>3
      <4>2. CASE contract = address
        BY <1>7, <2>3, <4>1, <4>2
      <4>3. CASE contract # address
        BY <1>7, <2>3, <4>1, <4>3
      <4>4. QED
        BY <4>2, <4>3
    <3>4. QED
      BY <1>2, <3>1, <3>2, <3>3 DEF ContractStep
  <2>5. CASE after = old
    BY <1>4, <1>8, <2>1, <2>5
  <2>6. CASE /\ old.admin = from
             /\ \E code_id \in codes : after = [old EXCEPT !.code_id = code_id]
    <3>1. after \in ContractData /\ after.admin = old.admin
      BY <2>2, <2>6 DEF ContractData
    <3>2. before.admin \in Contracts \cup {signer}
      BY <1>2, <2>2, <2>6
    <3> HIDE DEF after, before, signer, old
    <3>3. Governed(before, after, signer)
      BY <2>2, <3>1, <3>2 DEF Governed
    <3>4. QED
      BY <1>4, <1>8, <3>3 DEF after, before, signer
  <2>7. QED
    BY <2>4, <2>5, <2>6
<1>9. CASE n \in 1 .. Top - 1
  <2>1. stores'[n] = stores[n] /\ n \in DOMAIN stores
    BY <1>3, <1>4, <1>9 DEF Top
  <2>2. QED
    BY <1>6, <2>1
<1>10. QED
  BY <1>3, <1>4, <1>8, <1>9

\* A transaction begins with nothing paid and nothing migrated.
LEMMA StartGoverned ==
    ASSUME CallStack, NEW from \in Accounts \cup {Nothing}, NEW msgs \in Seq(CosmosMsg),
           NEW step \in ControlType, step.step \in {"proceed", "sudo"},
           StartWith(AppFrame(from, msgs), step)
    PROVE  Spending' /\ Administered' /\ Base' = Base
<1>1. /\ control = Idle /\ stores' = Append(stores, Base)
      /\ frames' = <<AppFrame(from, msgs)>> /\ control' = step
  BY DEF StartWith
<1>2. stores \in Seq(GoodStore) /\ Base \in GoodStore /\ Top = 1
  BY <1>1, CallStackFacts DEF CallStack, WaitsOn
<1>3. stores' \in Seq(GoodStore) /\ Len(stores') = 2 /\ stores'[1] = Base /\ stores'[2] = Base
  BY <1>1, <1>2, OpenedStores DEF Base
<1>4. Base' = Base /\ \A n \in DOMAIN stores' : stores'[n] = Base
  BY <1>3 DEF Base
<1>5. frames'[1].begun = 0 /\ frames'[1].msgs = msgs /\ control'.step # "execute"
  BY <1>1 DEF AppFrame
<1>6. \A user : Limit(frames', control', user) = 0
  BY <1>5, DueZero DEF Limit, Paid
<1>7. \A user \in Users : Base.balances[user] \in Nat
  BY <1>2 DEF GoodStore, CoreStore, Accounts
<1>8. Spending'
  BY <1>4, <1>6, <1>7 DEF Spending
<1>9. \A address \in Registered(Base) : Base.contracts[address] \in ContractData
  BY <1>2 DEF Registered, IsContract, GoodStore, CoreStore
<1>10. Registered(Base)' = Registered(Base)
  BY <1>4 DEF Registered, IsContract
<1>11. Administered'
  BY <1>4, <1>9, <1>10 DEF Administered, Governed
<1>12. QED
  BY <1>4, <1>8, <1>11

\* A transaction that is committed was paid for by who signed it, and its migrations
\* were the admins'; one that is dropped leaves the app's storage as it was.
LEMMA AppEndsGoverned ==
    ASSUME CallStack, app_succeeded \/ app_failed
    PROVE  /\ frames' = <<>> /\ frames # <<>> /\ 2 \in DOMAIN stores
           /\ \/ Base' = Base
              \/ Base' = stores[2] /\ Paid(frames, control) = Len(frames[1].msgs)
<1>1. /\ frames # <<>> /\ Frame.kind = "app" /\ frames' = Below
      /\ \/ /\ stores' = Committed(Store) /\ control.step \in {"proceed", "returned"}
            /\ Frame.begun = Len(Frame.msgs)
         \/ stores' = Dropped
  BY DEF app_succeeded, app_failed, AtFrame
<1>2. /\ stores \in Seq(GoodStore) /\ Store \in GoodStore /\ frames \in Seq(FrameType)
      /\ Len(frames) = 1 /\ Top \in Nat /\ Top >= 2
  BY <1>1, CallStackFacts DEF CallStack
<1>3. Frame = frames[1] /\ Opens(frames[1])
  BY <1>1, <1>2 DEF Frame, Opens
<1>4. Top = 2
  <2>1. Level(frames, 1) = Level(frames, 1 - 1) + IF Opens(frames[1]) THEN 1 ELSE 0
    BY LevelNext
  <2>2. Level(frames, 1 - 1) = 1
    BY LevelZero
  <2>3. QED
    BY <1>2, <1>3, <2>1, <2>2 DEF CallStack
<1>5. frames' = <<>>
  BY <1>1, <1>2, BelowFrames
<1>6. 2 \in DOMAIN stores /\ Store = stores[2]
  BY <1>4, <1>2 DEF Top, Store
<1>7. CASE /\ stores' = Committed(Store) /\ control.step \in {"proceed", "returned"}
           /\ Frame.begun = Len(Frame.msgs)
  <2>1. stores'[Top - 1] = Store
    BY <1>2, <1>7, CommittedStores
  <2>2. Base' = stores[2]
    BY <1>4, <1>6, <2>1 DEF Base
  <2>3. Paid(frames, control) = Len(frames[1].msgs)
    BY <1>3, <1>7 DEF Paid
  <2>4. QED
    BY <1>1, <1>5, <1>6, <2>2, <2>3
<1>8. CASE stores' = Dropped
  <2>1. stores'[1] = stores[1]
    BY <1>2, <1>4, <1>8, DroppedStores
  <2>2. QED
    BY <1>1, <1>5, <1>6, <2>1 DEF Base
<1>9. QED
  BY <1>1, <1>7, <1>8

\* What the app mints takes nothing, and happens between transactions.
LEMMA MintGoverned ==
    ASSUME CallStack, bank_sudo
    PROVE  /\ frames = <<>> /\ frames' = <<>> /\ Base'.contracts = Base.contracts
           /\ Base' \in GoodStore
           /\ \A user \in Users : Base'.balances[user] >= Base.balances[user]
<1>1. PICK to \in Accounts, amount \in Mints \ {0} :
        stores' = Written([Store EXCEPT !.balances = mint(@, to, amount),
                                        !.history.issued = @ + amount])
  BY DEF bank_sudo
<1> DEFINE new == [Store EXCEPT !.balances = mint(@, to, amount),
                                !.history.issued = @ + amount]
<1>2. amount \in Nat
  BY <1>1, RouterAssumption
<1>3. /\ stores \in Seq(GoodStore) /\ Store \in GoodStore /\ frames = <<>> /\ Top = 1
      /\ Store = Base /\ frames' = <<>>
  BY CallStackFacts DEF CallStack, WaitsOn, bank_sudo, Store, Base
<1>4. new \in GoodStore
  BY <1>2, <1>3, MintedStore
<1>5. /\ Base.balances \in [Accounts -> Nat]
      /\ new.balances = mint(Base.balances, to, amount) /\ new.contracts = Base.contracts
  BY <1>3 DEF GoodStore, CoreStore
<1>6. stores' = Written(new)
  BY <1>1
<1> HIDE DEF new
<1>7. Base' = new
  BY <1>3, <1>4, <1>6, WrittenStores DEF Base
<1>8. ASSUME NEW user \in Users
      PROVE  Base'.balances[user] >= Base.balances[user]
  <2>1. user \in Accounts
    BY DEF Accounts
  <2> DEFINE balances == Base.balances
  <2>2. balances[user] \in Nat /\ balances \in [Accounts -> Nat]
    BY <1>5, <2>1
  <2> HIDE DEF balances
  <2>3. mint(balances, to, amount)[user]
          = IF user = to THEN balances[user] + amount ELSE balances[user]
    BY <2>1, <2>2 DEF mint
  <2>4. QED
    BY <1>2, <1>5, <1>7, <2>2, <2>3 DEF balances
<1>9. QED
  BY <1>3, <1>4, <1>5, <1>7, <1>8 DEF new

-----------------------------------------------------------------------------
(* What transactions do to users and to contracts.                         *)

Governing == CallStack /\ Spending /\ Administered

LEMMA InitGoverning ==
    ASSUME Init
    PROVE  Governing
BY InitCallStack DEF Governing, Spending, Administered, Init

\* The steps of the router: a transaction begins, runs, ends, or coins are minted.
LEMMA StepKinds ==
    ASSUME ResponsesAreTyped, Governing, Next
    PROVE  \/ /\ Spending' /\ Administered'
              /\ Base'.balances = Base.balances /\ Base'.contracts = Base.contracts
           \/ app_succeeded \/ app_failed
           \/ bank_sudo
<1>1. CallStack /\ Spending /\ Administered
  BY DEF Governing
<1>2. CASE execute_multi \/ wasm_sudo
  BY <1>1, <1>2, StartCases, StartGoverned
<1>3. CASE Message \/ reply \/ call_sudo
  <2>1. Spending' /\ Administered'
    BY <1>1, <1>3, EffectSpending, EffectAdministered
  <2>2. Base' = Base
    <3>1. PICK new \in GoodStore : stores' = Written(new)
      BY <1>1, <1>3, EffectTaken
    <3>2. stores \in Seq(GoodStore) /\ Top \in Nat /\ Top >= 2
      BY <1>1, <1>3, EffectTaken, CallStackFacts DEF CallStack
    <3>3. Written(new)[1] = stores[1]
      BY <3>2, WrittenStores
    <3>4. QED
      BY <3>1, <3>3 DEF Base
  <2>3. QED
    BY <2>1, <2>2
<1>4. CASE execute_submsg \/ submsg_succeeded \/ submsg_failed \/ response_continued
             \/ response_failed \/ response_done \/ next_message
  <2>1. Carried
    BY <1>1, <1>4, InnerStep, NextMessageCarried
  <2>2. QED
    BY <1>1, <2>1, CarriedSpending, CarriedAdministered DEF Carried, Same, Base
<1>5. QED
  BY <1>2, <1>3, <1>4 DEF Next, Start, Run, Submessage

\* What is committed was signed.
LEMMA StepPays ==
    ASSUME ResponsesAreTyped, Governing, Next,
           NEW user \in Users, Base'.balances[user] < Base.balances[user]
    PROVE  /\ frames[1].sender = user
           /\ Base.balances[user] - Base'.balances[user] <= OutlayOf(frames[1].msgs)
<1>1. CallStack /\ Spending /\ stores \in Seq(GoodStore) /\ Base \in GoodStore
  BY CallStackFacts DEF Governing, CallStack
<1>2. user \in Accounts
  BY DEF Accounts
<1>3. Base.balances[user] \in Nat
  BY <1>1, <1>2 DEF GoodStore, CoreStore
<1>4. ~(Base'.balances = Base.balances)
  BY <1>3
<1>5. ~bank_sudo
  <2>1. ASSUME bank_sudo PROVE FALSE
    <3>1. Base'.balances[user] >= Base.balances[user] /\ Base' \in GoodStore
      BY <1>1, <2>1, MintGoverned
    <3>2. Base'.balances[user] \in Nat
      BY <1>2, <3>1 DEF GoodStore, CoreStore
    <3>3. QED
      BY <1>3, <3>1, <3>2
  <2>2. QED
    BY <2>1
<1>6. app_succeeded \/ app_failed
  BY <1>4, <1>5, StepKinds
<1>7. /\ frames # <<>> /\ 2 \in DOMAIN stores /\ Base' = stores[2]
      /\ Paid(frames, control) = Len(frames[1].msgs)
  BY <1>1, <1>4, <1>6, AppEndsGoverned
<1>8. Base.balances[user] - Base'.balances[user] <= Limit(frames, control, user)
  BY <1>1, <1>7 DEF Spending
<1>9. Base'.balances[user] \in Nat
  BY <1>1, <1>2, <1>7 DEF GoodStore, CoreStore
<1>10. Limit(frames, control, user) # 0
  BY <1>3, <1>8, <1>9
<1>11. frames[1].sender = user
  BY <1>10 DEF Limit
<1>12. Limit(frames, control, user) = OutlayOf(frames[1].msgs)
  <2> DEFINE msgs == frames[1].msgs
             f == [i \in DOMAIN msgs |-> Outlay(msgs[i])]
  <2>1. msgs \in Seq(CosmosMsg)
    BY <1>1, <1>7, FirstFrame DEF CallStack
  <2>2. DOMAIN f = 1 .. Len(msgs)
    BY <2>1
  <2>3. OutlayOf(msgs) = SumUpTo(f, Len(msgs))
    <3>1. OutlayOf(msgs) = SumFunction(f)
      BY DEF OutlayOf
    <3> HIDE DEF f
    <3>2. QED
      BY <2>2, <3>1 DEF SumFunction, SumUpTo
  <2>4. Limit(frames, control, user) = Due(msgs, Len(msgs))
    BY <1>7, <1>11 DEF Limit
  <2>5. QED
    BY <2>3, <2>4 DEF Due
<1>13. QED
  BY <1>8, <1>11, <1>12

\* And so were the migrations, or a contract governs itself.
LEMMA StepMigrates ==
    ASSUME ResponsesAreTyped, Governing, Next, NEW address \in Registered(Base),
           Base'.contracts[address] # Base.contracts[address]
    PROVE  /\ Base'.contracts[address] # Nothing
           /\ Base'.contracts[address].admin = Base.contracts[address].admin
           /\ Base.contracts[address].admin \in Contracts \cup {frames[1].sender}
<1>1. CallStack /\ Administered
  BY DEF Governing
<1>2. ~(Base'.contracts = Base.contracts)
  OBVIOUS
<1>3. ~bank_sudo
  BY <1>1, <1>2, MintGoverned
<1>4. app_succeeded \/ app_failed
  BY <1>2, <1>3, StepKinds
<1>5. frames # <<>> /\ 2 \in DOMAIN stores /\ Base' = stores[2]
  BY <1>1, <1>2, <1>4, AppEndsGoverned
<1>6. Governed(Base.contracts[address], Base'.contracts[address], frames[1].sender)
  BY <1>1, <1>5 DEF Administered
<1>7. QED
  BY <1>6, RouterAssumption DEF Governed

\* Every step keeps both.
LEMMA NextGoverning ==
    ASSUME ResponsesAreTyped, Governing, [Next]_vars
    PROVE  Governing'
<1>1. CallStack'
  BY NextCallStack DEF Governing
<1>2. CASE Next
  <2>1. CASE app_succeeded \/ app_failed \/ bank_sudo
    <3>1. frames' = <<>>
      BY <2>1, AppEndsGoverned, MintGoverned DEF Governing
    <3>2. QED
      BY <1>1, <3>1 DEF Governing, Spending, Administered
  <2>2. QED
    BY <1>1, <1>2, <2>1, StepKinds DEF Governing
<1>3. CASE UNCHANGED vars
  BY <1>1, <1>3 DEF vars, Governing, Spending, Administered, Base, Limit, Paid, Registered,
     IsContract
<1>4. QED
  BY <1>2, <1>3

\* In no storage, committed or not, has a user paid more than he signed so far, nor a
\* contract left its admin (bank.rs send, burn; wasm.rs Migrate).
THEOREM GoverningInvariant ==
    ASSUME ResponsesAreTyped
    PROVE  Spec => []Governing
<1>1. Init => Governing
  BY InitGoverning
<1>2. Governing /\ [Next]_vars => Governing'
  BY NextGoverning
<1>3. QED
  BY <1>1, <1>2, PTL DEF Spec

\* A transaction takes from a user what the messages he signed say, if it takes
\* anything, whatever contracts do on the way and whatever is rolled back (bank.rs
\* send, burn; wasm.rs send, execute_submsg).
THEOREM SignersPay ==
    ASSUME ResponsesAreTyped
    PROVE  Spec => UsersPayWhatTheySigned
<1>1. Governing /\ [Next]_vars =>
        [\A user \in Users :
           Base'.balances[user] < Base.balances[user] =>
             /\ frames[1].sender = user
             /\ Base.balances[user] - Base'.balances[user] <= OutlayOf(frames[1].msgs)]_vars
  BY StepPays
<1>2. QED
  BY <1>1, GoverningInvariant, PTL DEF Spec, UsersPayWhatTheySigned

\* The code of a contract is changed for its admin, or by a contract, and its admin
\* never is (wasm.rs, Migrate).
THEOREM AdminsMigrate ==
    ASSUME ResponsesAreTyped
    PROVE  Spec => OnlyAdminMigrates
<1>1. Governing /\ [Next]_vars =>
        [\A address \in Registered(Base) :
           LET before == Base.contracts[address]
               after == Base'.contracts[address]
           IN  after # before =>
                 /\ after # Nothing /\ after.admin = before.admin
                 /\ before.admin \in Contracts \cup {frames[1].sender}]_vars
  BY StepMigrates
<1>2. QED
  BY <1>1, GoverningInvariant, PTL DEF Spec, OnlyAdminMigrates

-----------------------------------------------------------------------------
(* The Send message of the token on the router: a vault that is told what  *)
(* it was sent holds what it has booked, and who is no contract is sent    *)
(* nothing, whatever the other contracts do, for any users, contracts,     *)
(* messages and depth of calls.                                            *)

\* The two contracts that keep the books, as they were instantiated.
Pair == {Token, Vault}

Own(store) ==
    \A contract \in Pair :
      /\ store.contracts[contract] = [code_id |-> contract, admin |-> Nothing]
      /\ store.contract_data[contract] \in Holdings

\* What the two send: notifications, and tokens that go back.
Sends(from, m) ==
    /\ from = Token =>
         \E contract, owner \in Accounts, amount \in Nat :
           m = into_cosmos_msg(contract, owner, amount)
    /\ from = Vault => \E owner \in Accounts, amount \in Nat : m = Send(owner, amount)

Orderly(contract, msgs) ==
    contract \in Pair /\ msgs # <<>> =>
      \E m : msgs = <<add_message(m)>> /\ Sends(contract, m)

\* What a message on its way will make of the tokens: an account was given them already
\* and is still to be told, or the vault has them and is to send them back.
Nobody == [account \in Accounts |-> 0]

DueTo(from, m) ==
    [account \in Accounts |->
       IF (from = Token /\ m.contract = account) \/ (from = Vault /\ account = Vault)
       THEN m.msg.amount ELSE 0]

\* What the next submessage of a response is to make of them.
Answering(contract, msgs) ==
    IF msgs # <<>> THEN DueTo(contract, Head(msgs).msg) ELSE Nobody

Promised(fr, c) ==
    LET top == fr[Len(fr)]
    IN  IF c.step = "execute" THEN DueTo(c.sender, c.msg)
        ELSE IF c.step = "proceed" /\ top.kind = "response"
        THEN Answering(top.contract, top.msgs)
        ELSE Nobody

\* But for what is promised, the vault holds what it has booked, and no user has more
\* than before the transaction.
Even(base, store, promised) ==
    /\ store.contract_data[Token][Vault]
         = SumFunction(store.contract_data[Vault]) + promised[Vault]
    /\ \A user \in Users :
         store.contract_data[Token][user] <= base.contract_data[Token][user] + promised[user]

\* The frames whose storage transaction may fail without those around it.
Rescues(frame) ==
    \/ frame.kind = "app"
    \/ frame.kind = "submsg" /\ frame.reply_on \in {"Always", "Error"}

Rescued(sts, fr) ==
    \A n \in DOMAIN fr : Rescues(fr[n]) => Even(sts[1], sts[Level(fr, n - 1)], Nobody)

Careful(fr, c) ==
    /\ c.step = "execute" => Sends(c.sender, c.msg)
    /\ \A n \in DOMAIN fr :
         /\ fr[n].kind = "app" => fr[n].sender \notin Pair
         /\ fr[n].kind = "submsg" /\ fr[n].contract \in Pair => fr[n].reply_on = "Never"
         /\ fr[n].kind = "response" =>
              /\ Orderly(fr[n].contract, fr[n].msgs)
              /\ fr[n].contract \in Pair /\ fr[n].msgs # <<>> => n = Len(fr) /\ c = Proceed

Delivering ==
    /\ \A n \in DOMAIN stores : Own(stores[n])
    /\ Careful(frames, control)
    /\ Rescued(stores, frames)
    /\ control # Failed => Even(Base, Store, Promised(frames, control))

-----------------------------------------------------------------------------
(* What is sent and what is promised.                                      *)

LEMMA TheTwo ==
    /\ Pair \subseteq Contracts /\ Pair \subseteq Accounts /\ Pair \cap Users = {}
    /\ Token \in Pair /\ Vault \in Pair /\ Token # Vault /\ Users \subseteq Accounts
    /\ Nothing \notin Accounts
    /\ \A contract \in Pair : [code_id |-> contract, admin |-> Nothing] \in ContractData
  BY ReceiverAssumption, RouterAssumption DEF Token, Vault, Pair, Accounts, ContractData

LEMMA SendsParts ==
    ASSUME NEW from, NEW m, Sends(from, m)
    PROVE  /\ from \in Pair => m.type = "execute" /\ m.msg.amount \in Nat
           /\ from = Token => /\ m.msg.type = "Receive" /\ m.contract \in Accounts
                              /\ m.msg.sender \in Accounts
           /\ from = Vault => /\ m.msg.type = "Send" /\ m.contract = Token
                              /\ m.msg.contract \in Accounts
<1>1. ASSUME NEW contract \in Accounts, NEW owner \in Accounts, NEW amount \in Nat,
             m = into_cosmos_msg(contract, owner, amount)
      PROVE  /\ m.type = "execute" /\ m.msg.amount = amount /\ m.msg.type = "Receive"
             /\ m.contract = contract /\ m.msg.sender = owner
  BY <1>1 DEF into_cosmos_msg, Execute
<1>2. ASSUME NEW owner \in Accounts, NEW amount \in Nat, m = Send(owner, amount)
      PROVE  /\ m.type = "execute" /\ m.msg.amount = amount /\ m.msg.type = "Send"
             /\ m.contract = Token /\ m.msg.contract = owner
  BY <1>2 DEF Send, Execute
<1>3. CASE from = Token
  BY <1>1, <1>3, TheTwo DEF Sends
<1>4. CASE from = Vault
  BY <1>2, <1>4, TheTwo DEF Sends
<1>5. QED
  BY <1>3, <1>4 DEF Pair

\* Only the two promise anything.
LEMMA StrangersPromiseNothing ==
    ASSUME NEW from, from \notin Pair, NEW m
    PROVE  DueTo(from, m) = Nobody /\ Sends(from, m)
  BY DEF DueTo, Nobody, Sends, Pair

\* Even is about the data of the two, the users and the vault.
LEMMA EvenAgree ==
    ASSUME NEW base, NEW store, NEW promised, Even(base, store, promised),
           NEW base2, base2.contract_data[Token] = base.contract_data[Token],
           NEW store2, \A contract \in Pair :
             store2.contract_data[contract] = store.contract_data[contract],
           NEW promised2, promised2[Vault] = promised[Vault],
           \A user \in Users : promised2[user] = promised[user]
    PROVE  Even(base2, store2, promised2)
  BY TheTwo DEF Even

\* Tokens move from one balance to another.
LEMMA MovedParts ==
    ASSUME NEW tokens \in Holdings, NEW from \in Accounts, NEW to \in Accounts,
           NEW amount \in Nat, amount <= tokens[from]
    PROVE  LET new == MovedTokens(tokens, from, to, amount)
           IN  /\ new \in Holdings
               /\ \A account \in Accounts :
                    new[account] = tokens[account] - (IF account = from THEN amount ELSE 0)
                                     + (IF account = to THEN amount ELSE 0)
<1> DEFINE debited == [tokens EXCEPT ![from] = @ - amount]
           new == [debited EXCEPT ![to] = @ + amount]
<1>1. MovedTokens(tokens, from, to, amount) = new
  BY DEF MovedTokens
<1>2. debited \in [Accounts -> Nat]
      /\ \A account \in Accounts :
           debited[account] = tokens[account] - (IF account = from THEN amount ELSE 0)
  BY DEF Holdings
<1> HIDE DEF debited
<1>3. new \in [Accounts -> Nat]
      /\ \A account \in Accounts :
           new[account] = debited[account] + (IF account = to THEN amount ELSE 0)
  BY <1>2
<1>4. QED
  BY <1>1, <1>2, <1>3 DEF Holdings

\* A deposit is booked.
LEMMA BookedDeposit ==
    ASSUME NEW deposits \in Holdings, NEW owner \in Accounts, NEW amount \in Nat
    PROVE  LET new == [deposits EXCEPT ![owner] = @ + amount]
           IN  /\ new \in Holdings /\ SumFunction(deposits) \in Int
               /\ SumFunction(new) = SumFunction(deposits) + amount
<1> DEFINE more == deposits[owner] + amount
           new == [deposits EXCEPT ![owner] = more]
<1>1. deposits \in [Accounts -> Int] /\ more \in Nat /\ deposits[owner] \in Nat
      /\ more - deposits[owner] = amount
  BY DEF Holdings
<1>2. SumFunction(deposits) \in Int
  <2>1. \A account \in Accounts : deposits[account] \in Int
    BY <1>1
  <2>2. SumFunctionOnSet(deposits, Accounts) \in Int
    BY <2>1, FiniteAccounts, SumType
  <2>3. QED
    BY <1>1, <2>2 DEF SumFunction
<1>3. new \in Holdings
  BY <1>1 DEF Holdings
<1> HIDE DEF more
<1>4. SumFunction(new) = SumFunction(deposits) - deposits[owner] + more
  <2>1. more \in Int
    BY <1>1
  <2>2. QED
    BY <1>1, <2>1, SumExcept, FiniteAccounts
<1>5. SumFunction(new) = SumFunction(deposits) + amount
  BY <1>1, <1>2, <1>4
<1>6. QED
  BY <1>2, <1>3, <1>5 DEF more

-----------------------------------------------------------------------------
(* What the two answer, and what it does to the tokens.                    *)

\* The token accepts a Send, the vault a notification by the token; and they refuse
\* everything else.
LEMMA PairAnswers ==
    ASSUME TokenAndVaultAnswer, NEW contract \in Pair, NEW data \in Values \cup {Nothing},
           NEW call \in EntryCall, NEW response \in Responses(contract, data, call)
    PROVE  /\ response.result \in {"Ok", "Err"}
           /\ response.result = "Ok" =>
                LET amount == call.msg.amount
                IN  /\ call.entry = "execute" /\ call.sender \in Accounts
                    /\ call.msg \in TokenMsgs
                    /\ \/ /\ contract = Token /\ call.msg.type = "Send" /\ amount # 0
                          /\ amount <= data[call.sender]
                          /\ response.writes
                               = MovedTokens(data, call.sender, call.msg.contract, amount)
                          /\ response.messages
                               = <<add_message(into_cosmos_msg(call.msg.contract,
                                                               call.sender, amount))>>
                       \/ /\ contract = Vault /\ call.msg.type = "Receive"
                          /\ call.sender = Token
                          /\ \/ /\ response.writes
                                     = [data EXCEPT ![call.msg.sender] = @ + amount]
                                /\ response.messages = <<>>
                             \/ /\ response.writes = data
                                /\ response.messages
                                     = <<add_message(Send(call.msg.sender, amount))>>
<1>1. response \in ResponsesOf(contract, data, call)
  BY DEF TokenAndVaultAnswer, Pair
<1>2. \A d : \A r \in Refuses(d) : r.result = "Err"
  BY DEF Refuses
<1>3. \A w, m : \A r \in Accepts(w, m) :
        r.result = "Ok" /\ r.writes = w /\ r.messages = m
  BY DEF Accepts
<1>4. call.entry = "execute" => call.sender \in Accounts /\ call.msg \in TokenMsgs
  BY DEF EntryCall, TokenAndVaultAnswer
<1>5. Caller \notin Pair
  BY DEF Caller, Pair, Token, Vault
<1>6. CASE data = Nothing
  <2>1. ResponsesOf(contract, data, call) = Refuses(data)
    BY <1>5, <1>6 DEF ResponsesOf, Pair
  <2>2. QED
    BY <1>1, <1>2, <2>1
<1>7. CASE data # Nothing /\ contract = Token
  <2>1. ResponsesOf(contract, data, call) = TokenResponses(data, call)
    BY <1>5, <1>7, TheTwo DEF ResponsesOf, Pair
  <2>2. CASE call.entry = "execute" /\ call.msg.type = "Send"
    <3>1. response \in execute_send(data, call)
      BY <1>1, <2>1, <2>2 DEF TokenResponses
    <3>2. CASE call.msg.amount # 0 /\ call.msg.amount <= data[call.sender]
      <4>1. response \in
              Accepts(MovedTokens(data, call.sender, call.msg.contract, call.msg.amount),
                      <<add_message(into_cosmos_msg(call.msg.contract, call.sender,
                                                    call.msg.amount))>>)
        BY <3>1, <3>2 DEF execute_send
      <4>2. QED
        BY <1>3, <1>4, <1>7, <2>2, <3>2, <4>1
    <3>3. CASE ~(call.msg.amount # 0 /\ call.msg.amount <= data[call.sender])
      <4>1. response \in Refuses(data)
        BY <3>1, <3>3 DEF execute_send
      <4>2. QED
        BY <1>2, <4>1
    <3>4. QED
      BY <3>2, <3>3
  <2>3. CASE ~(call.entry = "execute" /\ call.msg.type = "Send")
    <3>1. response \in Refuses(data)
      BY <1>1, <2>1, <2>3 DEF TokenResponses
    <3>2. QED
      BY <1>2, <3>1
  <2>4. QED
    BY <2>2, <2>3
<1>8. CASE data # Nothing /\ contract = Vault
  <2>1. ResponsesOf(contract, data, call) = VaultResponses(data, call)
    BY <1>5, <1>8, TheTwo DEF ResponsesOf, Pair
  <2> DEFINE told == call.entry = "execute" /\ call.sender = Token /\ call.msg.type = "Receive"
  <2>2. CASE told
    <3>1. \/ response \in Accepts([data EXCEPT ![call.msg.sender] = @ + call.msg.amount], <<>>)
          \/ response \in Refuses(data)
          \/ response \in Accepts(data, <<add_message(Send(call.msg.sender, call.msg.amount))>>)
      BY <1>1, <2>1, <2>2 DEF VaultResponses
    <3>2. QED
      BY <1>2, <1>3, <1>4, <1>8, <2>2, <3>1
  <2>3. CASE ~told
    <3>1. response \in Refuses(data)
      BY <1>1, <2>1, <2>3 DEF VaultResponses
    <3>2. QED
      BY <1>2, <3>1
  <2>4. QED
    BY <2>2, <2>3
<1>9. QED
  BY <1>6, <1>7, <1>8 DEF Pair

\* The token moves what a Send says and promises to tell of it, so that what is promised
\* besides stays even: to a sender who promised nothing, or the vault that promised this.
LEMMA TokenKeepsEven ==
    ASSUME NEW base, NEW store, store.contract_data[Token] \in Holdings,
           SumFunction(store.contract_data[Vault]) \in Int,
           \A user \in Users : base.contract_data[Token][user] \in Nat,
           NEW from \in Accounts, NEW m, Sends(from, m), m.msg.type = "Send",
           Even(base, store, DueTo(from, m)),
           NEW to \in Accounts, NEW amount \in Nat, amount = m.msg.amount,
           amount <= store.contract_data[Token][from],
           NEW new,
           new.contract_data[Token] = MovedTokens(store.contract_data[Token], from, to, amount),
           new.contract_data[Vault] = store.contract_data[Vault]
    PROVE  Even(base, new, DueTo(Token, into_cosmos_msg(to, from, amount)))
<1> DEFINE tokens == store.contract_data[Token]
           moved == new.contract_data[Token]
           booked == SumFunction(store.contract_data[Vault])
           old == DueTo(from, m)
           next == DueTo(Token, into_cosmos_msg(to, from, amount))
<1>1. /\ \A account \in Accounts : tokens[account] \in Nat
      /\ \A account \in Accounts :
           moved[account] = tokens[account] - (IF account = from THEN amount ELSE 0)
                              + (IF account = to THEN amount ELSE 0)
  BY MovedParts DEF Holdings
<1>2. from # Token
  BY SendsParts, TheTwo
<1>3. \A account \in Accounts :
        old[account] = IF from = Vault /\ account = Vault THEN amount ELSE 0
  BY <1>2, TheTwo DEF DueTo
<1>4. \A account \in Accounts : next[account] = IF account = to THEN amount ELSE 0
  BY TheTwo DEF DueTo, into_cosmos_msg, Execute
<1>5. tokens[Vault] = booked + old[Vault]
      /\ \A user \in Users : tokens[user] <= base.contract_data[Token][user] + old[user]
  BY DEF Even
<1> HIDE DEF tokens, moved, booked, old, next
<1>6. moved[Vault] = booked + next[Vault]
  <2>1. Vault \in Accounts
    BY TheTwo
  <2>2. old[Vault] = IF from = Vault THEN amount ELSE 0
    BY <1>3, <2>1
  <2>3. next[Vault] = IF Vault = to THEN amount ELSE 0
    BY <1>4, <2>1
  <2>4. moved[Vault] = tokens[Vault] - (IF Vault = from THEN amount ELSE 0)
                         + (IF Vault = to THEN amount ELSE 0)
    BY <1>1, <2>1
  <2>5. booked \in Int /\ tokens[Vault] \in Nat
    BY <1>1, <2>1 DEF booked
  <2>6. QED
    BY <1>5, <2>2, <2>3, <2>4, <2>5
<1>7. ASSUME NEW user \in Users
      PROVE  moved[user] <= base.contract_data[Token][user] + next[user]
  <2> DEFINE before == base.contract_data[Token][user]
  <2>1. user \in Accounts /\ user # Vault /\ before \in Nat
    BY TheTwo
  <2>2. old[user] = 0 /\ next[user] = IF user = to THEN amount ELSE 0
    BY <1>3, <1>4, <2>1
  <2>3. moved[user] = tokens[user] - (IF user = from THEN amount ELSE 0)
                        + (IF user = to THEN amount ELSE 0)
    BY <1>1, <2>1
  <2>4. tokens[user] \in Nat /\ tokens[user] <= before + old[user]
    BY <1>1, <1>5, <2>1
  <2> HIDE DEF before
  <2>5. moved[user] <= before + next[user]
    BY <2>1, <2>2, <2>3, <2>4
  <2>6. QED
    BY <2>5 DEF before
<1>8. QED
  BY <1>6, <1>7 DEF Even, moved, booked, next

\* The vault books what it was promised, and is promised it no longer.
LEMMA VaultBooks ==
    ASSUME NEW base, NEW store, store.contract_data[Vault] \in Holdings,
           NEW m, Sends(Token, m), m.contract = Vault, Even(base, store, DueTo(Token, m)),
           NEW new, new.contract_data[Token] = store.contract_data[Token],
           new.contract_data[Vault]
             = [store.contract_data[Vault] EXCEPT ![m.msg.sender] = @ + m.msg.amount]
    PROVE  Even(base, new, Nobody)
<1> DEFINE tokens == store.contract_data[Token]
           deposits == store.contract_data[Vault]
           amount == m.msg.amount
           old == DueTo(Token, m)
<1>1. m.msg.sender \in Accounts /\ amount \in Nat
  BY SendsParts, TheTwo
<1>2. SumFunction(deposits) \in Int
      /\ SumFunction(new.contract_data[Vault]) = SumFunction(deposits) + amount
  BY <1>1, BookedDeposit
<1>3. old[Vault] = amount /\ \A user \in Users : old[user] = 0
  BY TheTwo DEF DueTo
<1>4. Nobody[Vault] = 0 /\ \A user \in Users : Nobody[user] = 0
  BY TheTwo DEF Nobody
<1>5. tokens[Vault] = SumFunction(deposits) + old[Vault]
      /\ \A user \in Users : tokens[user] <= base.contract_data[Token][user] + old[user]
  BY DEF Even
<1> HIDE DEF tokens, deposits, amount, old
<1>6. tokens[Vault] = SumFunction(new.contract_data[Vault]) + Nobody[Vault]
  BY <1>1, <1>2, <1>3, <1>4, <1>5
<1>7. \A user \in Users : tokens[user] <= base.contract_data[Token][user] + Nobody[user]
  BY <1>3, <1>4, <1>5
<1>8. QED
  BY <1>6, <1>7 DEF Even, tokens

\* Or it promises to send it back.
LEMMA VaultReturns ==
    ASSUME NEW base, NEW store, NEW m, Sends(Token, m), m.contract = Vault,
           Even(base, store, DueTo(Token, m)),
           NEW new, \A contract \in Pair :
             new.contract_data[contract] = store.contract_data[contract]
    PROVE  Even(base, new, DueTo(Vault, Send(m.msg.sender, m.msg.amount)))
<1>1. DueTo(Token, m)[Vault] = m.msg.amount
      /\ \A user \in Users : DueTo(Token, m)[user] = 0
  BY TheTwo DEF DueTo
<1>2. DueTo(Vault, Send(m.msg.sender, m.msg.amount))[Vault] = m.msg.amount
      /\ \A user \in Users : DueTo(Vault, Send(m.msg.sender, m.msg.amount))[user] = 0
  BY TheTwo DEF DueTo, Send, Execute
<1>3. QED
  BY <1>1, <1>2, EvenAgree


-----------------------------------------------------------------------------
(* What a message or a call leaves.                                        *)

\* A store that is even but for what is promised next, or a failure.
Outcome(base) ==
    \E new \in CoreStore :
      /\ stores' = Written(new) /\ Own(new)
      /\ \/ control' = Failed /\ frames' = frames
         \/ control' = Returned(Nothing) /\ frames' = frames /\ Even(base, new, Nobody)
         \/ \E contract \in Contracts, entry \in Entries, msgs \in Seq(SubMsg) :
              \E data \in {Nothing, contract} :
                /\ frames' = Append(frames, ResponseFrame(contract, entry, data, msgs))
                /\ control' = Proceed /\ Orderly(contract, msgs)
                /\ Even(base, new, Answering(contract, msgs))

\* A call fails, or writes what it responds.
LEMMA CallAnswers ==
    ASSUME ResponsesAreTyped,
           NEW store \in CoreStore, NEW contract \in Accounts, NEW call \in EntryCall,
           CallContract(store, contract, call)
    PROVE  \/ Fail(store)
           \/ /\ contract \in Contracts
              /\ \E response \in Responses(store.contracts[contract].code_id,
                                          store.contract_data[contract], call),
                    new \in CoreStore :
                   /\ response \in ContractResponse
                   /\ stores' = Written(new) /\ new.contracts = store.contracts
                   /\ new.contract_data
                        = [store.contract_data EXCEPT ![contract] = response.writes]
                   /\ \/ response.result = "Invalid" /\ control' = Failed /\ frames' = frames
                      \/ /\ response.result = "Ok" /\ control' = Proceed
                         /\ \E data \in {Nothing, contract} :
                              frames' = Append(frames, ResponseFrame(contract, call.entry,
                                                         data, response.messages))
<1>1. CASE ~IsContract(store, contract) /\ Fail(store)
  BY <1>1
<1>2. ASSUME IsContract(store, contract),
             NEW response \in Responses(store.contracts[contract].code_id,
                                        store.contract_data[contract], call),
             LET kept == [store EXCEPT !.contract_data[contract] = response.writes]
             IN  \/ response.result = "Invalid" /\ Fail(kept)
                 \/ response.result = "Ok" /\ Respond(kept, contract, call, response)
      PROVE  /\ contract \in Contracts
             /\ \E new \in CoreStore :
                   /\ response \in ContractResponse
                   /\ stores' = Written(new) /\ new.contracts = store.contracts
                   /\ new.contract_data
                        = [store.contract_data EXCEPT ![contract] = response.writes]
                   /\ \/ response.result = "Invalid" /\ control' = Failed /\ frames' = frames
                      \/ /\ response.result = "Ok" /\ control' = Proceed
                         /\ \E data \in {Nothing, contract} :
                              frames' = Append(frames, ResponseFrame(contract, call.entry,
                                                         data, response.messages))
  <2> DEFINE kept == [store EXCEPT !.contract_data[contract] = response.writes]
  <2>1. contract \in Contracts /\ store.contracts[contract] \in ContractData
    BY <1>2 DEF IsContract, CoreStore
  <2>2. store.contracts[contract].code_id \in codes
    BY <2>1 DEF ContractData
  <2>3. store.contract_data[contract] \in Values \cup {Nothing}
    BY <2>1 DEF CoreStore
  <2>4. response \in ContractResponse
    BY <1>2, <2>2, <2>3 DEF ResponsesAreTyped
  <2>5. /\ kept \in CoreStore /\ kept.contracts = store.contracts
        /\ kept.contract_data = [store.contract_data EXCEPT ![contract] = response.writes]
    BY <2>1, <2>4 DEF CoreStore, ContractResponse
  <2> HIDE DEF kept
  <2>6. CASE response.result = "Invalid" /\ Fail(kept)
    BY <2>1, <2>4, <2>5, <2>6 DEF Fail
  <2>7. CASE response.result = "Ok" /\ Respond(kept, contract, call, response)
    <3> DEFINE data == IF response.data THEN contract ELSE Nothing
               answered == IF call.entry = "reply" THEN 1 ELSE 0
               msgs == response.messages
               owed == kept.history.owed + Len(msgs) - answered
               counted == [kept.history EXCEPT !.owed = owed]
               new == [kept EXCEPT !.history = counted]
    <3>1. /\ data \in {Nothing, contract} /\ control' = Proceed
          /\ frames' = Append(frames, ResponseFrame(contract, call.entry, data, msgs))
          /\ stores' = Written([kept EXCEPT !.history.owed = @ + Len(msgs) - answered])
      BY <2>7 DEF Respond
    <3>2. msgs \in Seq(SubMsg) /\ Len(msgs) \in Nat /\ answered \in Int
      BY <2>4 DEF ContractResponse
    <3>3. kept.history \in Numbers /\ kept.history.owed \in Int
      BY <2>5 DEF CoreStore, Numbers
    <3>4. stores' = Written(new)
      BY <2>5, <3>1, <3>3 DEF CoreStore
    <3> HIDE DEF answered, data, msgs
    <3>5. owed \in Int
      BY <3>2, <3>3
    <3> HIDE DEF owed
    <3>6. counted \in Numbers
      BY <3>3, <3>5 DEF Numbers
    <3> HIDE DEF counted
    <3>7. /\ new \in CoreStore /\ new.contracts = kept.contracts
          /\ new.contract_data = kept.contract_data
      BY <2>5, <3>6 DEF CoreStore
    <3> HIDE DEF new
    <3>8. QED
      BY <2>1, <2>4, <2>5, <2>7, <3>1, <3>4, <3>7 DEF msgs
  <2>8. QED
    BY <1>2, <2>6, <2>7 DEF kept
<1>3. QED
  BY <1>1, <1>2 DEF CallContract

\* One message of the token or the vault is in order, and promises what it says.
LEMMA OneMessage ==
    ASSUME NEW contract \in Pair, NEW m, Sends(contract, m)
    PROVE  /\ Orderly(contract, <<add_message(m)>>)
           /\ Answering(contract, <<add_message(m)>>) = DueTo(contract, m)
<1>1. Head(<<add_message(m)>>).msg = m /\ <<add_message(m)>> # <<>>
  BY DEF add_message
<1>2. QED
  BY <1>1 DEF Orderly, Answering

LEMMA NoMessages ==
    ASSUME NEW contract
    PROVE  Orderly(contract, <<>>) /\ Answering(contract, <<>>) = Nobody
BY DEF Orderly, Answering

\* Who calls the two with a message has promised what it says, and who calls another
\* contract has promised it nothing that counts: then a call keeps the store even.
LEMMA CallDelivers ==
    ASSUME ResponsesAreTyped, TokenAndVaultAnswer,
           NEW store \in CoreStore, Own(store),
           NEW contract \in Accounts, NEW call \in EntryCall,
           CallContract(store, contract, call),
           NEW base, \A user \in Users : base.contract_data[Token][user] \in Nat,
           NEW promised, Even(base, store, promised),
           contract \in Contracts \ Pair =>
             promised[Vault] = 0 /\ \A user \in Users : promised[user] = 0,
           contract \in Pair /\ call.entry = "execute" =>
             \E m : /\ Sends(call.sender, m) /\ m.contract = contract /\ m.msg = call.msg
                    /\ promised = DueTo(call.sender, m)
    PROVE  Outcome(base)
<1>1. CASE Fail(store)
  BY <1>1 DEF Fail, Outcome
<1>2. ASSUME contract \in Contracts,
             NEW response \in Responses(store.contracts[contract].code_id,
                                        store.contract_data[contract], call),
             NEW new \in CoreStore,
             response \in ContractResponse,
             stores' = Written(new), new.contracts = store.contracts,
             new.contract_data = [store.contract_data EXCEPT ![contract] = response.writes],
             \/ response.result = "Invalid" /\ control' = Failed /\ frames' = frames
             \/ /\ response.result = "Ok" /\ control' = Proceed
                /\ \E data \in {Nothing, contract} :
                     frames' = Append(frames, ResponseFrame(contract, call.entry, data,
                                                            response.messages))
      PROVE  Outcome(base)
  <2> DEFINE msgs == response.messages
             writes == response.writes
  <2>1. msgs \in Seq(SubMsg) /\ call.entry \in Entries
    BY <1>2 DEF ContractResponse, EntryCall, Entries
  <2>2. /\ new.contract_data[contract] = writes
        /\ \A other \in Contracts \ {contract} :
             new.contract_data[other] = store.contract_data[other]
    BY <1>2 DEF CoreStore
  <2>3. ASSUME Own(new), response.result = "Ok" =>
                 Orderly(contract, msgs) /\ Even(base, new, Answering(contract, msgs))
        PROVE  Outcome(base)
    BY <1>2, <2>1, <2>3 DEF Outcome
  <2> HIDE DEF msgs, writes
  <2>4. CASE contract \notin Pair
    <3>1. \A other \in Pair : new.contract_data[other] = store.contract_data[other]
      BY <2>2, <2>4, TheTwo
    <3>2. Own(new)
      BY <1>2, <3>1 DEF Own
    <3>3. Orderly(contract, msgs) /\ Answering(contract, msgs) = Nobody
      BY <2>4, StrangersPromiseNothing DEF Orderly, Answering
    <3>4. Nobody[Vault] = 0 /\ \A user \in Users : Nobody[user] = 0
      BY TheTwo DEF Nobody
    <3>7. Nobody[Vault] = promised[Vault]
          /\ \A user \in Users : Nobody[user] = promised[user]
      BY <1>2, <2>4, <3>4
    <3>8. Even(base, store, promised)
      OBVIOUS
    <3>5. Even(base, new, Nobody)
      BY ONLY <3>1, <3>7, <3>8, EvenAgree
    <3>6. QED
      BY <2>3, <3>2, <3>3, <3>5
  <2>5. CASE contract \in Pair
    <3> DEFINE data == store.contract_data[contract]
    <3>1. /\ store.contracts[contract].code_id = contract
          /\ data \in Holdings /\ data \in Values \cup {Nothing}
      <4>1. store.contract_data[contract] \in Values \cup {Nothing}
        BY <1>2 DEF CoreStore
      <4>2. /\ store.contracts[contract] = [code_id |-> contract, admin |-> Nothing]
            /\ store.contract_data[contract] \in Holdings
        BY <2>5 DEF Own
      <4>3. QED
        BY <4>1, <4>2
    <3>2. response \in Responses(contract, data, call)
      BY <1>2, <3>1
    <3> HIDE DEF data
    <3>3. /\ response.result \in {"Ok", "Err"}
          /\ response.result = "Ok" =>
               LET amount == call.msg.amount
               IN  /\ call.entry = "execute" /\ call.sender \in Accounts
                   /\ call.msg \in TokenMsgs
                   /\ \/ /\ contract = Token /\ call.msg.type = "Send" /\ amount # 0
                         /\ amount <= data[call.sender]
                         /\ writes = MovedTokens(data, call.sender, call.msg.contract, amount)
                         /\ msgs = <<add_message(into_cosmos_msg(call.msg.contract,
                                                                 call.sender, amount))>>
                      \/ /\ contract = Vault /\ call.msg.type = "Receive"
                         /\ call.sender = Token
                         /\ \/ /\ writes = [data EXCEPT ![call.msg.sender] = @ + amount]
                               /\ msgs = <<>>
                            \/ /\ writes = data
                               /\ msgs = <<add_message(Send(call.msg.sender, amount))>>
      BY <2>5, <3>1, <3>2, PairAnswers DEF msgs, writes
    <3>4. response.result = "Ok" /\ call.entry = "execute" /\ call.sender \in Accounts
          /\ call.msg \in TokenMsgs
      BY <1>2, <3>3
    <3>5. PICK m : /\ Sends(call.sender, m) /\ m.contract = contract /\ m.msg = call.msg
                   /\ promised = DueTo(call.sender, m)
      BY <2>5, <3>4
    <3> DEFINE from == call.sender
               amount == call.msg.amount
               to == call.msg.contract
               owner == call.msg.sender
    <3>6. /\ call.msg.type = "Send" => to \in Accounts /\ amount \in Nat
          /\ call.msg.type = "Receive" => owner \in Accounts /\ amount \in Nat
      BY <3>4 DEF TokenMsgs
    <3>7. \A other \in Pair : store.contract_data[other] \in Holdings
      BY DEF Own
    <3>8. CASE contract = Token
      <4>1. /\ call.msg.type = "Send" /\ amount <= data[from]
            /\ writes = MovedTokens(data, from, to, amount)
            /\ msgs = <<add_message(into_cosmos_msg(to, from, amount))>>
        BY <3>3, <3>4, <3>8, TheTwo
      <4>2. writes \in Holdings
        BY <3>1, <3>4, <3>6, <4>1, MovedParts
      <4>3. Own(new)
        BY <1>2, <2>2, <3>8, <4>2, TheTwo DEF Own
      <4>4. Sends(Token, into_cosmos_msg(to, from, amount))
        BY <3>4, <3>6, <4>1, TheTwo DEF Sends
      <4>5. Orderly(Token, msgs)
            /\ Answering(Token, msgs) = DueTo(Token, into_cosmos_msg(to, from, amount))
        BY <4>1, <4>4, OneMessage, TheTwo
      <4>6. SumFunction(store.contract_data[Vault]) \in Int
        BY <3>7, TheTwo, BookedDeposit DEF Holdings
      <4>7. /\ new.contract_data[Token]
                 = MovedTokens(store.contract_data[Token], from, to, amount)
            /\ new.contract_data[Vault] = store.contract_data[Vault]
            /\ amount <= store.contract_data[Token][from] /\ amount = m.msg.amount
            /\ m.msg.type = "Send" /\ Even(base, store, DueTo(from, m))
            /\ store.contract_data[Token] \in Holdings
        BY <2>2, <3>1, <3>5, <3>8, <4>1, TheTwo DEF data
      <4>8. Even(base, new, DueTo(Token, into_cosmos_msg(to, from, amount)))
        BY <3>4, <3>5, <3>6, <4>1, <4>6, <4>7, TokenKeepsEven
      <4>9. QED
        BY <2>3, <3>8, <4>3, <4>5, <4>8
    <3>9. CASE contract = Vault
      <4>1. /\ call.msg.type = "Receive" /\ from = Token
            /\ \/ writes = [data EXCEPT ![owner] = @ + amount] /\ msgs = <<>>
               \/ writes = data /\ msgs = <<add_message(Send(owner, amount))>>
        BY <3>3, <3>4, <3>9, TheTwo
      <4>2. /\ new.contract_data[Token] = store.contract_data[Token]
            /\ new.contract_data[Vault] = writes
            /\ m.contract = Vault /\ Sends(Token, m) /\ Even(base, store, DueTo(Token, m))
            /\ m.msg.sender = owner /\ m.msg.amount = amount
            /\ store.contract_data[Vault] = data
        BY <2>2, <3>5, <3>9, <4>1, TheTwo DEF data
      <4>3. CASE writes = [data EXCEPT ![owner] = @ + amount] /\ msgs = <<>>
        <5>1. writes \in Holdings
          BY <3>1, <3>6, <4>1, <4>3, BookedDeposit
        <5>2. Own(new)
          BY <1>2, <3>7, <4>2, <5>1 DEF Own, Pair
        <5>5. /\ store.contract_data[Vault] \in Holdings
              /\ new.contract_data[Vault]
                   = [store.contract_data[Vault] EXCEPT ![m.msg.sender] = @ + m.msg.amount]
          BY <3>1, <4>2, <4>3
        <5>3. Even(base, new, Nobody)
          BY ONLY <4>2, <5>5, VaultBooks
        <5>4. QED
          BY <2>3, <4>3, <5>2, <5>3, NoMessages
      <4>4. CASE writes = data /\ msgs = <<add_message(Send(owner, amount))>>
        <5>1. \A other \in Pair : new.contract_data[other] = store.contract_data[other]
          BY <4>2, <4>4 DEF Pair
        <5>2. Own(new)
          BY <1>2, <5>1 DEF Own
        <5>3. Even(base, new, DueTo(Vault, Send(owner, amount)))
          BY <4>2, <5>1, VaultReturns
        <5>4. Sends(Vault, Send(owner, amount))
          BY <3>6, <4>1, TheTwo DEF Sends
        <5>5. Orderly(Vault, msgs) /\ Answering(Vault, msgs) = DueTo(Vault, Send(owner, amount))
          BY <4>4, <5>4, OneMessage, TheTwo
        <5>6. QED
          BY <2>3, <3>9, <5>2, <5>3, <5>5
      <4>5. QED
        BY <4>1, <4>3, <4>4
    <3>10. QED
      BY <2>5, <3>8, <3>9 DEF Pair
  <2>6. QED
    BY <2>4, <2>5
<1>3. \/ Fail(store)
      \/ /\ contract \in Contracts
         /\ \E response \in Responses(store.contracts[contract].code_id,
                                     store.contract_data[contract], call),
               new \in CoreStore :
              /\ response \in ContractResponse
              /\ stores' = Written(new) /\ new.contracts = store.contracts
              /\ new.contract_data
                   = [store.contract_data EXCEPT ![contract] = response.writes]
              /\ \/ response.result = "Invalid" /\ control' = Failed /\ frames' = frames
                 \/ /\ response.result = "Ok" /\ control' = Proceed
                    /\ \E data \in {Nothing, contract} :
                         frames' = Append(frames, ResponseFrame(contract, call.entry,
                                                    data, response.messages))
  BY CallAnswers
<1>4. QED
  BY <1>1, <1>2, <1>3

\* The stores of the app and of the innermost transaction are of the two.
LEMMA DeliveringFacts ==
    ASSUME CallStack, Delivering
    PROVE  /\ Own(Base) /\ Own(Store) /\ Store \in CoreStore /\ Top \in DOMAIN stores
           /\ Numbered(Store)
           /\ \A user \in Users : Base.contract_data[Token][user] \in Nat
<1>1. Top \in Nat \ {0} /\ Store \in GoodStore /\ stores \in Seq(GoodStore)
  BY CallStackFacts DEF CallStack
<1>2. Top \in DOMAIN stores /\ 1 \in DOMAIN stores
  BY <1>1 DEF Top
<1>3. Own(Base) /\ Own(Store)
  BY <1>2 DEF Delivering, Base, Store
<1>4. QED
  BY <1>1, <1>2, <1>3, TheTwo DEF GoodStore, Own, Holdings

\* Another store with the contracts and the data of the two is theirs as well.
LEMMA OwnAgree ==
    ASSUME NEW store, Own(store), NEW store2, \A contract \in Pair :
             /\ store2.contracts[contract] = store.contracts[contract]
             /\ store2.contract_data[contract] = store.contract_data[contract]
    PROVE  Own(store2)
BY DEF Own

\* What is done, or fails, on behalf of a stranger: the data of the two are untouched.
LEMMA StrangerDelivers ==
    ASSUME CallStack, Delivering, NEW from \in Accounts, NEW outlay,
           MessageEffect(Store, from, outlay),
           NEW store, Own(store), store.contract_data = Store.contract_data,
           Fail(store) \/ (Done(store) /\ Even(Base, Store, Nobody))
    PROVE  Outcome(Base)
<1>1. PICK new : stores' = Written(new) /\ new \in CoreStore
  BY DEF MessageEffect, Effect, StoreStep
<1>2. stores' = Written(store)
  BY DEF Fail, Done
<1>3. Top \in DOMAIN stores
  BY DeliveringFacts
<1>4. store = new
  BY <1>1, <1>2, <1>3 DEF Written
<1>5. CASE Fail(store)
  BY <1>1, <1>4, <1>5 DEF Fail, Outcome
<1>6. CASE Done(store) /\ Even(Base, Store, Nobody)
  <2>1. Even(Base, store, Nobody)
    BY <1>6, EvenAgree
  <2>2. QED
    BY <1>1, <1>4, <1>6, <2>1 DEF Done, Outcome
<1>7. QED
  BY <1>5, <1>6

\* A message comes with its promise.
LEMMA MessagePromise ==
    ASSUME CallStack, Delivering, control.step = "execute"
    PROVE  /\ sender \in Accounts /\ msg \in CosmosMsg /\ Sends(sender, msg)
           /\ Even(Base, Store, DueTo(sender, msg))
           /\ msg.type # "execute" => sender \notin Pair /\ Even(Base, Store, Nobody)
<1>1. sender \in Accounts /\ msg \in CosmosMsg
  BY ExecutingParts DEF CallStack
<1>2. Sends(sender, msg)
  BY DEF Delivering, Careful, sender, msg
<1>3. Even(Base, Store, DueTo(sender, msg))
  BY DEF Delivering, Promised, Failed, sender, msg
<1>4. ASSUME msg.type # "execute"
      PROVE  sender \notin Pair /\ Even(Base, Store, Nobody)
  <2>1. sender \notin Pair
    BY <1>2, <1>4, SendsParts
  <2>2. QED
    BY <1>3, <2>1, StrangersPromiseNothing
<1>5. QED
  BY <1>1, <1>2, <1>3, <1>4

LEMMA BankDelivers ==
    ASSUME CallStack, Delivering, bank_send \/ bank_burn \/ unsupported
    PROVE  Outcome(Base)
<1>1. control.step = "execute" /\ msg.type \in {"send", "burn", "other"}
  BY DEF bank_send, bank_burn, unsupported, Receives
<1>2. /\ Own(Store) /\ Store \in CoreStore /\ sender \in Accounts /\ Even(Base, Store, Nobody)
  BY <1>1, DeliveringFacts, MessagePromise
<1>3. MessageEffect(Store, sender, Outlay(msg))
  <2>1. unsupported => Fail(Store)
    BY DEF unsupported
  <2>2. QED
    BY <1>2, <2>1, NoStep, FailEffect, SendEffect, BurnEffect DEF CallStack
<1>4. \E store : /\ store.contracts = Store.contracts
                 /\ store.contract_data = Store.contract_data
                 /\ Fail(store) \/ Done(store)
  <2>1. CASE bank_send
    <3> DEFINE paid == send(Store.balances, sender, msg.to, msg.amount)
               store == [Store EXCEPT !.balances = paid]
    <3>1. Fail(Store) \/ Done(store)
      BY <2>1 DEF bank_send
    <3> HIDE DEF paid
    <3>2. store.contracts = Store.contracts /\ store.contract_data = Store.contract_data
      BY <1>2 DEF CoreStore
    <3>3. QED
      BY <3>1, <3>2
  <2>2. CASE bank_burn
    <3> DEFINE store == [Store EXCEPT !.balances = burn(@, sender, msg.amount),
                                      !.history.issued = @ - msg.amount]
    <3>1. Fail(Store) \/ Done(store)
      BY <2>2 DEF bank_burn
    <3>2. store.contracts = Store.contracts /\ store.contract_data = Store.contract_data
      BY <1>2 DEF CoreStore
    <3>3. QED
      BY <3>1, <3>2
  <2>3. CASE unsupported
    BY <2>3 DEF unsupported
  <2>4. QED
    BY <2>1, <2>2, <2>3
<1>5. PICK store : /\ store.contracts = Store.contracts
                   /\ store.contract_data = Store.contract_data
                   /\ Fail(store) \/ Done(store)
  BY <1>4
<1>6. Own(store)
  BY <1>2, <1>5, OwnAgree
<1>7. QED
  BY <1>2, <1>3, <1>5, <1>6, StrangerDelivers

LEMMA ExecuteDelivers ==
    ASSUME ResponsesAreTyped, TokenAndVaultAnswer, CallStack, Delivering, wasm_execute
    PROVE  Outcome(Base)
<1>1. control.step = "execute" /\ msg.type = "execute"
  BY DEF wasm_execute, Receives
<1>2. /\ sender \in Accounts /\ msg \in CosmosMsg /\ Sends(sender, msg)
      /\ Even(Base, Store, DueTo(sender, msg))
  BY <1>1, MessagePromise
<1>3. msg.contract \in Accounts /\ msg.funds \in Funds /\ msg.msg \in Payloads
  BY <1>1, <1>2, MessageParts
<1>4. /\ Own(Store) /\ Store \in CoreStore
      /\ \A user \in Users : Base.contract_data[Token][user] \in Nat
  BY DeliveringFacts
<1>5. CASE Fail(Store)
  BY <1>4, <1>5 DEF Fail, Outcome
<1>6. CASE /\ FundsPayable(Store, sender, msg.funds)
           /\ CallContract(WithFunds(Store, sender, msg.contract, msg.funds), msg.contract,
                           [entry |-> "execute", sender |-> sender, funds |-> msg.funds,
                            msg |-> msg.msg])
  <2> DEFINE store == WithFunds(Store, sender, msg.contract, msg.funds)
             call == [entry |-> "execute", sender |-> sender, funds |-> msg.funds,
                      msg |-> msg.msg]
             promised == DueTo(sender, msg)
             contract == msg.contract
  <2>1. /\ store \in CoreStore /\ store.contracts = Store.contracts
        /\ store.contract_data = Store.contract_data
    BY <1>2, <1>3, <1>4, <1>6, FundsEffect
  <2>2. call \in EntryCall /\ call.sender = sender /\ call.msg = msg.msg
    BY <1>2, <1>3 DEF EntryCall
  <2>3. CallContract(store, contract, call)
    BY <1>6
  <2> HIDE DEF store, call
  <2>4. Own(store) /\ Even(Base, store, promised)
    BY <1>2, <1>4, <2>1, OwnAgree, EvenAgree
  <2>5. ASSUME contract \in Contracts \ Pair
        PROVE  promised[Vault] = 0 /\ \A user \in Users : promised[user] = 0
    <3>1. sender # Vault
      BY <1>2, <2>5, SendsParts, TheTwo
    <3>2. contract # Vault /\ contract \notin Users
      BY <2>5, TheTwo, RouterAssumption
    <3>3. QED
      BY <3>1, <3>2, TheTwo DEF DueTo
  <2>6. Sends(sender, msg) /\ contract = msg.contract /\ promised = DueTo(sender, msg)
    BY <1>2
  <2> HIDE DEF promised
  <2>7. \E m : /\ Sends(call.sender, m) /\ m.contract = contract /\ m.msg = call.msg
               /\ promised = DueTo(call.sender, m)
    BY <2>2, <2>6
  <2> HIDE DEF contract
  <2>8. contract \in Accounts
    BY <1>3 DEF contract
  <2>9. QED
    BY <1>4, <2>1, <2>2, <2>3, <2>4, <2>5, <2>7, <2>8, CallDelivers
<1>7. QED
  BY <1>5, <1>6 DEF wasm_execute

\* What is neither of the two is called without a promise.
LEMMA BareDelivers ==
    ASSUME ResponsesAreTyped, TokenAndVaultAnswer, CallStack, Delivering,
           Even(Base, Store, Nobody),
           NEW store \in CoreStore, Own(store), store.contract_data = Store.contract_data,
           NEW contract \in Accounts, NEW call \in EntryCall,
           CallContract(store, contract, call),
           contract \notin Pair \/ call.entry # "execute"
    PROVE  Outcome(Base)
<1>1. Even(Base, store, Nobody)
  BY EvenAgree
<1>2. Nobody[Vault] = 0 /\ \A user \in Users : Nobody[user] = 0
  BY TheTwo DEF Nobody
<1>3. \A user \in Users : Base.contract_data[Token][user] \in Nat
  BY DeliveringFacts
<1>4. QED
  BY <1>1, <1>2, <1>3, CallDelivers

LEMMA InstantiateDelivers ==
    ASSUME ResponsesAreTyped, TokenAndVaultAnswer, CallStack, Delivering, wasm_instantiate
    PROVE  Outcome(Base)
<1>1. control.step = "execute" /\ msg.type = "instantiate"
      /\ next_address(Store) < MaxContracts
  BY DEF wasm_instantiate, Receives
<1>2. /\ sender \in Accounts /\ msg \in CosmosMsg /\ sender \notin Pair
      /\ Even(Base, Store, Nobody)
  BY <1>1, MessagePromise
<1>3. msg.admin \in Accounts \cup {Nothing} /\ msg.funds \in Funds /\ msg.msg \in Payloads
  BY <1>1, <1>2, MessageParts
<1>4. Own(Store) /\ Store \in CoreStore /\ Numbered(Store)
  BY DeliveringFacts
<1>5. MessageEffect(Store, sender, Outlay(msg))
  BY <1>4, InstantiateEffect DEF CallStack
<1> DEFINE contract == next_address(Store)
           registered == register_contract(Store, msg.code_id, msg.admin)
           store == WithFunds(registered, sender, contract, msg.funds)
           call == [entry |-> "instantiate", sender |-> sender, funds |-> msg.funds,
                    msg |-> msg.msg]
<1>6. CASE Fail(Store)
  BY <1>4, <1>6 DEF Fail, Outcome
<1>7. CASE /\ msg.code_id \in codes
           /\ \/ FundsPayable(registered, sender, msg.funds)
                 /\ CallContract(store, contract, call)
              \/ Fail(registered)
  <2>1. contract \in Accounts /\ contract \notin Pair
    <3>1. contract \in Contracts /\ contract \in Nat
      BY <1>1, NextAddress
    <3>2. contract = Store.history.instances
          /\ Registered(Store) = 0 .. Store.history.instances - 1
      BY <1>4, NextIsNumber DEF Numbered
    <3>3. Pair \subseteq Registered(Store)
      BY <1>4, TheTwo, RouterAssumption DEF Own, Registered, IsContract
    <3> HIDE DEF contract
    <3>4. contract \notin Registered(Store)
      BY <3>1, <3>2
    <3>5. QED
      BY <3>1, <3>3, <3>4 DEF Accounts
  <2>2. /\ registered \in CoreStore /\ registered.contract_data = Store.contract_data
    BY <1>1, <1>3, <1>4, <1>7, RegisterEffect
  <2>3. \A other \in Pair : registered.contracts[other] = Store.contracts[other]
    BY <1>4, <2>1, TheTwo DEF register_contract, CoreStore
  <2>4. call \in EntryCall
    BY <1>2, <1>3 DEF EntryCall
  <2> HIDE DEF registered, contract, call
  <2>5. Own(registered)
    BY <1>4, <2>2, <2>3, OwnAgree
  <2>6. CASE Fail(registered)
    BY <1>2, <1>5, <2>2, <2>5, <2>6, StrangerDelivers
  <2>7. CASE FundsPayable(registered, sender, msg.funds) /\ CallContract(store, contract, call)
    <3>1. /\ store \in CoreStore /\ store.contracts = registered.contracts
          /\ store.contract_data = registered.contract_data
      BY <1>2, <1>3, <2>1, <2>2, <2>7, FundsEffect
    <3>2. CallContract(store, contract, call)
      BY <2>7
    <3> HIDE DEF store
    <3>3. Own(store) /\ store.contract_data = Store.contract_data
      BY <2>2, <2>5, <3>1, OwnAgree
    <3>4. QED
      BY <1>2, <2>1, <2>4, <3>1, <3>2, <3>3, BareDelivers
  <2>8. QED
    BY <1>7, <2>6, <2>7
<1>8. QED
  BY <1>6, <1>7 DEF wasm_instantiate

LEMMA MigrateDelivers ==
    ASSUME ResponsesAreTyped, TokenAndVaultAnswer, CallStack, Delivering, wasm_migrate
    PROVE  Outcome(Base)
<1>1. control.step = "execute" /\ msg.type = "migrate"
  BY DEF wasm_migrate, Receives
<1>2. sender \in Accounts /\ msg \in CosmosMsg /\ Even(Base, Store, Nobody)
  BY <1>1, MessagePromise
<1>3. msg.contract \in Accounts /\ msg.msg \in Payloads
  BY <1>1, <1>2, MessageParts
<1>4. Own(Store) /\ Store \in CoreStore
  BY DeliveringFacts
<1>5. CASE Fail(Store)
  BY <1>4, <1>5 DEF Fail, Outcome
<1> DEFINE contract == msg.contract
           store == [Store EXCEPT !.contracts[contract].code_id = msg.code_id]
           call == [entry |-> "migrate", msg |-> msg.msg]
<1>6. CASE /\ msg.code_id \in codes /\ MayMigrate(Store, sender, contract)
           /\ CallContract(store, contract, call)
  <2>1. contract \in Registered(Store) /\ Store.contracts[contract].admin = sender
    BY <1>6 DEF MayMigrate, IsContract, Registered
  <2>2. contract \notin Pair
    <3>1. SUFFICES ASSUME contract \in Pair PROVE FALSE
      OBVIOUS
    <3>2. Store.contracts[contract] = [code_id |-> contract, admin |-> Nothing]
      BY <1>4, <3>1 DEF Own
    <3>3. Store.contracts[contract].admin = Nothing
      BY <3>2
    <3>4. QED
      BY <1>2, <2>1, <3>3, TheTwo
  <2>3. /\ store \in CoreStore
        /\ store.contracts = [Store.contracts EXCEPT ![contract].code_id = msg.code_id]
        /\ store.contract_data = Store.contract_data
    BY <1>4, <1>6, <2>1, MigratedStore
  <2>4. call \in EntryCall /\ CallContract(store, contract, call)
    BY <1>3, <1>6 DEF EntryCall
  <2> HIDE DEF store, call
  <2>5. \A other \in Pair : store.contracts[other] = Store.contracts[other]
    BY <1>4, <2>2, <2>3, TheTwo DEF CoreStore
  <2>6. Own(store)
    BY <1>4, <2>3, <2>5, OwnAgree
  <2>7. QED
    BY <1>2, <1>3, <2>2, <2>3, <2>4, <2>6, BareDelivers
<1>7. QED
  BY <1>5, <1>6 DEF wasm_migrate

LEMMA ReplyDelivers ==
    ASSUME ResponsesAreTyped, TokenAndVaultAnswer, CallStack, Delivering, reply \/ call_sudo
    PROVE  Outcome(Base)
<1>1. /\ Own(Store) /\ Store \in CoreStore /\ control \in ControlType
  BY DeliveringFacts DEF CallStack
<1>2. control.step \in {"reply", "sudo"}
  BY DEF reply, call_sudo
<1>3. Even(Base, Store, Nobody)
  BY <1>2 DEF Delivering, Promised, Failed
<1>4. CASE reply
  <2> DEFINE call == [entry |-> "reply", ok |-> control.ok]
  <2>1. control.contract \in Accounts /\ control.ok \in BOOLEAN
    BY <1>1, <1>4, ControlParts DEF reply, Accounts
  <2>2. /\ call \in EntryCall /\ call.entry # "execute"
        /\ CallContract(Store, control.contract, call)
    BY <1>4, <2>1 DEF EntryCall, reply
  <2> HIDE DEF call
  <2>3. QED
    BY <1>1, <1>3, <2>1, <2>2, BareDelivers
<1>5. CASE call_sudo
  <2> DEFINE call == [entry |-> "sudo"]
  <2>1. control.contract \in Accounts
    BY <1>1, <1>5, ControlParts DEF call_sudo, Accounts
  <2>2. /\ call \in EntryCall /\ call.entry # "execute"
        /\ CallContract(Store, control.contract, call)
    BY <1>5, <2>1 DEF EntryCall, call_sudo
  <2> HIDE DEF call
  <2>3. QED
    BY <1>1, <1>3, <2>1, <2>2, BareDelivers
<1>6. QED
  BY <1>4, <1>5

-----------------------------------------------------------------------------
(* Every step keeps what is delivered.                                     *)

\* The first m frames and the storages around the next stay as they were: then those
\* who rescue still rescue an even store.
LEMMA RescuedKept ==
    ASSUME NEW fr, NEW gr, NEW m \in Nat, NEW sts, NEW sts2, 1 .. m \subseteq DOMAIN fr,
           \A n \in 1 .. m : /\ Opens(gr[n]) <=> Opens(fr[n])
                             /\ Rescues(gr[n]) => Rescues(fr[n]),
           \A i \in 1 .. Level(fr, m) - 1 : sts2[i] = sts[i],
           Rescued(sts, fr)
    PROVE  \A n \in 1 .. m :
             Rescues(gr[n]) => Even(sts2[1], sts2[Level(gr, n - 1)], Nobody)
<1> SUFFICES ASSUME NEW n \in 1 .. m, Rescues(gr[n])
             PROVE  Even(sts2[1], sts2[Level(gr, n - 1)], Nobody)
  OBVIOUS
<1>1. /\ n \in DOMAIN fr /\ Rescues(fr[n]) /\ n \in Nat \ {0} /\ n <= m /\ n - 1 \in Nat
  OBVIOUS
<1>2. Opens(fr[n])
  BY <1>1 DEF Rescues, Opens
<1>3. Level(fr, n - 1) \in Nat \ {0} /\ Level(fr, m) \in Nat
  BY <1>1, LevelType
<1>4. Level(fr, n - 1) + 1 <= Level(fr, m)
  BY <1>1, <1>2, LevelGrowsPast
<1>5. Level(gr, n - 1) = Level(fr, n - 1)
  <2>1. \A i \in 1 .. n - 1 : Opens(gr[i]) <=> Opens(fr[i])
    BY <1>1
  <2>2. QED
    BY ONLY <1>1, <2>1, LevelAgree
<1>6. Level(fr, n - 1) \in 1 .. Level(fr, m) - 1 /\ 1 \in 1 .. Level(fr, m) - 1
  BY <1>3, <1>4
<1>7. Even(sts[1], sts[Level(fr, n - 1)], Nobody)
  BY <1>1 DEF Rescued
<1>8. QED
  BY <1>5, <1>6, <1>7

\* The parts of the invariant, for the stores and the frames there are.
LEMMA DeliveringStack ==
    ASSUME CallStack, Delivering, frames # <<>>
    PROVE  /\ stores \in Seq(CoreStore) /\ frames \in Seq(FrameType)
           /\ Len(frames) \in Nat \ {0} /\ DOMAIN frames = 1 .. Len(frames)
           /\ Frame = frames[Len(frames)] /\ Frame \in FrameType
           /\ Top \in Nat /\ Top >= 2 /\ DOMAIN stores = 1 .. Top
           /\ Top = Level(frames, Len(frames)) /\ Level(frames, Len(frames)) - 1 = Top - 1
           /\ \A n \in 1 .. Top : Own(stores[n])
           /\ Rescued(stores, frames) /\ Careful(frames, control)
<1>1. /\ stores \in Seq(GoodStore) /\ frames \in Seq(FrameType)
      /\ Top = Level(frames, Len(frames)) /\ Frame \in FrameType
      /\ Len(frames) \in Nat \ {0} /\ Top \in Nat \ {0} /\ Top >= 2
  BY CallStackFacts DEF CallStack
<1>2. stores \in Seq(CoreStore)
  BY <1>1 DEF GoodStore
<1>3. DOMAIN stores = 1 .. Top /\ DOMAIN frames = 1 .. Len(frames)
  BY <1>1 DEF Top
<1>4. QED
  BY <1>1, <1>2, <1>3 DEF Delivering, Frame

\* A store no user has more in, and its own.
LEMMA EvenItself ==
    ASSUME NEW base, NEW store, Own(store), Even(base, store, Nobody)
    PROVE  Even(store, store, Nobody)
<1>1. \A user \in Users : store.contract_data[Token][user] \in Nat /\ Nobody[user] = 0
  BY TheTwo DEF Own, Holdings, Nobody
<1>2. QED
  BY <1>1 DEF Even

\* A message or a call.
LEMMA OutcomeDelivering ==
    ASSUME CallStack, Delivering, frames # <<>>, control # Proceed, Outcome(Base)
    PROVE  Delivering' /\ Base' = Base
<1>1. PICK new \in CoreStore :
        /\ stores' = Written(new) /\ Own(new)
        /\ \/ control' = Failed /\ frames' = frames
           \/ control' = Returned(Nothing) /\ frames' = frames /\ Even(Base, new, Nobody)
           \/ \E contract \in Contracts, entry \in Entries, msgs \in Seq(SubMsg) :
                \E data \in {Nothing, contract} :
                  /\ frames' = Append(frames, ResponseFrame(contract, entry, data, msgs))
                  /\ control' = Proceed /\ Orderly(contract, msgs)
                  /\ Even(Base, new, Answering(contract, msgs))
  BY DEF Outcome
<1> DEFINE k == Len(frames)
           sts == stores'
           gr == frames'
<1>2. /\ stores \in Seq(CoreStore) /\ frames \in Seq(FrameType)
      /\ k \in Nat \ {0} /\ DOMAIN frames = 1 .. k /\ k \in Nat
      /\ Top \in Nat /\ Top >= 2 /\ DOMAIN stores = 1 .. Top /\ Top \in Nat \ {0}
      /\ Top = Level(frames, k)
      /\ \A n \in 1 .. Top : Own(stores[n])
      /\ Rescued(stores, frames) /\ Careful(frames, control)
  BY DeliveringStack
<1>3. /\ sts \in Seq(CoreStore) /\ Len(sts) = Top /\ sts[Top] = new
      /\ \A n \in 1 .. Top - 1 : sts[n] = stores[n]
  BY <1>1, <1>2, WrittenStores
<1>4. Base' = Base /\ Store' = new /\ sts[1] = Base
  BY <1>2, <1>3 DEF Base, Store, Top
<1>5. \A n \in DOMAIN sts : Own(sts[n])
  <2>1. \A n \in DOMAIN sts : n = Top \/ n \in 1 .. Top - 1
    BY <1>2, <1>3
  <2>2. QED
    BY <1>1, <1>2, <1>3, <2>1
<1>6. \A i \in 1 .. Level(frames, k) - 1 : sts[i] = stores[i]
  BY <1>2, <1>3
\* No frame of the two waits with a message of its own.
<1>7. \A n \in 1 .. k : frames[n].kind = "response" /\ frames[n].contract \in Pair
                          => frames[n].msgs = <<>>
  BY <1>2 DEF Careful
<1>8. CASE \/ control' = Failed /\ frames' = frames
           \/ control' = Returned(Nothing) /\ frames' = frames /\ Even(Base, new, Nobody)
  <2>1. \A n \in 1 .. k :
          Rescues(frames[n]) => Even(sts[1], sts[Level(frames, n - 1)], Nobody)
    <3> HIDE DEF sts, k
    <3>1. 1 .. k \subseteq DOMAIN frames
      BY <1>2
    <3>2. QED
      BY ONLY <1>2, <1>6, <3>1, RescuedKept
  <2>2. Rescued(sts, gr)
    BY <1>2, <1>8, <2>1 DEF Rescued
  <2>3. control'.step \notin {"execute", "proceed"}
    BY <1>8 DEF Returned, Failed
  <2>4. Careful(gr, control')
    BY <1>2, <1>7, <1>8, <2>3 DEF Careful
  <2>5. Promised(gr, control') = Nobody
    BY <2>3 DEF Promised
  <2>6. QED
    BY <1>4, <1>5, <1>8, <2>2, <2>4, <2>5 DEF Delivering
<1>9. ASSUME NEW contract \in Contracts, NEW entry \in Entries, NEW msgs \in Seq(SubMsg),
             NEW data \in {Nothing, contract},
             frames' = Append(frames, ResponseFrame(contract, entry, data, msgs)),
             control' = Proceed, Orderly(contract, msgs),
             Even(Base, new, Answering(contract, msgs))
      PROVE  Delivering'
  <2> DEFINE f == ResponseFrame(contract, entry, data, msgs)
  <2>1. /\ f.kind = "response" /\ f.contract = contract /\ f.msgs = msgs /\ ~Rescues(f)
    BY DEF ResponseFrame, Rescues
  <2>2. gr = Append(frames, f)
    BY <1>9
  <2> HIDE DEF f, gr, k, sts
  <2>3. /\ Len(gr) = k + 1 /\ gr[k + 1] = f /\ DOMAIN gr = 1 .. k + 1
        /\ \A n \in 1 .. k : gr[n] = frames[n]
    BY <1>2, <2>2 DEF k
  <2>4. \A n \in 1 .. k : Rescues(gr[n]) => Even(sts[1], sts[Level(gr, n - 1)], Nobody)
    <3>1. 1 .. k \subseteq DOMAIN frames
      BY <1>2
    <3>2. \A n \in 1 .. k : /\ Opens(gr[n]) <=> Opens(frames[n])
                            /\ Rescues(gr[n]) => Rescues(frames[n])
      BY <2>3
    <3>3. QED
      BY ONLY <1>2, <1>6, <3>1, <3>2, RescuedKept
  <2>5. \A n \in DOMAIN gr : n \in 1 .. k \/ n = k + 1
    BY <1>2, <2>3
  <2>6. Rescued(sts, gr)
    BY <2>1, <2>3, <2>4, <2>5 DEF Rescued
  <2>7. Proceed.step = "proceed"
    BY DEF Proceed
  <2>8. Careful(gr, Proceed)
    <3>1. SUFFICES ASSUME NEW n \in DOMAIN gr
          PROVE  /\ gr[n].kind = "app" => gr[n].sender \notin Pair
                 /\ gr[n].kind = "submsg" /\ gr[n].contract \in Pair =>
                      gr[n].reply_on = "Never"
                 /\ gr[n].kind = "response" =>
                      /\ Orderly(gr[n].contract, gr[n].msgs)
                      /\ gr[n].contract \in Pair /\ gr[n].msgs # <<>> =>
                           n = Len(gr) /\ Proceed = Proceed
      BY <2>7 DEF Careful
    <3>2. CASE n = k + 1
      BY <1>9, <2>1, <2>3, <3>2
    <3>3. CASE n \in 1 .. k
      BY <1>2, <1>7, <2>3, <3>3 DEF Careful
    <3>4. QED
      BY <2>5, <3>2, <3>3
  <2>9. Promised(gr, Proceed) = Answering(contract, msgs)
    BY <2>1, <2>3, <2>7 DEF Promised
  <2>10. QED
    BY <1>4, <1>5, <1>9, <2>6, <2>8, <2>9 DEF Delivering, gr, sts
<1>10. CASE \E contract \in Contracts, entry \in Entries, msgs \in Seq(SubMsg) :
              \E data \in {Nothing, contract} :
                /\ frames' = Append(frames, ResponseFrame(contract, entry, data, msgs))
                /\ control' = Proceed /\ Orderly(contract, msgs)
                /\ Even(Base, new, Answering(contract, msgs))
  <2>1. Delivering'
    BY ONLY <1>9, <1>10
  <2>2. QED
    BY ONLY <1>4, <2>1
<1>11. QED
  BY ONLY <1>1, <1>8, <1>10

\* The innermost frame is popped.
LEMMA PoppedDelivering ==
    ASSUME CallStack, Delivering, frames # <<>>, NEW sts, NEW c, c.step # "execute",
           \A i \in 1 .. Level(Below, Len(Below)) - 1 : sts[i] = stores[i]
    PROVE  Rescued(sts, Below) /\ Careful(Below, c)
<1>1. /\ frames \in Seq(FrameType) /\ DOMAIN frames = 1 .. Len(frames)
      /\ Rescued(stores, frames) /\ Careful(frames, control)
  BY DeliveringStack
<1>2. /\ Len(frames) \in Nat \ {0} /\ Below \in Seq(FrameType)
      /\ Len(Below) = Len(frames) - 1
      /\ \A n \in 1 .. Len(frames) - 1 : Below[n] = frames[n]
  BY <1>1, PoppedFrames
<1> DEFINE k == Len(frames) - 1
           gr == Below
<1>3. /\ k \in Nat /\ DOMAIN gr = 1 .. k /\ 1 .. k \subseteq DOMAIN frames
      /\ \A n \in 1 .. k : gr[n] = frames[n] /\ n # Len(frames)
      /\ Len(gr) = k
  <2>1. k \in Nat /\ Len(gr) = k /\ DOMAIN gr = 1 .. k
    BY <1>2
  <2>2. k + 1 = Len(frames) /\ \A n \in 1 .. k : gr[n] = frames[n]
    BY <1>2
  <2> HIDE DEF k, gr
  <2>3. 1 .. k \subseteq DOMAIN frames /\ \A n \in 1 .. k : n # Len(frames)
    <3>1. DOMAIN frames = 1 .. k + 1 /\ Len(frames) = k + 1 /\ k \in Nat
      BY <1>1, <2>1, <2>2
    <3>2. \A n \in 1 .. k : n \in 1 .. k + 1 /\ n # k + 1
      BY <3>1
    <3>3. QED
      BY ONLY <3>1, <3>2
  <2>4. QED
    BY <2>1, <2>2, <2>3
<1>4. \A i \in 1 .. Level(gr, k) - 1 : sts[i] = stores[i]
  BY <1>3
<1> HIDE DEF k, gr
<1>5. Level(gr, k) = Level(frames, k)
  BY <1>3, LevelAgree
<1>6. \A n \in 1 .. k : Rescues(gr[n]) => Even(sts[1], sts[Level(gr, n - 1)], Nobody)
  <2>1. \A i \in 1 .. Level(frames, k) - 1 : sts[i] = stores[i]
    BY <1>4, <1>5
  <2>2. \A n \in 1 .. k : /\ Opens(gr[n]) <=> Opens(frames[n])
                          /\ Rescues(gr[n]) => Rescues(frames[n])
    BY <1>3
  <2>3. QED
    BY ONLY <1>1, <1>3, <2>1, <2>2, RescuedKept
<1>7. Rescued(sts, gr)
  BY <1>3, <1>6 DEF Rescued
<1>8. Careful(gr, c)
  <2>1. SUFFICES ASSUME NEW n \in 1 .. k
        PROVE  /\ gr[n].kind = "app" => gr[n].sender \notin Pair
               /\ gr[n].kind = "submsg" /\ gr[n].contract \in Pair =>
                    gr[n].reply_on = "Never"
               /\ gr[n].kind = "response" =>
                    /\ Orderly(gr[n].contract, gr[n].msgs)
                    /\ ~(gr[n].contract \in Pair /\ gr[n].msgs # <<>>)
    BY <1>3 DEF Careful
  <2>2. n \in DOMAIN frames /\ gr[n] = frames[n] /\ n # Len(frames)
    BY <1>3
  <2>3. QED
    BY <1>1, <2>2 DEF Careful
<1>9. QED
  BY <1>7, <1>8 DEF gr

\* A submessage that succeeded leaves an even store, one that failed leaves the store
\* around it, which is even if its contract goes on.
LEMMA SubmsgEndsDelivering ==
    ASSUME CallStack, Delivering, submsg_succeeded \/ submsg_failed
    PROVE  Delivering' /\ Base' = Base
<1>1. /\ frames # <<>> /\ Frame.kind = "submsg" /\ frames' = Below
      /\ control.step \in {"returned", "failed"}
  BY DEF submsg_succeeded, submsg_failed, AtFrame
<1>2. /\ stores \in Seq(CoreStore) /\ frames \in Seq(FrameType)
      /\ Len(frames) \in Nat \ {0} /\ DOMAIN frames = 1 .. Len(frames)
      /\ Frame = frames[Len(frames)] /\ Frame \in FrameType
      /\ Top \in Nat /\ Top >= 2 /\ DOMAIN stores = 1 .. Top
      /\ Top = Level(frames, Len(frames))
      /\ \A n \in 1 .. Top : Own(stores[n])
      /\ Rescued(stores, frames) /\ Careful(frames, control) /\ Opens(Frame)
  BY <1>1, DeliveringStack DEF Opens
<1>3. /\ Below \in Seq(FrameType) /\ Below # <<>> /\ Stacked(Below)
      /\ Level(Below, Len(Below)) = Top - 1
  BY <1>1, <1>2, UnderTop
<1>4. Top >= 3
  BY <1>2, <1>3, FirstFrame
<1>5. ASSUME \A i \in 1 .. Top - 2 : stores'[i] = stores[i], control'.step # "execute"
      PROVE  Rescued(stores', Below) /\ Careful(Below, control') /\ stores'[1] = stores[1]
  <2> DEFINE sts == stores'
             c == control'
  <2>1. /\ \A i \in 1 .. Level(Below, Len(Below)) - 1 : sts[i] = stores[i]
        /\ c.step # "execute" /\ sts[1] = stores[1]
    BY <1>2, <1>3, <1>4, <1>5
  <2> HIDE DEF sts, c
  <2>2. Rescued(sts, Below) /\ Careful(Below, c)
    BY <1>1, <2>1, PoppedDelivering
  <2>3. QED
    BY <2>1, <2>2 DEF sts, c
<1>6. Store = stores[Top] /\ Store \in CoreStore /\ Own(Store) /\ Base = stores[1]
  BY <1>2 DEF Store, Base
<1>7. CASE submsg_succeeded
  <2>1. /\ stores' \in {Committed(Store), Committed(Settled(Store))}
        /\ control' \in {Replying(Frame.contract, TRUE), Returned(Nothing)}
        /\ control.step = "returned"
    BY <1>7 DEF submsg_succeeded, DataWithoutReply
  <2>2. control'.step \notin {"execute", "proceed"}
    BY <2>1 DEF Replying, Returned
  <2>3. Even(Base, Store, Nobody)
    BY <2>1 DEF Delivering, Promised, Failed
  <2>4. /\ Settled(Store) \in CoreStore /\ Settled(Store).contracts = Store.contracts
        /\ Settled(Store).contract_data = Store.contract_data
    <3>1. Store \in GoodStore
      BY CallStackFacts
    <3>2. Settled(Store).contract_data = Store.contract_data
      BY <1>6 DEF Settled, CoreStore
    <3>3. QED
      BY <3>1, <3>2, SettledStore DEF GoodStore
  <2>5. PICK new \in CoreStore : /\ stores' = Committed(new) /\ new.contracts = Store.contracts
                                 /\ new.contract_data = Store.contract_data
    BY <1>6, <2>1, <2>4
  <2>6. Own(new) /\ Even(Base, new, Nobody)
    BY <1>6, <2>3, <2>5, OwnAgree, EvenAgree
  <2>7. /\ stores' \in Seq(CoreStore) /\ Len(stores') = Top - 1 /\ stores'[Top - 1] = new
        /\ \A n \in 1 .. Top - 2 : stores'[n] = stores[n]
    BY <1>2, <2>5, CommittedStores
  <2>8. \A n \in DOMAIN stores' : Own(stores'[n])
    <3>1. \A n \in DOMAIN stores' : n = Top - 1 \/ n \in 1 .. Top - 2
      BY <1>2, <2>7
    <3>2. QED
      BY <1>2, <2>6, <2>7, <3>1
  <2>9. Rescued(stores', Below) /\ Careful(Below, control') /\ stores'[1] = stores[1]
    BY <1>5, <2>2, <2>7
  <2>10. Store' = new /\ Base' = Base
    BY <1>6, <2>7, <2>9 DEF Store, Top, Base
  <2>11. Promised(Below, control') = Nobody
    BY <2>2 DEF Promised
  <2>12. QED
    BY <1>1, <2>6, <2>8, <2>9, <2>10, <2>11 DEF Delivering
<1>8. CASE submsg_failed
  <2>1. /\ stores' = Dropped
        /\ \/ control' = Failed
           \/ control' = Replying(Frame.contract, FALSE) /\ Rescues(Frame)
    BY <1>1, <1>8 DEF submsg_failed, FailureWithoutReply, Rescues
  <2>2. control'.step \notin {"execute", "proceed"}
    BY <2>1 DEF Replying, Failed
  <2>3. /\ stores' \in Seq(CoreStore) /\ Len(stores') = Top - 1
        /\ \A n \in 1 .. Top - 1 : stores'[n] = stores[n]
    BY <1>2, <2>1, DroppedStores
  <2>4. \A n \in DOMAIN stores' : Own(stores'[n])
    BY <1>2, <2>3
  <2>5. Rescued(stores', Below) /\ Careful(Below, control') /\ stores'[1] = stores[1]
    <3>1. \A n \in 1 .. Top - 2 : stores'[n] = stores[n]
      BY <1>2, <2>3
    <3>2. QED
      BY <1>5, <2>2, <3>1
  <2>6. Store' = stores[Top - 1] /\ Base' = Base
    BY <1>2, <1>4, <1>6, <2>3, <2>5 DEF Store, Top, Base
  <2>7. ASSUME Rescues(Frame) PROVE Even(Base, stores[Top - 1], Nobody)
    <3> DEFINE k == Len(frames)
    <3>1. k \in DOMAIN frames /\ k \in Nat \ {0} /\ Frame = frames[k]
          /\ Level(frames, k) = Top
      BY <1>2
    <3> HIDE DEF k
    <3>2. Level(frames, k) = Level(frames, k - 1) + IF Opens(frames[k]) THEN 1 ELSE 0
      BY <3>1, LevelNext
    <3>3. Level(frames, k - 1) \in Nat
      <4>1. k - 1 \in Nat
        BY <3>1
      <4>2. QED
        BY <4>1, LevelType
    <3>4. Level(frames, k - 1) = Top - 1
      BY <1>2, <3>1, <3>2, <3>3
    <3>5. QED
      BY <1>2, <1>6, <2>7, <3>1, <3>4 DEF Rescued
  <2>8. Promised(Below, control') = Nobody
    BY <2>2 DEF Promised
  <2>9. QED
    BY <1>1, <2>1, <2>4, <2>5, <2>6, <2>7, <2>8 DEF Delivering
<1>9. QED
  BY <1>7, <1>8

\* A response is over, with all its messages or with an error.
LEMMA ResponseEndsDelivering ==
    ASSUME CallStack, Delivering, response_failed \/ response_done
    PROVE  Delivering' /\ Base' = Base
<1>1. /\ frames # <<>> /\ Frame.kind = "response" /\ frames' = Below /\ UNCHANGED stores
  BY DEF response_failed, response_done, AtFrame
<1>2. stores' = stores /\ Base' = Base /\ Store' = Store
  BY <1>1 DEF Base, Store, Top
<1>3. CASE response_failed
  <2>1. control' = Failed
    BY <1>3 DEF response_failed, CallStack, ControlType, Idle, Proceed, Failed
  <2>2. Failed.step # "execute"
    BY DEF Failed
  <2>3. Rescued(stores, Below) /\ Careful(Below, Failed)
    BY <1>1, <2>2, PoppedDelivering
  <2>4. QED
    BY <1>1, <1>2, <2>1, <2>3 DEF Delivering
<1>4. CASE response_done
  <2>1. /\ control = Proceed /\ Frame.msgs = <<>>
        /\ \E data : control' = Returned(data)
    BY <1>4 DEF response_done
  <2>2. PICK data : control' = Returned(data)
    BY <2>1
  <2>3. Returned(data).step = "returned"
    BY DEF Returned
  <2>4. Rescued(stores, Below) /\ Careful(Below, Returned(data))
    BY <1>1, <2>3, PoppedDelivering
  <2>5. Promised(Below, Returned(data)) = Nobody
    BY <2>3 DEF Promised
  <2>6. Promised(frames, control) = Nobody /\ control # Failed
    BY <1>1, <2>1 DEF Promised, Answering, Proceed, Failed, Frame
  <2>7. QED
    BY <1>1, <1>2, <2>2, <2>4, <2>5, <2>6 DEF Delivering
<1>5. QED
  BY <1>3, <1>4

\* The innermost frame is changed into one of its kind that sends no message it did
\* not; or, if it rescues, opens the same.
LEMMA ChangedDelivering ==
    ASSUME CallStack, Delivering, frames # <<>>, NEW f, f.kind = Frame.kind,
           NEW gr, gr = [frames EXCEPT ![Len(frames)] = f],
           f.kind # "submsg", f.kind = "app" => f.sender = Frame.sender,
           f.kind = "response" /\ f.contract \in Pair => f.msgs = <<>>,
           NEW c, c.step # "execute"
    PROVE  Rescued(stores, gr) /\ Careful(gr, c)
<1> DEFINE k == Len(frames)
<1>1. /\ frames \in Seq(FrameType) /\ k \in Nat \ {0} /\ DOMAIN frames = 1 .. k /\ k \in Nat
      /\ Frame = frames[k] /\ Rescued(stores, frames) /\ Careful(frames, control)
  BY DeliveringStack
<1>2. /\ DOMAIN gr = 1 .. k /\ gr[k] = f /\ \A n \in 1 .. k - 1 : gr[n] = frames[n]
  <2>1. gr = [frames EXCEPT ![k] = f]
    OBVIOUS
  <2> HIDE DEF k
  <2>2. QED
    BY ONLY <1>1, <2>1
<1> HIDE DEF k
<1>3. \A n \in 1 .. k : n = k \/ n \in 1 .. k - 1
  BY <1>1
<1>4. \A n \in 1 .. k : /\ Opens(gr[n]) <=> Opens(frames[n])
                        /\ Rescues(gr[n]) => Rescues(frames[n])
  <2>1. (Opens(f) <=> Opens(Frame)) /\ (Rescues(f) => Rescues(Frame))
    BY DEF Opens, Rescues
  <2>2. QED
    BY <1>1, <1>2, <1>3, <2>1
<1>5. \A n \in 1 .. k : Rescues(gr[n]) => Even(stores[1], stores[Level(gr, n - 1)], Nobody)
  <2>1. 1 .. k \subseteq DOMAIN frames /\ \A i \in 1 .. Level(frames, k) - 1 : stores[i] = stores[i]
    BY <1>1
  <2>2. QED
    BY ONLY <1>1, <1>4, <2>1, RescuedKept
<1>6. Rescued(stores, gr)
  BY <1>2, <1>5 DEF Rescued
<1>7. ASSUME NEW n \in 1 .. k
      PROVE  /\ gr[n].kind = "app" => gr[n].sender \notin Pair
             /\ gr[n].kind = "submsg" /\ gr[n].contract \in Pair => gr[n].reply_on = "Never"
             /\ gr[n].kind = "response" =>
                  /\ Orderly(gr[n].contract, gr[n].msgs)
                  /\ ~(gr[n].contract \in Pair /\ gr[n].msgs # <<>>)
  <2>1. CASE n = k
    <3>1. f.kind = "app" => f.sender \notin Pair
      BY <1>1 DEF Careful
    <3>2. f.kind = "response" =>
            Orderly(f.contract, f.msgs) /\ ~(f.contract \in Pair /\ f.msgs # <<>>)
      BY DEF Orderly
    <3>3. QED
      BY <1>2, <2>1, <3>1, <3>2
  <2>2. CASE n \in 1 .. k - 1
    <3>1. gr[n] = frames[n] /\ n \in DOMAIN frames /\ n # Len(frames)
      BY <1>1, <1>2, <2>2 DEF k
    <3>2. QED
      BY <1>1, <3>1 DEF Careful
  <2>3. QED
    BY <1>3, <2>1, <2>2
<1>8. Careful(gr, c)
  BY <1>2, <1>7 DEF Careful
<1>9. QED
  BY <1>6, <1>8

\* A submessage begins: its message is in order, and promises what its response did.
LEMMA SubmsgDelivering ==
    ASSUME CallStack, Delivering, execute_submsg
    PROVE  Delivering' /\ Base' = Base
<1>1. /\ control = Proceed /\ frames # <<>> /\ Frame.kind = "response" /\ Frame.msgs # <<>>
      /\ stores' = Append(stores, Store)
      /\ frames' = Append([frames EXCEPT ![Len(frames)].msgs = Tail(@)],
                          SubmsgFrame(Frame.contract, Head(Frame.msgs).reply_on))
      /\ control' = Executing(Frame.contract, Head(Frame.msgs).msg)
  BY DEF execute_submsg, AtFrame, SubmsgSender
<1> DEFINE k == Len(frames)
           from == Frame.contract
           m == Head(Frame.msgs).msg
           rest == [Frame EXCEPT !.msgs = Tail(Frame.msgs)]
           fr == [frames EXCEPT ![k] = rest]
           f == SubmsgFrame(from, Head(Frame.msgs).reply_on)
           gr == frames'
           sts == stores'
           c == control'
<1>2. /\ stores \in Seq(CoreStore) /\ frames \in Seq(FrameType)
      /\ k \in Nat \ {0} /\ k \in Nat /\ DOMAIN frames = 1 .. k
      /\ Frame = frames[k] /\ Frame \in FrameType
      /\ Top \in Nat /\ Top >= 2 /\ DOMAIN stores = 1 .. Top
      /\ Top = Level(frames, k)
      /\ \A n \in 1 .. Top : Own(stores[n])
      /\ Rescued(stores, frames) /\ Careful(frames, control)
  BY <1>1, DeliveringStack
<1>3. Frame.msgs \in Seq(SubMsg) /\ Tail(Frame.msgs) \in Seq(SubMsg)
  BY <1>1, <1>2, FrameParts
<1>4. Orderly(from, Frame.msgs)
  <2>1. k \in DOMAIN frames /\ frames[k].kind = "response"
    BY <1>1, <1>2
  <2> HIDE DEF k
  <2>2. QED
    BY <1>2, <2>1 DEF Careful
<1>5. /\ from \in Pair => /\ Tail(Frame.msgs) = <<>> /\ Head(Frame.msgs).reply_on = "Never"
      /\ Sends(from, m)
  <2>1. CASE from \notin Pair
    BY <2>1, StrangersPromiseNothing
  <2>2. CASE from \in Pair
    <3>1. PICK n : Frame.msgs = <<add_message(n)>> /\ Sends(from, n)
      BY <1>1, <1>4, <2>2 DEF Orderly
    <3>2. Tail(Frame.msgs) = <<>> /\ Head(Frame.msgs) = add_message(n)
      BY <3>1
    <3>3. add_message(n).msg = n /\ add_message(n).reply_on = "Never"
      BY DEF add_message
    <3>4. QED
      BY <3>1, <3>2, <3>3
  <2>3. QED
    BY <2>1, <2>2
<1>6. Promised(frames, control) = DueTo(from, m) /\ Even(Base, Store, DueTo(from, m))
  <2>1. Proceed.step = "proceed" /\ Proceed # Failed
    BY DEF Proceed, Failed
  <2>2. Promised(frames, control) = DueTo(from, m)
    BY <1>1, <1>2, <2>1 DEF Promised, Answering
  <2>3. QED
    BY <1>1, <2>1, <2>2 DEF Delivering
<1>7. /\ rest.kind = "response" /\ rest.contract = from /\ rest.msgs = Tail(Frame.msgs)
      /\ rest \in FrameType
  BY <1>1, <1>2, <1>3 DEF FrameType
<1>8. f.kind = "submsg" /\ f.contract = from /\ f.reply_on = Head(Frame.msgs).reply_on
  BY DEF SubmsgFrame
<1>9. gr = Append(fr, f)
  BY <1>1, <1>2
<1> HIDE DEF rest, f, from, m
<1>10. Rescued(stores, fr) /\ Careful(fr, Failed)
  <2>1. rest.kind = Frame.kind /\ rest.kind # "submsg" /\ rest.kind # "app"
        /\ (rest.contract \in Pair => rest.msgs = <<>>) /\ Failed.step # "execute"
    BY <1>1, <1>5, <1>7 DEF Failed
  <2>2. QED
    BY <1>1, <2>1, ChangedDelivering
<1>11. fr \in Seq(FrameType) /\ Len(fr) = k /\ DOMAIN fr = 1 .. k
  BY <1>2, <1>7
<1>12. Level(fr, k) = Top
  <2>1. fr[k] = rest /\ \A n \in 1 .. k - 1 : fr[n] = frames[n]
    BY <1>2
  <2>2. Opens(rest) <=> Opens(frames[k])
    BY <1>1, <1>2, <1>7 DEF Opens
  <2> HIDE DEF fr, k
  <2>3. \A n \in 1 .. k : n = k \/ n \in 1 .. k - 1
    BY <1>2
  <2>4. \A n \in 1 .. k : Opens(fr[n]) <=> Opens(frames[n])
    BY <2>1, <2>2, <2>3
  <2>5. Level(fr, k) = Level(frames, k)
    BY ONLY <1>2, <2>4, LevelAgree
  <2>6. QED
    BY <1>2, <2>5
<1> HIDE DEF fr, k, gr, sts
<1>13. /\ Len(gr) = k + 1 /\ gr[k + 1] = f /\ DOMAIN gr = 1 .. k + 1
       /\ \A n \in 1 .. k : gr[n] = fr[n]
  BY <1>2, <1>9, <1>11
<1>14. \A n \in DOMAIN gr : n \in 1 .. k \/ n = k + 1
  BY <1>2, <1>13
<1>15. Store = stores[Top] /\ Store \in CoreStore /\ Base = stores[1]
  BY <1>2 DEF Store, Base
<1>16. /\ sts \in Seq(CoreStore) /\ Len(sts) = Top + 1 /\ sts[Top + 1] = Store
       /\ \A n \in 1 .. Top : sts[n] = stores[n]
  BY <1>1, <1>2, <1>15, OpenedStores DEF sts
<1>17. \A n \in DOMAIN sts : Own(sts[n])
  <2>1. \A n \in DOMAIN sts : n = Top + 1 \/ n \in 1 .. Top
    BY <1>2, <1>16
  <2>2. Top \in 1 .. Top
    BY <1>2
  <2>3. QED
    BY <1>2, <1>15, <1>16, <2>1, <2>2
<1>18. Base' = Base /\ Store' = Store /\ sts[1] = stores[1]
  BY <1>2, <1>15, <1>16 DEF Base, Store, Top, sts
<1>19. Rescued(sts, gr)
  <2>1. \A n \in 1 .. k : Rescues(gr[n]) => Even(sts[1], sts[Level(gr, n - 1)], Nobody)
    <3>1. /\ 1 .. k \subseteq DOMAIN fr
          /\ \A n \in 1 .. k : /\ Opens(gr[n]) <=> Opens(fr[n])
                               /\ Rescues(gr[n]) => Rescues(fr[n])
          /\ \A i \in 1 .. Level(fr, k) - 1 : sts[i] = stores[i]
      BY <1>2, <1>11, <1>12, <1>13, <1>16
    <3>2. QED
      BY ONLY <1>2, <1>10, <3>1, RescuedKept
  <2>2. ASSUME Rescues(f)
        PROVE  Even(sts[1], sts[Level(gr, (k + 1) - 1)], Nobody)
    <3>1. from \notin Pair
      BY <1>5, <1>8, <2>2 DEF Rescues
    <3>2. Even(Base, Store, Nobody)
      BY <1>6, <3>1, StrangersPromiseNothing
    <3>3. (k + 1) - 1 = k /\ \A i \in 1 .. k : Opens(gr[i]) <=> Opens(fr[i])
      BY <1>2, <1>13
    <3>4. Level(gr, k) = Top
      BY ONLY <1>2, <1>12, <3>3, LevelAgree
    <3>5. sts[Top] = Store
      BY <1>2, <1>15, <1>16
    <3>6. QED
      BY <1>15, <1>18, <3>2, <3>3, <3>4, <3>5
  <2>3. QED
    BY <1>13, <1>14, <2>1, <2>2 DEF Rescued
<1>20. c.step = "execute" /\ c.sender = from /\ c.msg = m
  BY <1>1 DEF Executing, from, m
<1>21. Careful(gr, c)
  <2>1. SUFFICES ASSUME NEW n \in DOMAIN gr
        PROVE  /\ gr[n].kind = "app" => gr[n].sender \notin Pair
               /\ gr[n].kind = "submsg" /\ gr[n].contract \in Pair =>
                    gr[n].reply_on = "Never"
               /\ gr[n].kind = "response" =>
                    /\ Orderly(gr[n].contract, gr[n].msgs)
                    /\ ~(gr[n].contract \in Pair /\ gr[n].msgs # <<>>)
    BY <1>5, <1>20 DEF Careful
  <2>2. CASE n = k + 1
    BY <1>5, <1>8, <1>13, <2>2
  <2>3. CASE n \in 1 .. k
    <3>1. gr[n] = fr[n] /\ n \in DOMAIN fr /\ Failed # Proceed
      BY <1>11, <1>13, <2>3 DEF Failed, Proceed
    <3>2. QED
      BY <1>10, <3>1 DEF Careful
  <2>4. QED
    BY <1>14, <2>2, <2>3
<1>22. Promised(gr, c) = DueTo(from, m)
  BY <1>20 DEF Promised
<1>23. QED
  BY <1>6, <1>17, <1>18, <1>19, <1>21, <1>22 DEF Delivering, gr, sts

\* A response goes on: one of the two has no more messages.
LEMMA ContinueDelivering ==
    ASSUME CallStack, Delivering, response_continued
    PROVE  Delivering' /\ Base' = Base
<1>1. /\ control.step = "returned" /\ frames # <<>> /\ Frame.kind = "response"
      /\ frames' = [frames EXCEPT ![Len(frames)].data =
                      IF control.data = Nothing THEN @ ELSE control.data]
      /\ control' = Proceed /\ UNCHANGED stores
  BY DEF response_continued, AtFrame
<1> DEFINE f == [Frame EXCEPT !.data = IF control.data = Nothing THEN @ ELSE control.data]
           gr == [frames EXCEPT ![Len(frames)] = f]
<1>2. /\ frames \in Seq(FrameType) /\ Frame \in FrameType /\ Len(frames) \in DOMAIN frames
      /\ Frame = frames[Len(frames)] /\ Careful(frames, control)
  BY <1>1, DeliveringStack
<1>3. /\ f.kind = "response" /\ f.contract = Frame.contract /\ f.msgs = Frame.msgs
  BY <1>1, <1>2 DEF FrameType
<1>4. frames' = gr
  BY <1>1, <1>2
<1> HIDE DEF f
<1>5. control # Proceed /\ Proceed.step = "proceed"
  BY <1>1 DEF Proceed
<1>6. Frame.contract \in Pair => Frame.msgs = <<>>
  BY <1>1, <1>2, <1>5 DEF Careful
<1>7. Rescued(stores, gr) /\ Careful(gr, Proceed)
  BY <1>1, <1>3, <1>5, <1>6, ChangedDelivering
<1>8. gr[Len(gr)] = f
  BY <1>2
<1> HIDE DEF gr
<1>9. Promised(gr, Proceed) = Nobody
  <2>1. Promised(gr, Proceed) = Answering(Frame.contract, Frame.msgs)
    BY <1>3, <1>5, <1>8 DEF Promised
  <2>2. QED
    BY <1>6, <2>1, StrangersPromiseNothing DEF Answering
<1>10. Promised(frames, control) = Nobody /\ control # Failed
  BY <1>1 DEF Promised, Failed
<1>11. Base' = Base /\ Store' = Store
  BY <1>1 DEF Base, Store, Top
<1>12. QED
  BY <1>1, <1>4, <1>7, <1>9, <1>10, <1>11 DEF Delivering

\* The next message of a transaction is of its signer, neither of the two.
LEMMA NextMessageDelivering ==
    ASSUME CallStack, Delivering, next_message
    PROVE  Delivering' /\ Base' = Base
<1>1. /\ control.step \in {"proceed", "returned"} /\ frames # <<>> /\ Frame.kind = "app"
      /\ frames' = [frames EXCEPT ![1].begun = @ + 1]
      /\ control' = Executing(Frame.sender, Frame.msgs[Frame.begun + 1])
      /\ UNCHANGED stores
  BY DEF next_message, AtFrame
<1> DEFINE f == [Frame EXCEPT !.begun = @ + 1]
           gr == [frames EXCEPT ![Len(frames)] = f]
           m == Frame.msgs[Frame.begun + 1]
           c == control'
<1>2. /\ frames \in Seq(FrameType) /\ Frame \in FrameType /\ Len(frames) \in DOMAIN frames
      /\ Frame = frames[Len(frames)] /\ Careful(frames, control) /\ Len(frames) = 1
  <2>1. Len(frames) = 1
    BY <1>1, CallStackFacts
  <2>2. QED
    BY <1>1, <2>1, DeliveringStack
<1>3. f.kind = "app" /\ f.sender = Frame.sender
  BY <1>1, <1>2 DEF FrameType
<1>4. frames' = gr
  BY <1>1, <1>2
<1>5. Frame.sender \notin Pair
  BY <1>1, <1>2 DEF Careful
<1> HIDE DEF f, m
<1>6. Rescued(stores, gr) /\ Careful(gr, Failed)
  <2>1. Failed.step # "execute"
    BY DEF Failed
  <2>2. QED
    BY <1>1, <1>3, <2>1, ChangedDelivering
<1>7. Len(gr) = 1 /\ gr[1] = f /\ DOMAIN gr = {1}
  BY <1>2
<1> HIDE DEF gr
<1>8. c.step = "execute" /\ c.sender = Frame.sender /\ c.msg = m
  BY <1>1 DEF Executing, m
<1>9. Sends(Frame.sender, m) /\ DueTo(Frame.sender, m) = Nobody
  BY <1>5, StrangersPromiseNothing
<1>10. Careful(gr, c)
  BY <1>3, <1>5, <1>7, <1>8, <1>9 DEF Careful
<1>11. Promised(gr, c) = Nobody
  BY <1>8, <1>9 DEF Promised
<1>12. Promised(frames, control) = Nobody /\ control # Failed
  BY <1>1, <1>2 DEF Promised, Failed
<1>13. Base' = Base /\ Store' = Store
  BY <1>1 DEF Base, Store, Top
<1>14. QED
  BY <1>1, <1>4, <1>6, <1>10, <1>11, <1>12, <1>13 DEF Delivering

\* A transaction starts for a user, or for no one.
LEMMA StartSigner ==
    ASSUME execute_multi \/ wasm_sudo
    PROVE  \E from, msgs, step : /\ from \notin Pair /\ step.step \in {"proceed", "sudo"}
                                 /\ StartWith(AppFrame(from, msgs), step)
<1>1. CASE execute_multi
  <2>1. PICK tx \in Transactions : StartWith(AppFrame(tx.sender, tx.msgs), Proceed)
    BY <1>1 DEF execute_multi
  <2>2. tx.sender \notin Pair
    BY ReceiverAssumption, TheTwo
  <2>3. Proceed.step = "proceed"
    BY DEF Proceed
  <2>4. QED
    BY <2>1, <2>2, <2>3
<1>2. CASE wasm_sudo
  <2>1. PICK contract \in Contracts :
          StartWith(AppFrame(Nothing, <<>>), [step |-> "sudo", contract |-> contract])
    BY <1>2 DEF wasm_sudo
  <2> DEFINE step == [step |-> "sudo", contract |-> contract]
  <2>2. step.step = "sudo"
    OBVIOUS
  <2> HIDE DEF step
  <2>3. StartWith(AppFrame(Nothing, <<>>), step)
    BY <2>1 DEF step
  <2>4. Nothing \notin Pair
    BY TheTwo
  <2>5. QED
    BY <2>2, <2>3, <2>4
<1>3. QED
  BY <1>1, <1>2

\* Between transactions the storage of the app is even with itself.
LEMMA IdleEven ==
    ASSUME CallStack, Delivering, control = Idle
    PROVE  /\ frames = <<>> /\ Top = 1 /\ Store = Base /\ Even(Base, Base, Nobody)
<1>1. frames = <<>> /\ Top = 1
  BY CallStackFacts DEF CallStack, WaitsOn
<1>2. control # Failed /\ Promised(frames, control) = Nobody
  BY DEF Idle, Failed, Promised
<1>3. QED
  BY <1>1, <1>2 DEF Delivering, Base, Store

\* A transaction starts on a copy of the storage of the app.
LEMMA StartDelivering ==
    ASSUME CallStack, Delivering, execute_multi \/ wasm_sudo
    PROVE  Delivering' /\ Base' = Base
<1>1. PICK from, msgs, step : /\ from \notin Pair /\ step.step \in {"proceed", "sudo"}
                              /\ StartWith(AppFrame(from, msgs), step)
  BY StartSigner
<1> DEFINE f == AppFrame(from, msgs)
           gr == frames'
           sts == stores'
<1>2. f.kind = "app" /\ f.sender = from
  BY DEF AppFrame
<1>3. /\ control = Idle /\ sts = Append(stores, Base) /\ gr = <<f>> /\ control' = step
  BY <1>1 DEF StartWith
<1> HIDE DEF f
<1>4. Top = 1 /\ Even(Base, Base, Nobody)
  BY <1>3, IdleEven
<1>5. stores \in Seq(GoodStore) /\ Base \in GoodStore /\ Own(Base)
  BY CallStackFacts, DeliveringFacts DEF CallStack
<1>6. /\ Len(sts) = 2 /\ sts[1] = Base /\ sts[2] = Base /\ DOMAIN sts = {1, 2}
  <2>1. /\ sts \in Seq(GoodStore) /\ Len(sts) = 2 /\ sts[2] = Base /\ sts[1] = stores[1]
    BY <1>3, <1>4, <1>5, OpenedStores
  <2>2. QED
    BY <2>1 DEF Base
<1>7. Len(gr) = 1 /\ gr[1] = f /\ DOMAIN gr = {1}
  BY <1>3
<1>8. Base' = Base /\ Store' = Base
  BY <1>6 DEF Base, Store, Top
<1> HIDE DEF gr, sts
<1>9. Rescued(sts, gr)
  <2>1. Level(gr, 1 - 1) = 1
    BY LevelZero
  <2>2. QED
    BY <1>4, <1>6, <1>7, <2>1 DEF Rescued
<1>10. Careful(gr, step)
  BY <1>1, <1>2, <1>7 DEF Careful
<1>11. Promised(gr, step) = Nobody
  BY <1>1, <1>2, <1>7 DEF Promised
<1>12. \A n \in DOMAIN sts : Own(sts[n])
  BY <1>5, <1>6
<1>13. QED
  BY <1>3, <1>4, <1>8, <1>9, <1>10, <1>11, <1>12 DEF Delivering, gr, sts

\* Minting, in the bank, is none of the token's.
LEMMA MintDelivering ==
    ASSUME CallStack, Delivering, bank_sudo
    PROVE  Delivering' /\ Base'.contract_data = Base.contract_data
<1>1. PICK to \in Accounts, amount \in Mints \ {0} :
        stores' = Written([Store EXCEPT !.balances = mint(@, to, amount),
                                        !.history.issued = @ + amount])
  BY DEF bank_sudo
<1> DEFINE new == [Store EXCEPT !.balances = mint(@, to, amount),
                                !.history.issued = @ + amount]
           sts == stores'
<1>2. amount \in Nat
  BY <1>1, RouterAssumption
<1>3. /\ control = Idle /\ UNCHANGED <<frames, control>>
  BY DEF bank_sudo
<1>4. /\ stores \in Seq(GoodStore) /\ Store \in GoodStore /\ Top = 1 /\ Store = Base
      /\ frames = <<>> /\ Even(Base, Base, Nobody) /\ Own(Base)
  BY <1>3, IdleEven, CallStackFacts, DeliveringFacts DEF CallStack
<1>5. /\ new \in GoodStore /\ new.contracts = Base.contracts
      /\ new.contract_data = Base.contract_data
  BY <1>2, <1>4, MintedStore DEF GoodStore, CoreStore
<1>6. sts = Written(new)
  BY <1>1
<1> HIDE DEF new
<1>7. sts \in Seq(GoodStore) /\ Len(sts) = 1 /\ sts[1] = new
  BY <1>4, <1>5, <1>6, WrittenStores
<1>8. Base' = new /\ Store' = new /\ DOMAIN sts = {1}
  BY <1>7 DEF Base, Store, Top
<1> HIDE DEF sts
<1>9. Own(new) /\ Even(new, new, Nobody)
  BY <1>4, <1>5, OwnAgree, EvenAgree
<1>10. Rescued(sts, frames') /\ Careful(frames', control')
  BY <1>3, <1>4 DEF Rescued, Careful, Idle
<1>11. Promised(frames', control') = Nobody
  BY <1>3 DEF Promised, Idle
<1>12. QED
  BY <1>5, <1>7, <1>8, <1>9, <1>10, <1>11 DEF Delivering, sts

\* A transaction ends: what it left is even, or what there was before it.
LEMMA AppEndsDelivering ==
    ASSUME CallStack, Delivering, app_succeeded \/ app_failed
    PROVE  /\ Delivering'
           /\ \A user \in Users :
                Base'.contract_data[Token][user] <= Base.contract_data[Token][user]
<1>1. /\ frames # <<>> /\ Frame.kind = "app" /\ frames' = Below /\ control' = Idle
      /\ \/ stores' = Committed(Store) /\ control.step \in {"proceed", "returned"}
         \/ stores' = Dropped
  BY DEF app_succeeded, app_failed, AtFrame
<1>2. /\ stores \in Seq(CoreStore) /\ Store \in CoreStore /\ Len(frames) = 1
      /\ frames \in Seq(FrameType) /\ Frame = frames[1] /\ Rescued(stores, frames)
      /\ Top \in Nat /\ Top >= 2 /\ Top = Level(frames, 1) /\ Own(Store) /\ Own(Base)
  BY <1>1, DeliveringStack, DeliveringFacts, CallStackFacts
<1>3. Opens(frames[1]) /\ Rescues(frames[1]) /\ 1 \in DOMAIN frames
  BY <1>1, <1>2 DEF Opens, Rescues
<1>4. Level(frames, 1 - 1) = 1
  BY LevelZero
<1>5. Top = 2
  <2>1. Level(frames, 1) = Level(frames, 1 - 1) + IF Opens(frames[1]) THEN 1 ELSE 0
    BY LevelNext
  <2>2. QED
    BY <1>2, <1>3, <1>4, <2>1
<1>6. frames' = <<>>
  BY <1>1, <1>2, BelowFrames
<1>7. /\ Even(Base, Base, Nobody)
      /\ \A user \in Users : /\ Base.contract_data[Token][user] \in Nat
                             /\ Nobody[user] = 0
  <2>1. Even(stores[1], stores[1], Nobody)
    BY <1>2, <1>3, <1>4 DEF Rescued
  <2>2. QED
    BY <2>1, DeliveringFacts, TheTwo DEF Base, Nobody
<1> DEFINE sts == stores'
<1>8. \E store : /\ Len(sts) = 1 /\ sts[1] = store /\ sts \in Seq(CoreStore) /\ Own(store)
                 /\ Even(store, store, Nobody)
                 /\ \A user \in Users :
                      store.contract_data[Token][user] <= Base.contract_data[Token][user]
  <2>1. CASE stores' = Committed(Store) /\ control.step \in {"proceed", "returned"}
    <3>1. sts \in Seq(CoreStore) /\ Len(sts) = Top - 1 /\ sts[Top - 1] = Store
      BY <1>2, <2>1, CommittedStores
    <3>2. Promised(frames, control) = Nobody /\ control # Failed
      BY <1>1, <1>2, <2>1 DEF Promised, Failed
    <3>3. Even(Base, Store, Nobody)
      BY <3>2 DEF Delivering
    <3>4. Even(Store, Store, Nobody)
      BY <1>2, <3>3, EvenItself
    <3>5. ASSUME NEW user \in Users
          PROVE  Store.contract_data[Token][user] <= Base.contract_data[Token][user]
      BY <1>7, <3>3 DEF Even
    <3>6. QED
      BY <1>2, <1>5, <3>1, <3>4, <3>5
  <2>2. CASE stores' = Dropped
    <3>1. sts \in Seq(CoreStore) /\ Len(sts) = Top - 1 /\ sts[1] = stores[1]
      BY <1>2, <1>5, <2>2, DroppedStores
    <3>2. ASSUME NEW user \in Users
          PROVE  Base.contract_data[Token][user] <= Base.contract_data[Token][user]
      BY <1>7
    <3>3. sts[1] = Base
      BY <3>1 DEF Base
    <3>4. QED
      BY <1>2, <1>5, <1>7, <3>1, <3>2, <3>3
  <2>3. QED
    BY <1>1, <2>1, <2>2
<1>9. PICK store : /\ Len(sts) = 1 /\ sts[1] = store /\ sts \in Seq(CoreStore) /\ Own(store)
                   /\ Even(store, store, Nobody)
                   /\ \A user \in Users :
                        store.contract_data[Token][user] <= Base.contract_data[Token][user]
  BY <1>8
<1>10. Base' = store /\ Store' = store /\ DOMAIN sts = {1}
  BY <1>9 DEF Base, Store, Top
<1> HIDE DEF sts
<1>11. Rescued(sts, frames') /\ Careful(frames', control')
  BY <1>1, <1>6 DEF Rescued, Careful, Idle
<1>12. Promised(frames', control') = Nobody
  BY <1>1 DEF Promised, Idle
<1>13. QED
  BY <1>9, <1>10, <1>11, <1>12 DEF Delivering, sts

\* At first the vault has booked what it holds.
LEMMA InitDelivering ==
    ASSUME Init
    PROVE  Delivering
<1>1. /\ Len(stores) = 1 /\ frames = <<>> /\ control = Idle
      /\ stores[1].contracts = InitialContracts /\ stores[1].contract_data = InitialData
      /\ DOMAIN stores = {1}
  BY DEF Init
<1>2. Base = stores[1] /\ Store = stores[1]
  BY <1>1 DEF Base, Store, Top
<1> DEFINE store == stores[1]
<1>3. Own(store)
  BY <1>1, ReceiverAssumption DEF Own, Pair
<1> HIDE DEF store
<1>4. /\ store.contract_data[Token] \in Holdings /\ Nobody[Vault] = 0
      /\ \A user \in Users : Nobody[user] = 0 /\ store.contract_data[Token][user] \in Nat
      /\ store.contract_data[Token][Vault] \in Nat
  BY <1>3, TheTwo DEF Own, Holdings, Nobody
<1>5. SumFunction(store.contract_data[Vault]) = store.contract_data[Token][Vault]
  BY <1>1, ReceiverAssumption DEF store
<1>6. Even(store, store, Nobody)
  BY <1>4, <1>5 DEF Even
<1>7. Rescued(stores, frames) /\ Careful(frames, control)
  BY <1>1 DEF Rescued, Careful, Idle
<1>8. Promised(frames, control) = Nobody
  BY <1>1 DEF Promised, Idle
<1>9. QED
  BY <1>1, <1>2, <1>3, <1>6, <1>7, <1>8 DEF Delivering, store

\* A message is executed, or a contract called.
LEMMA EffectDelivering ==
    ASSUME ResponsesAreTyped, TokenAndVaultAnswer, CallStack, Delivering,
           Message \/ reply \/ call_sudo
    PROVE  Delivering' /\ Base' = Base
<1>1. control.step \in {"execute", "reply", "sudo"}
  BY DEF Message, bank_send, bank_burn, wasm_execute, wasm_instantiate, wasm_migrate,
         unsupported, Receives, reply, call_sudo
<1>2. control # Proceed /\ frames # <<>>
  BY <1>1, CallStackFacts DEF Proceed
<1>3. Outcome(Base)
  BY BankDelivers, ExecuteDelivers, InstantiateDelivers, MigrateDelivers, ReplyDelivers
     DEF Message
<1>4. QED
  BY <1>2, <1>3, OutcomeDelivering

\* Every step keeps what is delivered, and gives users no tokens.
LEMMA NextDelivering ==
    ASSUME ResponsesAreTyped, TokenAndVaultAnswer, CallStack, Delivering, [Next]_vars
    PROVE  Delivering' /\ \A user \in Users : Tokens'[user] <= Tokens[user]
<1>1. \A user \in Users : Base.contract_data[Token][user] \in Nat
  BY DeliveringFacts
<1>2. ASSUME Delivering', Base'.contract_data = Base.contract_data
      PROVE  Delivering' /\ \A user \in Users : Tokens'[user] <= Tokens[user]
  BY <1>1, <1>2 DEF Tokens
<1>3. CASE UNCHANGED vars
  <2>1. Base' = Base /\ Store' = Store /\ stores' = stores /\ frames' = frames
        /\ control' = control
    BY <1>3 DEF vars, Base, Store, Top
  <2>2. Delivering'
    BY <2>1 DEF Delivering
  <2>3. QED
    BY <1>2, <2>1, <2>2
<1>4. CASE app_succeeded \/ app_failed
  BY <1>4, AppEndsDelivering DEF Tokens
<1>5. CASE bank_sudo
  BY <1>2, <1>5, MintDelivering
<1>6. CASE Message \/ reply \/ call_sudo
  BY <1>2, <1>6, EffectDelivering
<1>7. CASE execute_multi \/ wasm_sudo
  BY <1>2, <1>7, StartDelivering
<1>8. CASE submsg_succeeded \/ submsg_failed
  BY <1>2, <1>8, SubmsgEndsDelivering
<1>9. CASE response_failed \/ response_done
  BY <1>2, <1>9, ResponseEndsDelivering
<1>10. CASE execute_submsg \/ response_continued \/ next_message
  BY <1>2, <1>10, SubmsgDelivering, ContinueDelivering, NextMessageDelivering
<1>11. QED
  BY <1>3, <1>4, <1>5, <1>6, <1>7, <1>8, <1>9, <1>10 DEF Next, Start, Run, Submessage

-----------------------------------------------------------------------------
(* What the token and the vault promise each other.                        *)

\* In every storage, at every step of a transaction, the vault holds what it has booked
\* but for what the message on its way will book or send back, wherever the transaction
\* may fail (contract.rs execute_send, wasm.rs execute_submsg).
THEOREM DeliveryInvariant ==
    ASSUME ResponsesAreTyped, TokenAndVaultAnswer
    PROVE  Spec => [](CallStack /\ Delivering)
<1>1. Init => CallStack /\ Delivering
  BY InitCallStack, InitDelivering
<1>2. CallStack /\ Delivering /\ [Next]_vars => (CallStack /\ Delivering)'
  BY NextCallStack, NextDelivering
<1>3. QED
  BY <1>1, <1>2, PTL DEF Spec

\* After any transaction the vault holds the tokens it was told of, and no others,
\* whoever sends them, and whatever fails and is survived on the way (contract.rs
\* execute_send; wasm.rs execute_submsg).
THEOREM VaultHoldsDeposits ==
    ASSUME ResponsesAreTyped, TokenAndVaultAnswer
    PROVE  Spec => []DepositsAreHeld
<1>1. ASSUME CallStack, Delivering
      PROVE  DepositsAreHeld
  <2>1. Even(Base, Base, Nobody)
    <3>1. CASE frames = <<>>
      <4>1. control = Idle
        BY <1>1, <3>1 DEF CallStack, WaitsOn
      <4>2. QED
        BY <1>1, <4>1, IdleEven
    <3>2. CASE frames # <<>>
      <4>1. frames \in Seq(FrameType) /\ Stacked(frames) /\ Rescued(stores, frames)
        BY <1>1 DEF CallStack, Delivering
      <4>2. 1 \in DOMAIN frames
        BY <3>2, <4>1
      <4>3. frames[1].kind = "app"
        BY <4>1, <4>2 DEF Stacked
      <4>4. Level(frames, 1 - 1) = 1
        BY LevelZero
      <4>5. QED
        BY <4>1, <4>2, <4>3, <4>4 DEF Rescued, Rescues, Base
    <3>3. QED
      BY <3>1, <3>2
  <2>2. Own(Base) /\ Nobody[Vault] = 0
    BY <1>1, DeliveringFacts, TheTwo DEF Nobody
  <2>3. Base.contract_data[Token][Vault] = SumFunction(Base.contract_data[Vault]) + 0
    BY <2>1, <2>2 DEF Even
  <2>4. SumFunction(Base.contract_data[Vault]) \in Int
    <3>1. Base.contract_data[Vault] \in Holdings /\ Vault \in Accounts
      BY <2>2, TheTwo DEF Own
    <3>2. QED
      BY <3>1, BookedDeposit
  <2>5. QED
    BY <2>3, <2>4 DEF DepositsAreHeld, Tokens
<1>2. CallStack /\ Delivering => DepositsAreHeld
  BY <1>1
<1>3. QED
  BY <1>2, DeliveryInvariant, PTL

\* A Send to an address that is no contract moves nothing, also when its failure is
\* survived (cw20 README, Send; contract.rs execute_send).
THEOREM UsersReceiveNothing ==
    ASSUME ResponsesAreTyped, TokenAndVaultAnswer
    PROVE  Spec => OnlyContractsReceive
<1>1. CallStack /\ Delivering /\ [Next]_vars =>
        [\A user \in Users : Tokens'[user] <= Tokens[user]]_vars
  BY NextDelivering
<1>2. QED
  BY <1>1, DeliveryInvariant, PTL DEF Spec, OnlyContractsReceive

-----------------------------------------------------------------------------
(* The assumptions are met: by the contracts of TokenReceiver.             *)

LEMMA AnswersTyped ==
    ASSUME NEW writes \in Values \cup {Nothing}, NEW msgs \in Seq(SubMsg)
    PROVE  Accepts(writes, msgs) \subseteq ContractResponse
  BY DEF Accepts, ContractResponse

LEMMA RefusalsTyped ==
    ASSUME NEW data \in Values \cup {Nothing}
    PROVE  Refuses(data) \subseteq ContractResponse
<1>1. <<>> \in Seq(SubMsg)
  OBVIOUS
<1>2. QED
  BY <1>1 DEF Refuses, ContractResponse

LEMMA ReceiverMessages ==
    ASSUME Payloads = TokenMsgs, NEW contract \in Accounts, NEW owner \in Accounts,
           NEW amount \in Nat, NEW reply_on \in ReplyOns
    PROVE  /\ Send(owner, amount) \in CosmosMsg
           /\ into_cosmos_msg(contract, owner, amount) \in CosmosMsg
           /\ \A m \in CosmosMsg : [msg |-> m, reply_on |-> reply_on] \in SubMsg
<1>1. /\ [type |-> "Send", contract |-> owner, amount |-> amount] \in Payloads
      /\ [type |-> "Receive", sender |-> owner, amount |-> amount] \in Payloads
  BY DEF TokenMsgs
<1>2. ASSUME NEW m \in Payloads, NEW to \in Accounts
      PROVE  Execute(to, m) \in CosmosMsg
  BY <1>2 DEF Execute, CosmosMsg, Funds
<1>3. Token \in Accounts
  BY TheTwo
<1>4. /\ Send(owner, amount) \in CosmosMsg
      /\ into_cosmos_msg(contract, owner, amount) \in CosmosMsg
  BY <1>1, <1>2, <1>3 DEF Send, into_cosmos_msg
<1>5. \A m \in CosmosMsg : [msg |-> m, reply_on |-> reply_on] \in SubMsg
  BY DEF SubMsg
<1>6. QED
  BY <1>4, <1>5

\* The token, the vault and the caller answer with responses, whatever they hold and
\* are told: what the theorems assume of contracts is true of these.
THEOREM ReceiverContractsAnswer ==
    ASSUME Values = Holdings, Payloads = TokenMsgs, Caller \in Contracts,
           codes \subseteq {Token, Vault, Caller},
           \A code_id \in codes, data \in Values \cup {Nothing}, call \in EntryCall :
             Responses(code_id, data, call) = ResponsesOf(code_id, data, call)
    PROVE  ResponsesAreTyped /\ TokenAndVaultAnswer
<1>1. {Token, Vault} \subseteq codes
  BY ReceiverAssumption
<1>2. TokenAndVaultAnswer
  BY <1>1 DEF TokenAndVaultAnswer
<1> SUFFICES ASSUME NEW code_id \in codes, NEW data \in Values \cup {Nothing},
                    NEW call \in EntryCall
             PROVE  ResponsesOf(code_id, data, call) \subseteq ContractResponse
  BY <1>2 DEF ResponsesAreTyped
<1>3. Token # Vault /\ Caller # Token /\ Caller # Vault /\ Caller \in Accounts
      /\ Token \in Accounts /\ Vault \in Accounts
  BY TheTwo DEF Token, Vault, Caller, Accounts
<1>4. Refuses(data) \subseteq ContractResponse
  BY RefusalsTyped
<1>5. <<>> \in Seq(SubMsg) /\ \A m, n \in SubMsg : <<m>> \in Seq(SubMsg) /\ <<m, n>> \in Seq(SubMsg)
  OBVIOUS
<1>6. call.entry = "execute" => call.sender \in Accounts /\ call.msg \in TokenMsgs
  BY DEF EntryCall
<1>7. "Never" \in ReplyOns
  BY DEF ReplyOns
<1>8. CASE code_id = Caller
  <2>1. CallerMsgs \subseteq CosmosMsg
    BY <1>3, <1>7, ReceiverMessages DEF CallerMsgs
  <2>2. CallerSubmsgs \subseteq SubMsg
    BY <2>1 DEF CallerSubmsgs, SubMsg
  <2>3. ASSUME NEW msgs \in CallerSubmsgs \X CallerSubmsgs
        PROVE  Accepts(data, msgs) \subseteq ContractResponse
    <3>1. PICK m \in CallerSubmsgs, n \in CallerSubmsgs : msgs = <<m, n>>
      OBVIOUS
    <3>2. msgs \in Seq(SubMsg)
      BY <1>5, <2>2, <3>1
    <3>3. QED
      BY <3>2, AnswersTyped
  <2>4. Accepts(data, <<>>) \subseteq ContractResponse
    BY <1>5, AnswersTyped
  <2>5. CallerResponses(data, call) \subseteq ContractResponse
    <3> DEFINE pairs == {Accepts(data, msgs) : msgs \in CallerSubmsgs \X CallerSubmsgs}
    <3>1. \A answers \in pairs : answers \subseteq ContractResponse
      BY <2>3
    <3> HIDE DEF pairs
    <3>2. UNION pairs \subseteq ContractResponse
      BY <3>1
    <3>3. QED
      BY <1>4, <2>4, <3>2 DEF CallerResponses, pairs
  <2>6. QED
    BY <1>3, <1>8, <2>5 DEF ResponsesOf
<1>9. CASE code_id \in {Token, Vault} /\ data = Nothing
  BY <1>3, <1>4, <1>9 DEF ResponsesOf
<1>10. CASE code_id = Token /\ data # Nothing
  <2>1. data \in Holdings
    BY <1>10
  <2>2. ASSUME call.entry = "execute", call.msg.type = "Send"
        PROVE  execute_send(data, call) \subseteq ContractResponse
    <3> DEFINE amount == call.msg.amount
               contract == call.msg.contract
    <3>1. amount \in Nat /\ contract \in Accounts /\ call.sender \in Accounts
      BY <1>6, <2>2 DEF TokenMsgs
    <3> DEFINE note == into_cosmos_msg(contract, call.sender, amount)
               new == MovedTokens(data, call.sender, contract, amount)
    <3>2. note \in CosmosMsg
      BY <1>7, <3>1, ReceiverMessages
    <3>3. <<add_message(note)>> \in Seq(SubMsg)
      <4>1. [msg |-> note, reply_on |-> "Never"] \in SubMsg
        BY <1>3, <1>7, <3>2, ReceiverMessages
      <4> HIDE DEF note
      <4>2. QED
        BY <1>5, <4>1 DEF add_message
    <3> HIDE DEF note
    <3>4. amount <= data[call.sender] => new \in Values
      BY <2>1, <3>1, MovedParts
    <3> HIDE DEF new
    <3>5. amount <= data[call.sender] =>
            Accepts(new, <<add_message(note)>>) \subseteq ContractResponse
      BY <3>3, <3>4, AnswersTyped
    <3>6. execute_send(data, call)
            = IF amount # 0 /\ amount <= data[call.sender]
              THEN Accepts(new, <<add_message(note)>>) ELSE Refuses(data)
      BY DEF execute_send, note, new
    <3>7. QED
      BY <1>4, <3>5, <3>6
  <2>3. TokenResponses(data, call) \subseteq ContractResponse
    BY <1>4, <2>2 DEF TokenResponses
  <2>4. QED
    BY <1>3, <1>10, <2>3 DEF ResponsesOf
<1>11. CASE code_id = Vault /\ data # Nothing
  <2>1. data \in Holdings
    BY <1>11
  <2>2. ASSUME call.entry = "execute", call.msg.type = "Receive"
        PROVE  /\ Accepts([data EXCEPT ![call.msg.sender] = @ + call.msg.amount], <<>>)
                    \subseteq ContractResponse
               /\ Accepts(data, <<add_message(Send(call.msg.sender, call.msg.amount))>>)
                    \subseteq ContractResponse
    <3> DEFINE amount == call.msg.amount
               owner == call.msg.sender
    <3>1. amount \in Nat /\ owner \in Accounts
      BY <1>6, <2>2 DEF TokenMsgs
    <3> DEFINE note == Send(owner, amount)
               new == [data EXCEPT ![owner] = @ + amount]
    <3>2. note \in CosmosMsg
      BY <1>3, <1>7, <3>1, ReceiverMessages
    <3>3. <<add_message(note)>> \in Seq(SubMsg)
      <4>1. [msg |-> note, reply_on |-> "Never"] \in SubMsg
        BY <1>3, <1>7, <3>2, ReceiverMessages
      <4> HIDE DEF note
      <4>2. QED
        BY <1>5, <4>1 DEF add_message
    <3> HIDE DEF note
    <3>4. new \in Values
      BY <2>1, <3>1, BookedDeposit
    <3> HIDE DEF new
    <3>5. /\ Accepts(new, <<>>) \subseteq ContractResponse
          /\ Accepts(data, <<add_message(note)>>) \subseteq ContractResponse
      BY <1>5, <3>3, <3>4, AnswersTyped
    <3>6. QED
      BY <3>5 DEF note, new
  <2>3. VaultResponses(data, call) \subseteq ContractResponse
    BY <1>4, <2>2 DEF VaultResponses
  <2>4. QED
    BY <1>3, <1>11, <2>3 DEF ResponsesOf
<1>12. QED
  BY <1>8, <1>9, <1>10, <1>11

=============================================================================
