--------------------------- MODULE MCTokenReceiver ---------------------------
(* A small instance of TokenReceiver: a user and the caller hold tokens.   *)
EXTENDS TokenReceiver

CONSTANTS alice, bob

MCUsers == {alice, bob}
NoBalances == [account \in Accounts |-> 0]
ThreeContracts == [address \in Contracts |-> [code_id |-> address, admin |-> Nothing]]

Holders == [account \in Accounts |-> CASE account = alice  -> 1
                                       [] account = Caller -> 2
                                       [] OTHER            -> 0]
DataOfThem == [address \in Contracts |-> CASE address = Token -> Holders
                                           [] address = Vault -> NoBalances
                                           [] OTHER           -> Nothing]

\* Sends to the vault, to a user, of nothing and of too much; a call of the caller.
MCTransactions ==
    [sender : {alice},
     msgs : {<<Send(Vault, 1)>>, <<Send(bob, 1)>>, <<Send(Vault, 0)>>, <<Send(Vault, 2)>>,
             <<Execute(Caller, [type |-> "Call"])>>}]

=============================================================================
