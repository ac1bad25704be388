----------------------------- MODULE Savepoints -----------------------------
(***************************************************************************)
(* What nested storage transactions promise: a stack of whole stores.  A   *)
(* transaction works on a copy, which replaces the original when it is     *)
(* committed and is forgotten when it is rolled back.                      *)
(***************************************************************************)
EXTENDS Integers, Sequences

CONSTANTS Keys, Values, Absent

VARIABLE stores     \* the committed store, and a copy for each open transaction

Store == [Keys -> Values \cup {Absent}]

Top == Len(stores)

Init == \E store \in Store : stores = <<store>>

Begin == stores' = Append(stores, stores[Top])

Write ==
    /\ Top > 1
    /\ \E key \in Keys, value \in Values \cup {Absent} :
         stores' = [stores EXCEPT ![Top][key] = value]

Commit ==
    /\ Top > 1
    /\ stores' = Append(SubSeq(stores, 1, Top - 2), stores[Top])

Rollback ==
    /\ Top > 1
    /\ stores' = SubSeq(stores, 1, Top - 1)

Next == Begin \/ Write \/ Commit \/ Rollback

Spec == Init /\ [][Next]_stores

=============================================================================
