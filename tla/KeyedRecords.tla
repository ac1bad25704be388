---------------------------- MODULE KeyedRecords ----------------------------
(***************************************************************************)
(* What storage-plus promises of the collections of one contract: each is  *)
(* a function from its own keys to values, a write is of one key of one    *)
(* collection, and no two keys of an indexed collection have values that   *)
(* share a unique index key.                                               *)
(***************************************************************************)
EXTENDS Naturals

CONSTANTS
    Collections,
    KeysOf,         \* collection -> its keys
    ValuesOf,       \* collection -> its values
    Conflicts,      \* collection -> the pairs of values no two keys may have
    Nothing         \* no value

VARIABLE content    \* collection -> key -> value

Init == content = [c \in Collections |-> [k \in KeysOf[c] |-> Nothing]]

Taken(c, k, value) ==
    \E other \in KeysOf[c] \ {k} :
        /\ content[c][other] # Nothing
        /\ <<content[c][other], value>> \in Conflicts[c]

\* One key is given a value, or none.
Assign(c, k, value) == content' = [content EXCEPT ![c] = [@ EXCEPT ![k] = value]]

Put(c, k) ==
    /\ content'[c][k] \in ValuesOf[c]
    /\ ~Taken(c, k, content'[c][k])
    /\ Assign(c, k, content'[c][k])

Delete(c, k) == Assign(c, k, Nothing)

Next == \E c \in Collections : \E k \in KeysOf[c] : Put(c, k) \/ Delete(c, k)

Spec == Init /\ [][Next]_content

=============================================================================
