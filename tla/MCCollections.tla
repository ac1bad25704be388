--------------------------- MODULE MCCollections ---------------------------
(***************************************************************************)
(* Names that begin with one another, as "a" and "aa" do, and keys with    *)
(* the least and the greatest bytes, an empty part and parts of different  *)
(* lengths; and the unit tests of storage-plus.                            *)
(***************************************************************************)
EXTENDS Collections, MapTests, SnapshotTests

CONSTANTS v1, v2, v3

MCItemName == <<97>>
MCAccountsNamespace == <<97>>
MCRecordsNamespace == <<97, 97>>
MCMultiNamespace == <<97, 97, 98>>
MCUniqueNamespace == <<97, 98>>

MCAccounts == {<<<<97>>>>, <<<<97, 0>>>>, <<<<255>>>>}
MCRecords == {<<<<0>>, <<255>>>>, <<<<0>>, <<>>>>, <<<<255>>, <<0>>>>, <<<<0, 0>>, <<1>>>>}

MCValues == {v1, v2, v3}

\* v1 and v2 share an index key.  The unique index keys of v2 and v3 differ in their
\* last parts, the longer of which comes first; that of v1 has two empty parts.
MCMultiKey == v1 :> <<<<0>>>> @@ v2 :> <<<<0>>>> @@ v3 :> <<<<0, 255>>>>
MCUniqueKey == v1 :> <<<<>>, <<>>>> @@ v2 :> <<<<1>>, <<0, 0>>>> @@ v3 :> <<<<1>>, <<255>>>>

\* The encodings, the items and maps, the indexed maps and the snapshots answer what the
\* unit tests of storage-plus expect of the code.  The tests are about no state and are
\* looked at with the first steps.
AgreesWithTests ==
    [][Init => KeyTestsPass /\ MapTestsPass /\ IndexedMapTestsPass /\ SnapshotTestsPass]_vars

=============================================================================
