------------------------- MODULE IndexedSnapshotMap -------------------------
(***************************************************************************)
(* A snapshot map with secondary indexes (storage-plus/src/indexed_map.rs, *)
(* indexed_snapshot.rs, indexes): one that allows many keys per index      *)
(* value and refers to them, and one that allows a single key and copies   *)
(* its value.  They are updated before the map is, in the order of         *)
(* get_indexes, and a unique index may refuse the value halfway.           *)
(*                                                                         *)
(* IndexedMap is the same code over a map without snapshots: the strategy  *)
(* Never.                                                                  *)
(***************************************************************************)
EXTENDS SnapshotMap

CONSTANTS
    MultiKeys, MultiKey,        \* MultiIndex: index of a value
    UniqueKeys, UniqueKey,      \* UniqueIndex: index of a value
    PkLen           \* what a MultiIndex stores: the length of the key it ends with

ASSUME IndexAssumption ==
    /\ MultiKey \in [Values -> MultiKeys]
    /\ UniqueKey \in [Values -> UniqueKeys]
    /\ PkLen \notin Values \cup {None}
    /\ None \notin Keys \X Values

VARIABLES
    multi,          \* index value -> key -> PkLen
    unique          \* index value -> the key and its value

indexes == <<multi, unique>>
indexedVars == <<vars, indexes>>

UniqueRef == Keys \X Values

IndexedInit ==
    /\ Init
    /\ multi = [m \in MultiKeys |-> [k \in Keys |-> None]]
    /\ unique = [u \in UniqueKeys |-> None]

-----------------------------------------------------------------------------

\* The indexes once the old value of a key is removed from both.
MultiWithout(k, old) ==
    IF old = None THEN multi ELSE [multi EXCEPT ![MultiKey[old]][k] = None]

UniqueWithout(k, old) ==
    IF old = None THEN unique ELSE [unique EXCEPT ![UniqueKey[old]] = None]

\* The value a unique index may not take: another key has its index value.
Violates(k, data) == UniqueWithout(k, primary[k])[UniqueKey[data]] # None

IndexAs(k, data) ==
    /\ multi' = [MultiWithout(k, primary[k]) EXCEPT ![MultiKey[data]][k] = PkLen]
    /\ unique' = [UniqueWithout(k, primary[k]) EXCEPT ![UniqueKey[data]] = <<k, data>>]

\* Mutant: the primary map is written without its snapshot.
replace_Unlogged(k, data) ==
    /\ ~Violates(k, data)
    /\ IndexAs(k, data)
    /\ primary' = [primary EXCEPT ![k] = data]
    /\ held' = [held EXCEPT ![k] = @ \cup {data}]
    /\ UNCHANGED <<checkpoints, changelog, height, holds, started>>

\* save and update: the value that is stored was loaded first.
replace(k, data) ==
    /\ ~Violates(k, data)
    /\ IndexAs(k, data)
    /\ save(k, data)

\* Mutant: the handler goes on after the error.  The multi index comes first in
\* get_indexes: the old value is gone from both and the new one is in the first.
replace_fails_GoingOn(k, data) ==
    /\ Violates(k, data)
    /\ multi' = [MultiWithout(k, primary[k]) EXCEPT ![MultiKey[data]][k] = PkLen]
    /\ unique' = UniqueWithout(k, primary[k])
    /\ UNCHANGED vars

\* The unique index refuses, after other entries were removed and added: the handler
\* fails with the error, and its transaction undoes them (StorageTransaction).
replace_fails(k, data) ==
    /\ Violates(k, data)
    /\ UNCHANGED indexedVars

replace_none(k) ==
    /\ multi' = MultiWithout(k, primary[k])
    /\ unique' = UniqueWithout(k, primary[k])
    /\ remove(k)

indexed_update(k, action) == replace(k, action[primary[k]])

PassThrough ==
    /\ \/ \E c \in Clients, h \in Heights : add_checkpoint(c, h)
       \/ \E c \in Clients, h \in Heights : remove_checkpoint(c, h)
       \/ NextBlock
    /\ UNCHANGED indexes

IndexedNext ==
    \/ \E k \in Keys, data \in Values : replace(k, data)
    \/ \E k \in Keys, data \in Values : replace_fails(k, data)
    \/ \E k \in Keys : \E action \in [{primary[k]} -> Values] : indexed_update(k, action)
    \/ \E k \in Keys : replace_none(k)
    \/ PassThrough

IndexedSpec == IndexedInit /\ [][IndexedNext]_indexedVars

-----------------------------------------------------------------------------

\* Types.
IndexTypeOK ==
    /\ multi \in [MultiKeys -> [Keys -> {None, PkLen}]]
    /\ unique \in [UniqueKeys -> UniqueRef \cup {None}]

\* Every index lists the keys of the map under the index of the value they have now,
\* and nothing else; a unique index has a copy of that value (replace, which calls
\* the index functions of each index; README "so that you can forget about it, and
\* just use the indexed data").
IndexesMatchPrimary ==
    /\ \A m \in MultiKeys, k \in Keys :
         multi[m][k] = PkLen <=> primary[k] # None /\ MultiKey[primary[k]] = m
    /\ \A u \in UniqueKeys, k \in Keys, v \in Values :
         unique[u] = <<k, v>> <=> primary[k] = v /\ UniqueKey[v] = u

\* An index over a snapshot map leaves it a snapshot map: every change goes through
\* its save and remove, at the height they are given (replace).
ImplementsSnapshotMap == Spec

=============================================================================
