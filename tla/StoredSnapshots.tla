-------------------------- MODULE StoredSnapshots --------------------------
(***************************************************************************)
(* An indexed snapshot map beside the bytes it is stored in: every step of *)
(* IndexedSnapshotMap is taken together with the operation of Snapshots on *)
(* the storage, and what is read from the storage must be what the map     *)
(* says.  Five maps share the storage: the records, the checkpoints, the   *)
(* changelog and the two indexes.                                          *)
(***************************************************************************)
EXTENDS IndexedSnapshotMap, Sequences

CONSTANTS
    NotFound, Failed,               \* errors
    RecordsNamespace, CheckpointsNamespace, ChangelogNamespace,
    MultiNamespace, UniqueNamespace,
    KeyParts,                       \* the parts of a key, in bytes
    MultiParts, UniqueParts         \* the parts of an index key, in bytes

S == INSTANCE Snapshots

Namespaces == <<RecordsNamespace, CheckpointsNamespace, ChangelogNamespace,
                MultiNamespace, UniqueNamespace>>

ASSUME StoredAssumption ==
    \* Names are text, so that no byte of theirs is the last one.
    /\ \A i \in 1 .. 5 : Namespaces[i] \in Seq(0 .. 254) /\ Len(Namespaces[i]) < 65535
    /\ \A i, j \in 1 .. 5 : Namespaces[i] = Namespaces[j] => i = j
    \* A key is one part, behind which the changelog puts the height.
    /\ KeyParts \in [Keys -> S!KeysOfParts(1)]
    /\ \A k \in Keys : Len(KeyParts[k][1]) < 65535
    /\ \A j, k \in Keys : j # k => KeyParts[j] # KeyParts[k]
    \* The type of an index key says of how many parts it is; in a multi index the
    \* primary key comes behind the last of them.
    /\ MultiParts \in [MultiKeys -> Seq(Seq(0 .. 255))]
    /\ UniqueParts \in [UniqueKeys -> Seq(Seq(0 .. 255))]
    /\ \A m, n \in MultiKeys : MultiParts[m] \in S!KeysOfParts(Len(MultiParts[n]))
    /\ \A m \in MultiKeys : MultiParts[m] # <<>>
                            /\ Len(MultiParts[m][Len(MultiParts[m])]) < 65535
    /\ \A m, n \in MultiKeys : m # n => MultiParts[m] # MultiParts[n]
    /\ \A u, v \in UniqueKeys : UniqueParts[u] \in S!KeysOfParts(Len(UniqueParts[v]))
    /\ \A u \in UniqueKeys : UniqueParts[u] # <<>>
    /\ \A u, v \in UniqueKeys : u # v => UniqueParts[u] # UniqueParts[v]
    \* A height is a u64.
    /\ ((MaxHeight \div 65536) \div 65536) \div 65536 < 65536
    \* None is none of what may be there, nor the error.
    /\ None \notin Nat
    /\ None \notin [old : Stored] \cup [pk : Seq(0 .. 255), value : Values]
    /\ None \notin [kind : {"Inclusive"}, limit : Seq(0 .. 255)] \cup (Seq(0 .. 255) \X Values)
    /\ NotFound \notin {None} \cup Values \cup [old : Stored]
    /\ Failed \notin Values

VARIABLE store

storedVars == <<indexedVars, store>>

\* The indexed snapshot map; its indexes in the order of get_indexes.
multiIndex == [kind |-> "Multi", namespace |-> MultiNamespace,
               index |-> [v \in Values |-> MultiParts[MultiKey[v]]]]
uniqueIndex == [kind |-> "Unique", namespace |-> UniqueNamespace,
                index |-> [v \in Values |-> UniqueParts[UniqueKey[v]]]]

map == [namespace |-> RecordsNamespace, parts |-> 1, idx |-> <<multiIndex, uniqueIndex>>,
        checkpoints |-> CheckpointsNamespace, changelog |-> ChangelogNamespace,
        strategy |-> Strategy]

-----------------------------------------------------------------------------

StoredInit == IndexedInit /\ store = <<>>

\* The handler's transaction undoes what a failed operation has written.
Handled(result) == store' = IF result.ok THEN result.store ELSE store

StoredSave(k, data) ==
    /\ replace(k, data) \/ replace_fails(k, data)
    /\ Handled(S!indexed_snapshot_save(store, map, KeyParts[k], data, height))

StoredUpdate(k, output) ==
    /\ IF output = Failed THEN UNCHANGED indexedVars
       ELSE indexed_update(k, [v \in {primary[k]} |-> output]) \/ replace_fails(k, output)
    /\ Handled(S!indexed_snapshot_update(store, map, KeyParts[k], height,
                                         LAMBDA v : output))

StoredRemove(k) ==
    /\ replace_none(k)
    /\ Handled(S!indexed_snapshot_remove(store, map, KeyParts[k], height))

StoredAddCheckpoint(c, h) ==
    /\ add_checkpoint(c, h)
    /\ store' = S!add_checkpoint(store, map, h)
    /\ UNCHANGED indexes

StoredRemoveCheckpoint(c, h) ==
    /\ remove_checkpoint(c, h)
    /\ store' = S!remove_checkpoint(store, map, h)
    /\ UNCHANGED indexes

StoredNextBlock == NextBlock /\ UNCHANGED <<indexes, store>>

StoredNext ==
    \/ \E k \in Keys, data \in Values : StoredSave(k, data)
    \/ \E k \in Keys, output \in Values \cup {Failed} : StoredUpdate(k, output)
    \/ \E k \in Keys : StoredRemove(k)
    \/ \E c \in Clients, h \in Heights : StoredAddCheckpoint(c, h)
    \/ \E c \in Clients, h \in Heights : StoredRemoveCheckpoint(c, h)
    \/ StoredNextBlock

StoredSpec == StoredInit /\ [][StoredNext]_storedVars

-----------------------------------------------------------------------------

\* The keys an index lists for an index key.
Listed(answers) == {answers[i][1] : i \in 1 .. Len(answers)}

\* Whatever was written, the storage answers as the map does: each key now and at each
\* height, or the error that the height is not checkpointed; and each index key the
\* keys of the records that have it now, each once (may_load_at_height of
\* snapshot/map.rs, deserialize_multi_kv, item of unique.rs).
StoreAnswersAsMap ==
    /\ \A k \in Keys :
         /\ S!primary_may_load(store, map, KeyParts[k]) = primary[k]
         /\ \A h \in Heights :
              S!may_load_at_height(store, map, KeyParts[k], h)
                = IF assert_checkpointed(h) THEN may_load_at_height(k, h) ELSE NotFound
    /\ \A m \in MultiKeys :
         LET answers == S!multi_range(store, map, multiIndex, MultiParts[m], None, None,
                                      "Ascending")
             holders == {k \in Keys : multi[m][k] = PkLen}
         IN  /\ Listed(answers) = {KeyParts[k] : k \in holders}
             /\ Len(answers) = Cardinality(holders)
    /\ \A u \in UniqueKeys :
         S!item(store, map, uniqueIndex, UniqueParts[u])
           = IF unique[u] = None THEN None
             ELSE <<S!joined_key(KeyParts[unique[u][1]]), unique[u][2]>>

=============================================================================
