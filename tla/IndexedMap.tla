----------------------------- MODULE IndexedMap -----------------------------
(***************************************************************************)
(* A map with secondary indexes, in bytes (storage-plus: indexed_map.rs,   *)
(* indexes/multi.rs, indexes/unique.rs).  An index is a map of its own in  *)
(* the same storage.  A multi index appends the primary key to the index   *)
(* key and stores how long it is, to find it again; a unique index stores  *)
(* the primary key beside a copy of the value.                             *)
(*                                                                         *)
(* An index is [kind, namespace, index], where index gives the index key   *)
(* of a value; an indexed map is [namespace, parts, idx], where idx is     *)
(* what get_indexes lists, in its order.  A write may fail in the middle:  *)
(* its result says so, and has the storage as the failure leaves it.       *)
(***************************************************************************)
EXTENDS Maps

Ok(s) == [ok |-> TRUE, store |-> s]
Err(s) == [ok |-> FALSE, store |-> s]

-----------------------------------------------------------------------------
(* Index::save and Index::remove.                                          *)

\* idx_map is keyed by one part: the index key with the primary key behind it.
MultiPath(index, pk, data) ==
    Path(index.namespace, <<joined_extra_key(index.index[data], pk)>>)

multi_save(s, index, pk, data) == Ok(save(s, MultiPath(index, pk, data), Len(pk)))

multi_remove(s, index, pk, old_data) == remove(s, MultiPath(index, pk, old_data))

UniqueRef(pk, data) == [pk |-> pk, value |-> data]
UniquePath(index, data) == Path(index.namespace, index.index[data])

unique_save(s, index, pk, data) ==
    IF has(s, UniquePath(index, data)) THEN Err(s)
    ELSE Ok(save(s, UniquePath(index, data), UniqueRef(pk, data)))

unique_remove(s, index, old_data) == remove(s, UniquePath(index, old_data))

index_save(s, index, pk, data) ==
    IF index.kind = "Multi" THEN multi_save(s, index, pk, data)
    ELSE unique_save(s, index, pk, data)

index_remove(s, index, pk, old_data) ==
    IF index.kind = "Multi" THEN multi_remove(s, index, pk, old_data)
    ELSE unique_remove(s, index, old_data)

-----------------------------------------------------------------------------
(* IndexedMap.                                                             *)

\* Mutant: the old value stays in the indexes.
WithoutOld_Kept(s, map, pk, old_data) == s

WithoutOld(s, map, pk, old_data) ==
    LET without[n \in 0 .. Len(map.idx)] ==
          IF n = 0 THEN s ELSE index_remove(without[n-1], map.idx[n], pk, old_data)
    IN  IF old_data = None THEN s ELSE without[Len(map.idx)]

\* The new value is put in each index, up to the first that refuses it.
WithNew(s, map, pk, data) ==
    LET with[n \in 0 .. Len(map.idx)] ==
          CASE n = 0 -> Ok(s)
            [] n > 0 /\ with[n-1].ok -> index_save(with[n-1].store, map.idx[n], pk, data)
            [] OTHER -> with[n-1]
    IN  with[Len(map.idx)]

\* data is None for a removal; old_data is what was loaded.
replace(s, map, key, data, old_data) ==
    LET pk == joined_key(key)
        without == WithoutOld(s, map, pk, old_data)
        indexed == WithNew(without, map, pk, data)
        path == Path(map.namespace, key)
    IN  CASE data = None -> Ok(remove(without, path))
          [] data # None /\ indexed.ok -> Ok(save(indexed.store, path, data))
          [] OTHER -> indexed

indexed_may_load(s, map, key) == may_load(s, Path(map.namespace, key))

indexed_save(s, map, key, data) ==
    replace(s, map, key, data, indexed_may_load(s, map, key))

indexed_remove(s, map, key) ==
    replace(s, map, key, None, indexed_may_load(s, map, key))

indexed_update(s, map, key, action(_)) ==
    LET input == indexed_may_load(s, map, key)
        output == action(input)
    IN  IF output = Failed THEN Err(s) ELSE replace(s, map, key, output, input)

-----------------------------------------------------------------------------
(* Iteration over an index.                                                *)

\* The primary key at the end of an entry of a multi index.
PkOf(record) == SubSeq(record[1], Len(record[1]) - record[2] + 1, Len(record[1]))

deserialize_multi_v(s, map, record) ==
    <<PkOf(record), load(s, namespaces_with_key(<<map.namespace>>, PkOf(record)))>>

deserialize_multi_kv(s, map, record) ==
    LET raw == deserialize_multi_v(s, map, record)
    IN  <<from_vec(map.parts, raw[1]), raw[2]>>

deserialize_unique_v(record) == <<record[2].pk, record[2].value>>

deserialize_unique_kv(map, record) == <<from_vec(map.parts, record[2].pk), record[2].value>>

\* The records of a map found through one of its indexes, below some leading parts
\* of the index key (prefix, sub_prefix and no_prefix).
multi_range(s, map, index, sub, min, max, order) ==
    MapEach(range_with_prefix(s, Prefix(index.namespace, sub), min, max, order),
            LAMBDA record : deserialize_multi_kv(s, map, record))

multi_range_raw(s, map, index, sub, min, max, order) ==
    MapEach(range_with_prefix(s, Prefix(index.namespace, sub), min, max, order),
            LAMBDA record : deserialize_multi_v(s, map, record))

multi_prefix_range_raw(s, map, index, min, max, order) ==
    MapEach(namespaced_prefix_range(s, index.namespace, min, max, order),
            LAMBDA record : deserialize_multi_v(s, map, record))

unique_range(s, map, index, sub, min, max, order) ==
    MapEach(range_with_prefix(s, Prefix(index.namespace, sub), min, max, order),
            LAMBDA record : deserialize_unique_kv(map, record))

unique_range_raw(s, index, sub, min, max, order) ==
    MapEach(range_with_prefix(s, Prefix(index.namespace, sub), min, max, order),
            deserialize_unique_v)

\* The one record of a unique index key.
item(s, map, index, key) ==
    LET found == may_load(s, Path(index.namespace, key))
    IN  IF found = None THEN None ELSE <<found.pk, found.value>>

=============================================================================
