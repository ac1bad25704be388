-------------------------------- MODULE Maps --------------------------------
(***************************************************************************)
(* Items and maps over one storage of byte strings (storage-plus: path.rs, *)
(* item.rs, map.rs, bound.rs, prefix.rs).  An operation is an operator on  *)
(* the storage: what it answers, or the storage it leaves.                 *)
(*                                                                         *)
(* A storage is a function from the byte strings that are set to their     *)
(* values.  A value is what it deserializes to.                            *)
(***************************************************************************)
EXTENDS Keys, FiniteSetsExt, TLC

CONSTANTS
    None,           \* Option::None
    NotFound,       \* the error of load
    Failed          \* an error of the function given to update

-----------------------------------------------------------------------------
(* The storage (cosmwasm_std::Storage).                                    *)

get(s, key) == IF key \in DOMAIN s THEN s[key] ELSE None
set(s, key, value) ==
    [k \in DOMAIN s \cup {key} |-> IF k = key THEN value ELSE s[k]]
remove(s, key) == [k \in DOMAIN s \ {key} |-> s[k]]

\* The members of a set in an order, one after another.
InOrder(S, Before(_, _)) ==
    [i \in 1 .. Cardinality(S) |->
        CHOOSE x \in S : Cardinality({y \in S : Before(y, x)}) = i - 1]

\* The records from start on and before end, in the order of their keys.
storage_range(s, start, end, order) ==
    LET inside == {k \in DOMAIN s : ~BytesBefore(k, start) /\ BytesBefore(k, end)}
        found == InOrder(inside, BytesBefore)
        inOrder == IF order = "Ascending" THEN found ELSE Reverse(found)
    IN  [i \in 1 .. Len(inOrder) |-> <<inOrder[i], s[inOrder[i]]>>]

-----------------------------------------------------------------------------
(* One record: Path and Item.                                              *)

\* Path::new, and the key of a Map.
Path(namespace, key) == nested_namespaces_with_key(<<namespace>>, Front(key), Last(key))

\* The name of an Item is its whole key: no length comes before it.
ItemPath(storage_key) == storage_key

may_load(s, path) == get(s, path)
has(s, path) == path \in DOMAIN s

load(s, path) == IF has(s, path) THEN s[path] ELSE NotFound

save(s, path, value) == set(s, path, value)

\* Path::update: the action is given what is stored, or None; when it fails nothing
\* is written.
update(s, path, action(_)) ==
    LET output == action(may_load(s, path))
    IN  IF output = Failed THEN s ELSE save(s, path, output)

\* Item::update asks for a value that is there.
item_update(s, path, action(_)) ==
    LET input == load(s, path)
        output == action(input)
    IN  IF input = NotFound \/ output = Failed THEN s ELSE save(s, path, output)

-----------------------------------------------------------------------------
(* Bounds.                                                                 *)

RawBound(kind, limit) == [kind |-> kind, limit |-> limit]

inclusive(key) == RawBound("Inclusive", joined_key(key))
exclusive(key) == RawBound("Exclusive", joined_key(key))
InclusiveRaw(raw) == RawBound("Inclusive", raw)
ExclusiveRaw(raw) == RawBound("Exclusive", raw)

PrefixInclusive(prefix) == RawBound("Inclusive", joined_prefix(prefix))
PrefixExclusive(prefix) == RawBound("Exclusive", joined_prefix(prefix))

extend_one_byte(limit) == Append(limit, 0)

\* Mutant: a trailing 255 is not carried.
increment_last_byte_NoCarry(input) ==
    Append(Front(input), (Last(input) + 1) % 256)

\* The least byte string of the same length above all that begin with the input.
increment_last_byte(input) ==
    LET carried == {i \in 1 .. Len(input) : input[i] # 255}
    IN  IF carried = {} THEN [i \in 1 .. Len(input) |-> 0]
        ELSE LET last == Max(carried)
             IN  [i \in 1 .. Len(input) |->
                    IF i < last THEN input[i] ELSE IF i = last THEN input[i] + 1 ELSE 0]

calc_start_bound(namespace, bound) ==
    CASE bound = None -> namespace
      [] bound # None /\ bound.kind = "Inclusive" -> concat(namespace, bound.limit)
      [] bound # None /\ bound.kind = "Exclusive" -> concat(namespace, extend_one_byte(bound.limit))

calc_end_bound(namespace, bound) ==
    CASE bound = None -> increment_last_byte(namespace)
      [] bound # None /\ bound.kind = "Exclusive" -> concat(namespace, bound.limit)
      [] bound # None /\ bound.kind = "Inclusive" -> concat(namespace, extend_one_byte(bound.limit))

calc_prefix_start_bound(namespace, bound) ==
    CASE bound = None -> namespace
      [] bound # None /\ bound.kind = "Inclusive" -> concat(namespace, bound.limit)
      [] bound # None /\ bound.kind = "Exclusive" -> concat(namespace, increment_last_byte(bound.limit))

calc_prefix_end_bound(namespace, bound) ==
    CASE bound = None -> increment_last_byte(namespace)
      [] bound # None /\ bound.kind = "Exclusive" -> concat(namespace, bound.limit)
      [] bound # None /\ bound.kind = "Inclusive" -> concat(namespace, increment_last_byte(bound.limit))

-----------------------------------------------------------------------------
(* Iteration.                                                              *)

\* The records found, their keys without the prefix that was iterated over.
Trimmed(prefix, records) ==
    [i \in 1 .. Len(records) |-> <<trim(prefix, records[i][1]), records[i][2]>>]

range_with_prefix(s, prefix, min, max, order) ==
    Trimmed(prefix, storage_range(s, calc_start_bound(prefix, min),
                                  calc_end_bound(prefix, max), order))

namespaced_prefix_range(s, namespace, min, max, order) ==
    LET prefix == namespaces_with_key(<<namespace>>, <<>>)
    IN  Trimmed(prefix, storage_range(s, calc_prefix_start_bound(prefix, min),
                                      calc_prefix_end_bound(prefix, max), order))

deserialize_v(record) == record
deserialize_kv(parts, record) == <<from_vec(parts, record[1]), record[2]>>

MapEach(records, f(_)) == [i \in 1 .. Len(records) |-> f(records[i])]

\* A prefix of a map: the records below some leading parts of the key, and how a
\* record is read.  keys are the first halves of the records.
Prefix(namespace, sub_names) == nested_namespaces_with_key(<<namespace>>, sub_names, <<>>)

range_raw(s, prefix, min, max, order) ==
    MapEach(range_with_prefix(s, prefix, min, max, order), deserialize_v)

range(s, prefix, parts, min, max, order) ==
    MapEach(range_with_prefix(s, prefix, min, max, order),
            LAMBDA record : deserialize_kv(parts, record))

keys_raw(s, prefix, min, max, order) ==
    MapEach(range_with_prefix(s, prefix, min, max, order), Head)

keys(s, prefix, parts, min, max, order) ==
    MapEach(range(s, prefix, parts, min, max, order), Head)

\* A range over prefixes: the bounds are on the leading parts, the keys are whole.
prefix_range(s, namespace, parts, min, max, order) ==
    MapEach(namespaced_prefix_range(s, namespace, min, max, order),
            LAMBDA record : deserialize_kv(parts, record))

prefix_range_raw(s, namespace, min, max, order) ==
    MapEach(namespaced_prefix_range(s, namespace, min, max, order), deserialize_v)

=============================================================================
