---------------------------- MODULE Collections ----------------------------
(***************************************************************************)
(* The storage of one contract, in bytes, with what the token contract and *)
(* the tests of storage-plus keep in one: an item, a map with keys of one  *)
(* part, and an indexed map with keys of two parts, a multi index and a    *)
(* unique index.  Beside the writers a client lists a collection page by   *)
(* page (query_all_accounts and query_all_allowances of the token          *)
(* contract), one query at a time, between which anything may be written.  *)
(***************************************************************************)
EXTENDS IndexedMap

CONSTANTS
    ItemName,                       \* of the item
    AccountsNamespace, Accounts,    \* of the map, and its keys
    RecordsNamespace, Records,      \* of the indexed map, and its keys
    Values,                         \* of the indexed map
    MultiNamespace, MultiKey,       \* of the multi index, and the index key of a value
    UniqueNamespace, UniqueKey,     \* of the unique index, and the index key of a value
    Stored,                         \* the one value of the item and of the map
    DEFAULT_LIMIT, MAX_LIMIT,       \* records on a page
    Limits,                         \* bound: what clients ask for
    MaxEntries                      \* bound: records in the storage

FirstParts == {Front(key) : key \in Records}

Namespaces == {RecordsNamespace, AccountsNamespace, MultiNamespace, UniqueNamespace}

ASSUME CollectionsAssumption ==
    \* Names are text, so that no byte of theirs is the last one.
    /\ Namespaces \subseteq {name \in Seq(0 .. 254) : Len(name) < 65535}
    /\ Cardinality(Namespaces) = 4
    \* The name of an item does not begin as the path of a map.
    /\ ItemName \in Seq(Byte)
    /\ \A name \in Namespaces : ~IsPrefix(encode_length(name) \o name, ItemName)
    /\ \A account \in Accounts : account \in KeysOfParts(1)
    /\ \A key \in Records : key \in KeysOfParts(2)
    /\ DOMAIN MultiKey = Values /\ DOMAIN UniqueKey = Values
    \* The type of an index key says of how many parts it is; in a multi index the
    \* primary key comes behind the last of them.
    /\ \A v, w \in Values : /\ MultiKey[v] \in KeysOfParts(Len(MultiKey[w]))
                           /\ UniqueKey[v] \in KeysOfParts(Len(UniqueKey[w]))
    /\ \A v \in Values : /\ MultiKey[v] # <<>> /\ Len(Last(MultiKey[v])) < 65535
                        /\ UniqueKey[v] # <<>>
    \* None is none of what may be there.
    /\ None \notin Values \cup {Stored} \cup Nat \cup Seq(Byte)
    /\ None \notin [pk : Seq(Byte), value : Values]
    /\ None \notin [kind : {"Inclusive", "Exclusive"}, limit : Seq(Byte)]
    /\ None \notin {"Inclusive", "Exclusive"} \X Seq(Seq(Byte))
    /\ NotFound # Stored /\ Failed \notin Values \cup {Stored}
    /\ {DEFAULT_LIMIT, MAX_LIMIT} \subseteq Nat \ {0}
    /\ Limits \subseteq (Nat \ {0}) \cup {None}

VARIABLES
    store,          \* the storage
    listing,        \* the prefix the client lists below, None when it lists nothing
    listed,         \* the keys it was given
    kept            \* history: the keys that were there all along

vars == <<store, listing, listed, kept>>
clientVars == <<listing, listed, kept>>

multi == [kind |-> "Multi", namespace |-> MultiNamespace, index |-> MultiKey]
unique == [kind |-> "Unique", namespace |-> UniqueNamespace, index |-> UniqueKey]

\* The indexed map; its indexes in the order of get_indexes.
records == [namespace |-> RecordsNamespace, parts |-> 2, idx |-> <<multi, unique>>]

\* Where the keys of the two maps are.
AccountPath == [account \in Accounts |-> Path(AccountsNamespace, account)]
RecordPath == [key \in Records |-> Path(RecordsNamespace, key)]

\* What can be listed: the accounts, and the records below a first part.
Listings ==
    {Prefix(AccountsNamespace, <<>>)} \cup {Prefix(RecordsNamespace, p) : p \in FirstParts}

\* The keys there are below a prefix.
Present(s, prefix) == ToSet(keys(s, prefix, 1, None, None, "Ascending"))

-----------------------------------------------------------------------------
(* Writers.  A handler that gets an error fails and its writes are undone. *)

Write(s) ==
    /\ Cardinality(DOMAIN s) <= MaxEntries
    /\ store' = s
    /\ kept' = IF listing = None THEN {} ELSE kept \cap Present(s, listing)
    /\ UNCHANGED <<listing, listed>>

ItemSave == Write(save(store, ItemPath(ItemName), Stored))

ItemRemove == Write(remove(store, ItemPath(ItemName)))

ItemUpdate(output) == Write(item_update(store, ItemPath(ItemName), LAMBDA v : output))

MapSave(account) == Write(save(store, AccountPath[account], Stored))

MapRemove(account) == Write(remove(store, AccountPath[account]))

MapUpdate(account, output) ==
    Write(update(store, AccountPath[account], LAMBDA v : output))

Handled(result) == IF result.ok THEN Write(result.store) ELSE Write(store)

IndexedSave(key, data) == Handled(indexed_save(store, records, key, data))

IndexedRemove(key) == Handled(indexed_remove(store, records, key))

IndexedUpdate(key, output) ==
    Handled(indexed_update(store, records, key, LAMBDA v : output))

-----------------------------------------------------------------------------
(* The client.                                                             *)

Limit(limit) == Min({IF limit = None THEN DEFAULT_LIMIT ELSE limit, MAX_LIMIT})

\* Mutant: the next page begins with the last key of this one.
query_page_Again(start_after, limit) ==
    LET start == IF start_after = None THEN None ELSE InclusiveRaw(start_after)
        found == keys(store, listing, 1, start, None, "Ascending")
    IN  SubSeq(found, 1, Min({Limit(limit), Len(found)}))

query_page(start_after, limit) ==
    LET start == IF start_after = None THEN None ELSE ExclusiveRaw(start_after)
        found == keys(store, listing, 1, start, None, "Ascending")
    IN  SubSeq(found, 1, Min({Limit(limit), Len(found)}))

Begin(prefix) ==
    /\ listing = None
    /\ listing' = prefix
    /\ listed' = <<>>
    /\ kept' = Present(store, prefix)
    /\ UNCHANGED store

LastListed == IF listed = <<>> THEN None ELSE Last(listed)[1]

\* The client goes on from the last key it was given.
NextPage(limit) ==
    /\ listing # None
    /\ query_page(LastListed, limit) # <<>>
    /\ listed' = listed \o query_page(LastListed, limit)
    /\ UNCHANGED <<store, listing, kept>>

\* An empty page is the last.
EmptyPage ==
    /\ listing # None
    /\ query_page(LastListed, None) = <<>>
    /\ listing' = None
    /\ UNCHANGED <<store, listed, kept>>

-----------------------------------------------------------------------------

Init ==
    /\ store = <<>>
    /\ listing = None
    /\ listed = <<>>
    /\ kept = {}

Writers ==
    \/ ItemSave \/ ItemRemove
    \/ \E output \in {Stored, Failed} : ItemUpdate(output)
    \/ \E account \in Accounts :
         \/ MapSave(account) \/ MapRemove(account)
         \/ \E output \in {Stored, Failed} : MapUpdate(account, output)
    \/ \E key \in Records :
         \/ \E data \in Values : IndexedSave(key, data)
         \/ IndexedRemove(key)
         \/ \E output \in Values \cup {Failed} : IndexedUpdate(key, output)

Client ==
    \/ \E prefix \in Listings : Begin(prefix)
    \/ \E limit \in Limits : NextPage(limit)
    \/ EmptyPage

Next == Writers \/ Client

Spec == Init /\ [][Next]_vars

-----------------------------------------------------------------------------
(* The records as the clients know them.                                   *)

\* A bound as a client states it: no bound, or a kind and a key.
BoundsOn(keysToBound) == {None} \cup ({"Inclusive", "Exclusive"} \X keysToBound)

\* No bound or one, at either end, or both ends at the same key.
BoundPairs(keysToBound) ==
    {p \in BoundsOn(keysToBound) \X BoundsOn(keysToBound) :
        p[1] = None \/ p[2] = None \/ p[1][2] = p[2][2]}
AsBound(b) == IF b = None THEN None ELSE RawBound(b[1], joined_key(b[2]))
AsPrefixBound(b) == IF b = None THEN None ELSE RawBound(b[1], joined_prefix(b[2]))

After(k, min, Before(_, _)) ==
    min = None \/ Before(min[2], k) \/ <<min[1], k>> = <<"Inclusive", min[2]>>
Until(k, max, Before(_, _)) ==
    max = None \/ Before(k, max[2]) \/ <<max[1], k>> = <<"Inclusive", max[2]>>

record_at(key) == may_load(store, RecordPath[key])
Saved == {key \in Records : record_at(key) # None}

\* Some of the saved records, with their values, in the order of their keys.
Sorted(S, Before(_, _)) ==
    LET sorted == InOrder(S, Before)
    IN  [i \in 1 .. Len(sorted) |-> <<sorted[i], record_at(sorted[i])>>]

\* The storages there are while the client lists are those there are while it does
\* not: what is only about the storage is checked of the latter.
NoListing == listing = None

\* A range over a map answers the records whose keys are in the bounds, all of them,
\* each with its whole key and its value, in the order of the keys (range of
\* prefix.rs; sub_prefix and prefix are the same over fewer parts).  A range over
\* prefixes takes in, or leaves out, every record below the prefix it is bounded by
\* (calc_prefix_start_bound, increment_last_byte).
RangesReadRecords ==
  NoListing =>
    /\ \A b \in BoundPairs(Records) :
         range(store, Prefix(RecordsNamespace, <<>>), 2, AsBound(b[1]), AsBound(b[2]),
               "Ascending")
           = Sorted({k \in Saved : After(k, b[1], KeyBefore) /\ Until(k, b[2], KeyBefore)},
                    KeyBefore)
    /\ \A first \in FirstParts :
         LET below == {k \in Saved : Front(k) = first}
         IN  \A min \in BoundsOn({<<Last(k)>> : k \in Records}) :
               range(store, Prefix(RecordsNamespace, first), 1, AsBound(min), None,
                     "Descending")
                 = LET answer == Reverse(Sorted({k \in below :
                                     After(<<Last(k)>>, min, KeyBefore)}, KeyBefore))
                   IN  [i \in 1 .. Len(answer) |->
                          <<<<Last(answer[i][1])>>, answer[i][2]>>]
    /\ \A b \in BoundPairs(FirstParts) :
         prefix_range(store, RecordsNamespace, 2, AsPrefixBound(b[1]), AsPrefixBound(b[2]),
                      "Ascending")
           = Sorted({k \in Saved :
                       /\ After(Front(k), b[1], LAMBDA p, q : PartBefore(p[1], q[1]))
                       /\ Until(Front(k), b[2], LAMBDA p, q : PartBefore(p[1], q[1]))},
                    KeyBefore)

\* The keys of the saved records by their index key, then by their own.
MultiBefore(j, k) ==
    KeyBefore(MultiKey[record_at(j)] \o j, MultiKey[record_at(k)] \o k)

\* By their unique index key alone: its last part orders by its bytes.
UniqueBefore(j, k) == KeyBefore(UniqueKey[record_at(j)], UniqueKey[record_at(k)])

\* Through an index the map reads as if its records were sorted by the index key:
\* no record is missing, none has an old value and none is there that was removed
\* (deserialize_multi_kv, deserialize_unique_kv).
IndexesReadRecords ==
  NoListing =>
    /\ multi_range(store, records, multi, <<>>, None, None, "Ascending")
         = Sorted(Saved, MultiBefore)
    /\ \A value \in Values :
         /\ multi_range(store, records, multi, MultiKey[value], None, None, "Ascending")
              = Sorted({k \in Saved : MultiKey[record_at(k)] = MultiKey[value]}, KeyBefore)
         /\ \A k \in Records :
              multi_range(store, records, multi, <<>>,
                          AsBound(<<"Exclusive", MultiKey[value] \o k>>), None, "Ascending")
                = Sorted({j \in Saved : KeyBefore(MultiKey[value] \o k,
                                                  MultiKey[record_at(j)] \o j)},
                         MultiBefore)
    /\ unique_range(store, records, unique, <<>>, None, None, "Ascending")
         = Sorted(Saved, UniqueBefore)
    /\ \A value \in Values :
         LET found == item(store, records, unique, UniqueKey[value])
             holders == {k \in Saved : UniqueKey[record_at(k)] = UniqueKey[value]}
         IN  IF holders = {} THEN found = None
             ELSE \E k \in holders : found = <<joined_key(k), record_at(k)>>

\* The collections share a storage and no key: what is written to one is not seen
\* in another (Path::new, to_length_prefixed).
Content ==
    [item |-> [k \in {ItemName} |-> may_load(store, ItemPath(k))],
     accounts |-> [k \in Accounts |-> may_load(store, AccountPath[k])],
     records |-> [k \in Records |-> record_at(k)]]

KR == INSTANCE KeyedRecords WITH
        content <- Content,
        Collections <- {"item", "accounts", "records"},
        KeysOf <- [item |-> {ItemName}, accounts |-> Accounts, records |-> Records],
        ValuesOf <- [item |-> {Stored}, accounts |-> {Stored}, records |-> Values],
        Conflicts <- [item |-> {}, accounts |-> {},
                      records |-> {p \in Values \X Values : UniqueKey[p[1]] = UniqueKey[p[2]]}],
        Nothing <- None

ImplementsKeyedRecords == KR!Spec

\* A client that lists page by page is given no key twice, and at the end was given
\* every key that was there all along, whatever was written meanwhile
\* (query_all_accounts: start_after is an exclusive bound, and not a position).
ListingsAreComplete ==
    [][listing # None /\ listing' = None =>
         /\ kept \subseteq ToSet(listed)
         /\ \A i, j \in 1 .. Len(listed) : i < j => KeyBefore(listed[i], listed[j])]_vars

=============================================================================
