---------------------------- MODULE MergeOverlay ----------------------------
(***************************************************************************)
(* Iteration over a range of a storage transaction (range and MergeOverlay *)
(* of multi-test's src/transactions.rs): two ordered iterators, over the   *)
(* cached writes and over the storage below, are merged on demand.  The    *)
(* storage below may be a transaction that merges in turn.  While an       *)
(* iterator lives nothing can be written, so what it gives is a function   *)
(* of the storage.  Keys are ordered, all their bytes are used for.        *)
(***************************************************************************)
EXTENDS StorageTransaction, FiniteSets

ASSUME KeysAreOrdered == Keys \subseteq Int /\ IsFiniteSet(Keys)

Unbounded == Absent
KeyRange == [start : Keys \cup {Unbounded}, end : Keys \cup {Unbounded},
             order : {"Ascending", "Descending"}]

-----------------------------------------------------------------------------

\* Whether an iterator in this order comes to j before k.
Before(order, j, k) == IF order = "Ascending" THEN j < k ELSE j > k

\* The keys of a set in this order.
Listing(keys, order) ==
    CHOOSE list \in [1 .. Cardinality(keys) -> keys] :
      \A i, j \in DOMAIN list : i < j => Before(order, list[i], list[j])

\* The start is included and the end is not; a start after the end is an empty range.
InRange(range, key) ==
    /\ range.start = Unbounded \/ range.start <= key
    /\ range.end = Unbounded \/ key < range.end

\* The entries of a map in a range, in its order.
Entries(map, none, range) ==
    LET keys == Listing({key \in Keys : map[key] # none /\ InRange(range, key)}, range.order)
    IN  [n \in DOMAIN keys |-> <<keys[n], map[keys[n]]>>]

-----------------------------------------------------------------------------

\* An iterator: what is left on both sides, and what it has given.
new(local, below) == [left |-> local, right |-> below, given |-> <<>>]

\* The left item is next: a deletion is passed over, and next calls itself again.
take_left(it) ==
    [it EXCEPT !.left = Tail(@),
               !.given = IF Head(it.left)[2] = Absent THEN @ ELSE Append(@, Head(it.left))]

take_right(it) == [it EXCEPT !.right = Tail(@), !.given = Append(@, Head(it.right))]

\* Mutant: a key on both sides leaves the right side where it is.
pick_match_Keeping(it, order) ==
    IF Before(order, Head(it.right)[1], Head(it.left)[1]) THEN take_right(it)
    ELSE take_left(it)

\* Of two items with one key the cached one is taken and the other is dropped.
pick_match(it, order) ==
    LET lkey == Head(it.left)[1]
        rkey == Head(it.right)[1]
    IN  CASE Before(order, lkey, rkey) -> take_left(it)
          [] lkey = rkey -> take_left([it EXCEPT !.right = Tail(@)])
          [] Before(order, rkey, lkey) -> take_right(it)

\* One call of next, without the calls it makes of itself.
next(it, order) ==
    CASE it.left # <<>> /\ it.right # <<>> -> pick_match(it, order)
      [] it.left # <<>> /\ it.right = <<>> -> take_left(it)
      [] it.left = <<>> /\ it.right # <<>> -> take_right(it)
      [] OTHER -> it

\* All an iterator gives: every call moves on in at least one of the two.
Collected(it, order) ==
    LET after[n \in 0 .. Len(it.left) + Len(it.right)] ==
          IF n = 0 THEN it ELSE next(after[n-1], order)
    IN  after[Len(it.left) + Len(it.right)].given

\* What a range gives on the base and through the first n open transactions.
range_through(range) ==
    LET records[n \in 0 .. Depth] ==
          IF n = 0 THEN Entries(base, Absent, range)
          ELSE Collected(new(Entries(caches[n].local_state, Untouched, range), records[n-1]),
                         range.order)
    IN  records

-----------------------------------------------------------------------------

\* A range through any number of nested transactions gives the records that gets of
\* its keys would return, in its order: none twice, none that was deleted or that
\* lies outside, none with a value that was overwritten, and all of them
\* (transactions.rs, range, which merges what the storage below merges).
RangesReadView ==
    \A range \in KeyRange, n \in 0 .. Depth :
        range_through(range)[n] = Entries(View[n], Absent, range)

=============================================================================
