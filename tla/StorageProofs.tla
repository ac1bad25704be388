---------------------------- MODULE StorageProofs ----------------------------
(***************************************************************************)
(* Nested storage transactions work as if each worked on a copy of the     *)
(* storage below it, and a range through them gives what gets would, for   *)
(* any keys, values, depth and number of writes.                           *)
(***************************************************************************)
EXTENDS MergeOverlay, FunctionLemmas, SequenceTheorems, TLAPS

\* What is typed, and what each log is to its cache.
Inv == TypeOK /\ LogMakesView

-----------------------------------------------------------------------------
(* The loops as functions of the steps they have taken.                    *)

\* Replaying a log on a storage applies its writes one after the other.
LEMMA StoreAfterSteps ==
    ASSUME NEW store \in Store, NEW log \in Seq(Op)
    PROVE  /\ StoreAfter(store, log) \in [0 .. Len(log) -> Store]
           /\ StoreAfter(store, log)[0] = store
           /\ \A n \in 1 .. Len(log) :
                StoreAfter(store, log)[n] = Applied(StoreAfter(store, log)[n-1], log[n])
<1> DEFINE m == Len(log)
           g == [n \in 1 .. m |-> [s \in Store |-> Applied(s, log[n])]]
<1>1. m \in Nat /\ \A n \in 1 .. m : log[n] \in Op
  OBVIOUS
<1>2. \A n \in 1 .. m, s \in Store : Applied(s, log[n]) \in Store
  BY <1>1 DEF Applied, Store, Op
<1>3. g \in [1 .. m -> [Store -> Store]]
  BY <1>2
<1> HIDE DEF g
<1>4. PICK f \in [0 .. m -> Store] : f[0] = store /\ \A n \in 1 .. m : f[n] = g[n][f[n-1]]
  <2> HIDE DEF m
  <2>1. m \in Nat
    BY <1>1
  <2>2. QED
    BY <2>1, <1>3, StepsTaken
<1>5. ASSUME NEW n \in 1 .. m
      PROVE  f[n] = Applied(f[n-1], log[n])
  <2>1. f[n-1] \in Store
    BY <1>1, <1>4
  <2>2. QED
    BY <1>4, <2>1 DEF g
<1>6. \A n \in 0 .. m : f[n] = IF n = 0 THEN store ELSE Applied(f[n-1], log[n])
  BY <1>1, <1>4, <1>5
<1> DEFINE Solves(h) == h = [n \in 0 .. m |-> IF n = 0 THEN store ELSE Applied(h[n-1], log[n])]
<1>7. Solves(f)
  BY <1>4, <1>6
<1>8. StoreAfter(store, log) = CHOOSE s : Solves(s)
  BY DEF StoreAfter
<1> DEFINE d == StoreAfter(store, log)
<1>9. Solves(d)
  BY <1>7, <1>8
<1> HIDE DEF d
<1>10. d = [n \in 0 .. m |-> IF n = 0 THEN store ELSE Applied(d[n-1], log[n])]
  BY <1>9
<1>11. d[0] = store /\ \A n \in 1 .. m : d[n] = Applied(d[n-1], log[n])
  BY <1>1, <1>10
<1>12. \A n \in 0 .. m : d[n] \in Store
  <2> DEFINE T == {n \in Nat : d[n] \in Store}
  <2>1. 0 \in T
    BY <1>11
  <2>2. \A n \in 1 .. m : n - 1 \in T => n \in T
    BY <1>1, <1>2, <1>11
  <2> HIDE DEF T
  <2>3. \A n \in 0 .. m : n \in T
    BY <1>1, <2>1, <2>2, BoundedInduction
  <2>4. QED
    BY <2>3 DEF T
<1>13. d \in [0 .. m -> Store]
  BY <1>10, <1>12
<1>14. QED
  BY <1>11, <1>13 DEF d

\* And so does replaying it on a cache.
LEMMA CacheAfterSteps ==
    ASSUME NEW cache \in Cache, NEW log \in Seq(Op)
    PROVE  /\ CacheAfter(cache, log) \in [0 .. Len(log) -> Cache]
           /\ CacheAfter(cache, log)[0] = cache
           /\ \A n \in 1 .. Len(log) :
                CacheAfter(cache, log)[n] = Written(CacheAfter(cache, log)[n-1], log[n])
<1> DEFINE m == Len(log)
           g == [n \in 1 .. m |-> [s \in Cache |-> Written(s, log[n])]]
<1>1. m \in Nat /\ \A n \in 1 .. m : log[n] \in Op
  OBVIOUS
<1>2. \A n \in 1 .. m, s \in Cache : Written(s, log[n]) \in Cache
  BY <1>1 DEF Written, Cache, Op
<1>3. g \in [1 .. m -> [Cache -> Cache]]
  BY <1>2
<1> HIDE DEF g
<1>4. PICK f \in [0 .. m -> Cache] : f[0] = cache /\ \A n \in 1 .. m : f[n] = g[n][f[n-1]]
  <2> HIDE DEF m
  <2>1. m \in Nat
    BY <1>1
  <2>2. QED
    BY <2>1, <1>3, StepsTaken
<1>5. ASSUME NEW n \in 1 .. m
      PROVE  f[n] = Written(f[n-1], log[n])
  <2>1. f[n-1] \in Cache
    BY <1>1, <1>4
  <2>2. QED
    BY <1>4, <2>1 DEF g
<1>6. \A n \in 0 .. m : f[n] = IF n = 0 THEN cache ELSE Written(f[n-1], log[n])
  BY <1>1, <1>4, <1>5
<1> DEFINE Solves(h) == h = [n \in 0 .. m |-> IF n = 0 THEN cache ELSE Written(h[n-1], log[n])]
<1>7. Solves(f)
  BY <1>4, <1>6
<1>8. CacheAfter(cache, log) = CHOOSE s : Solves(s)
  BY DEF CacheAfter
<1> DEFINE d == CacheAfter(cache, log)
<1>9. Solves(d)
  BY <1>7, <1>8
<1> HIDE DEF d
<1>10. d = [n \in 0 .. m |-> IF n = 0 THEN cache ELSE Written(d[n-1], log[n])]
  BY <1>9
<1>11. d[0] = cache /\ \A n \in 1 .. m : d[n] = Written(d[n-1], log[n])
  BY <1>1, <1>10
<1>12. \A n \in 0 .. m : d[n] \in Cache
  <2> DEFINE T == {n \in Nat : d[n] \in Cache}
  <2>1. 0 \in T
    BY <1>11
  <2>2. \A n \in 1 .. m : n - 1 \in T => n \in T
    BY <1>1, <1>2, <1>11
  <2> HIDE DEF T
  <2>3. \A n \in 0 .. m : n \in T
    BY <1>1, <2>1, <2>2, BoundedInduction
  <2>4. QED
    BY <2>3 DEF T
<1>13. d \in [0 .. m -> Cache]
  BY <1>10, <1>12
<1>14. QED
  BY <1>11, <1>13 DEF d

\* The view through each cache is the overlay of that cache on the view below.
LEMMA ViewSteps ==
    ASSUME NEW store \in Store, NEW open \in Seq(Cache)
    PROVE  /\ ViewsOf(store, open) \in [0 .. Len(open) -> Store]
           /\ ViewsOf(store, open)[0] = store
           /\ \A n \in 1 .. Len(open) :
                ViewsOf(store, open)[n] = Overlay(ViewsOf(store, open)[n-1], open[n])
<1> DEFINE m == Len(open)
           g == [n \in 1 .. m |-> [s \in Store |-> Overlay(s, open[n])]]
<1>1. m \in Nat /\ \A n \in 1 .. m : open[n] \in Cache
  OBVIOUS
<1>2. \A n \in 1 .. m, s \in Store : Overlay(s, open[n]) \in Store
  BY <1>1 DEF Overlay, Store, Cache
<1>3. g \in [1 .. m -> [Store -> Store]]
  BY <1>2
<1> HIDE DEF g
<1>4. PICK f \in [0 .. m -> Store] : f[0] = store /\ \A n \in 1 .. m : f[n] = g[n][f[n-1]]
  <2> HIDE DEF m
  <2>1. m \in Nat
    BY <1>1
  <2>2. QED
    BY <2>1, <1>3, StepsTaken
<1>5. ASSUME NEW n \in 1 .. m
      PROVE  f[n] = Overlay(f[n-1], open[n])
  <2>1. f[n-1] \in Store
    BY <1>1, <1>4
  <2>2. QED
    BY <1>4, <2>1 DEF g
<1>6. \A n \in 0 .. m : f[n] = IF n = 0 THEN store ELSE Overlay(f[n-1], open[n])
  BY <1>1, <1>4, <1>5
<1> DEFINE Solves(h) == h = [n \in 0 .. m |-> IF n = 0 THEN store ELSE Overlay(h[n-1], open[n])]
<1>7. Solves(f)
  BY <1>4, <1>6
<1>8. ViewsOf(store, open) = CHOOSE s : Solves(s)
  BY DEF ViewsOf
<1> DEFINE d == ViewsOf(store, open)
<1>9. Solves(d)
  BY <1>7, <1>8
<1> HIDE DEF d
<1>10. d = [n \in 0 .. m |-> IF n = 0 THEN store ELSE Overlay(d[n-1], open[n])]
  BY <1>9
<1>11. d[0] = store /\ \A n \in 1 .. m : d[n] = Overlay(d[n-1], open[n])
  BY <1>1, <1>10
<1>12. \A n \in 0 .. m : d[n] \in Store
  <2> DEFINE T == {n \in Nat : d[n] \in Store}
  <2>1. 0 \in T
    BY <1>11
  <2>2. \A n \in 1 .. m : n - 1 \in T => n \in T
    BY <1>1, <1>2, <1>11
  <2> HIDE DEF T
  <2>3. \A n \in 0 .. m : n \in T
    BY <1>1, <2>1, <2>2, BoundedInduction
  <2>4. QED
    BY <2>3 DEF T
<1>13. d \in [0 .. m -> Store]
  BY <1>10, <1>12
<1>14. QED
  BY <1>11, <1>13 DEF d

-----------------------------------------------------------------------------
(* Writing, logging and replaying.                                         *)

\* A storage after a whole log is a storage.
LEMMA ReplayType ==
    ASSUME NEW store \in Store, NEW log \in Seq(Op)
    PROVE  ReplayOnStore(store, log) \in Store
<1>1. Len(log) \in 0 .. Len(log)
  OBVIOUS
<1>2. QED
  BY <1>1, StoreAfterSteps DEF ReplayOnStore

\* Nothing is replayed from an empty log.
LEMMA ReplayNothing ==
    ASSUME NEW store \in Store
    PROVE  ReplayOnStore(store, <<>>) = store
<1>1. <<>> \in Seq(Op) /\ Len(<<>>) = 0
  OBVIOUS
<1>2. QED
  BY <1>1, StoreAfterSteps DEF ReplayOnStore

\* Logs that agree up to a point give the same storage up to it.
LEMMA StoreAfterAgrees ==
    ASSUME NEW store \in Store, NEW log \in Seq(Op), NEW longer \in Seq(Op),
           Len(log) <= Len(longer), \A n \in 1 .. Len(log) : log[n] = longer[n]
    PROVE  \A n \in 0 .. Len(log) : StoreAfter(store, longer)[n] = StoreAfter(store, log)[n]
<1> DEFINE T == {n \in Nat : StoreAfter(store, longer)[n] = StoreAfter(store, log)[n]}
<1>1. 0 \in T
  BY StoreAfterSteps
<1>2. \A n \in 1 .. Len(log) :
        /\ n \in 1 .. Len(longer)
        /\ StoreAfter(store, log)[n] = Applied(StoreAfter(store, log)[n-1], log[n])
  BY StoreAfterSteps
<1>3. \A n \in 1 .. Len(log) :
        StoreAfter(store, longer)[n] = Applied(StoreAfter(store, longer)[n-1], longer[n])
  BY <1>2, StoreAfterSteps
<1>4. \A n \in 1 .. Len(log) : n - 1 \in T => n \in T
  BY <1>2, <1>3
<1>5. Len(log) \in Nat
  OBVIOUS
<1> HIDE DEF T
<1>6. \A n \in 0 .. Len(log) : n \in T
  BY <1>1, <1>4, <1>5, BoundedInduction
<1>7. QED
  BY <1>6 DEF T

\* A write appended to a log is replayed last.
LEMMA ReplayAppend ==
    ASSUME NEW store \in Store, NEW log \in Seq(Op), NEW op \in Op
    PROVE  ReplayOnStore(store, Append(log, op)) = Applied(ReplayOnStore(store, log), op)
<1> DEFINE longer == Append(log, op)
           m == Len(log)
<1>1. /\ longer \in Seq(Op) /\ m \in Nat /\ Len(longer) = m + 1
      /\ m + 1 \in 1 .. Len(longer) /\ (m + 1) - 1 = m /\ m \in 0 .. m
      /\ longer[m + 1] = op
      /\ \A n \in 1 .. m : log[n] = longer[n]
      /\ m <= Len(longer)
  OBVIOUS
<1>2. StoreAfter(store, longer)[m] = StoreAfter(store, log)[m]
  <2> HIDE DEF longer
  <2>1. QED
    BY <1>1, StoreAfterAgrees
<1>3. StoreAfter(store, longer)[m + 1] = Applied(StoreAfter(store, longer)[m], op)
  <2> HIDE DEF longer
  <2>1. QED
    BY <1>1, StoreAfterSteps
<1>4. QED
  BY <1>1, <1>2, <1>3 DEF ReplayOnStore

\* A write to a cache is a write to what is seen through it.
LEMMA OverlayWritten ==
    ASSUME NEW below \in Store, NEW cache \in Cache, NEW op \in Op
    PROVE  /\ Written(cache, op) \in Cache
           /\ Overlay(below, cache) \in Store
           /\ Overlay(below, Written(cache, op)) = Applied(Overlay(below, cache), op)
<1>1. op.value # Untouched /\ op.key \in Keys
  BY StorageAssumption DEF Op
<1>2. Written(cache, op) \in Cache
  BY DEF Written, Cache, Op
<1>3. Overlay(below, cache) \in Store
  BY DEF Overlay, Store, Cache
<1>4. Written(cache, op).local_state = [cache.local_state EXCEPT ![op.key] = op.value]
  BY DEF Written
<1>5. \A key \in Keys :
        Overlay(below, Written(cache, op))[key] = Applied(Overlay(below, cache), op)[key]
  BY <1>1, <1>3, <1>4 DEF Overlay, Applied, Store, Cache
<1>6. QED
  BY <1>2, <1>3, <1>5 DEF Overlay, Applied, Store

\* Whether a log makes of the storage below what is seen through its cache.
Faithful(below, cache) == Overlay(below, cache) = ReplayOnStore(below, cache.rep_log)

\* A write keeps the log faithful.
LEMMA WrittenFaithful ==
    ASSUME NEW below \in Store, NEW cache \in Cache, NEW op \in Op, Faithful(below, cache)
    PROVE  Faithful(below, Written(cache, op))
<1>1. cache.rep_log \in Seq(Op) /\ Written(cache, op).rep_log = Append(cache.rep_log, op)
  BY DEF Cache, Written
<1>2. QED
  BY <1>1, OverlayWritten, ReplayAppend DEF Faithful

\* A new cache shows what is below it, and its log is faithful.
LEMMA NewCacheFaithful ==
    ASSUME NEW below \in Store
    PROVE  NewCache \in Cache /\ Overlay(below, NewCache) = below /\ Faithful(below, NewCache)
<1>1. NewCache \in Cache
  BY DEF NewCache, Cache
<1>2. Overlay(below, NewCache) = below
  BY DEF NewCache, Overlay, Store
<1>3. NewCache.rep_log = <<>>
  BY DEF NewCache
<1>4. QED
  BY <1>1, <1>2, <1>3, ReplayNothing DEF Faithful

\* Replaying a log on a cache replays it on what is seen through the cache, and
\* the cache's own log, to which it is appended, stays faithful.
LEMMA CacheReplay ==
    ASSUME NEW below \in Store, NEW cache \in Cache, NEW log \in Seq(Op), Faithful(below, cache)
    PROVE  /\ ReplayOnCache(cache, log) \in Cache
           /\ Faithful(below, ReplayOnCache(cache, log))
           /\ Overlay(below, ReplayOnCache(cache, log)) = ReplayOnStore(Overlay(below, cache), log)
<1> DEFINE m == Len(log)
           seen == Overlay(below, cache)
           c == CacheAfter(cache, log)
           s == StoreAfter(seen, log)
           T == {n \in Nat : Faithful(below, c[n]) /\ Overlay(below, c[n]) = s[n]}
<1>1. m \in Nat /\ \A n \in 1 .. m : log[n] \in Op /\ n - 1 \in 0 .. m
  OBVIOUS
<1>2. seen \in Store
  BY DEF Overlay, Store, Cache
<1>3. /\ c \in [0 .. m -> Cache] /\ c[0] = cache
      /\ \A n \in 1 .. m : c[n] = Written(c[n-1], log[n])
  BY CacheAfterSteps
<1>4. /\ s \in [0 .. m -> Store] /\ s[0] = seen
      /\ \A n \in 1 .. m : s[n] = Applied(s[n-1], log[n])
  BY <1>2, StoreAfterSteps
<1>5. 0 \in T
  BY <1>3, <1>4
<1>6. ASSUME NEW n \in 1 .. m, n - 1 \in T
      PROVE  n \in T
  <2>1. c[n-1] \in Cache /\ log[n] \in Op /\ n \in Nat
    BY <1>1, <1>3
  <2>2. Faithful(below, c[n-1]) /\ Overlay(below, c[n-1]) = s[n-1]
    BY <1>6
  <2> HIDE DEF c, s
  <2>3. Faithful(below, Written(c[n-1], log[n]))
    BY <2>1, <2>2, WrittenFaithful
  <2>4. Overlay(below, Written(c[n-1], log[n])) = Applied(s[n-1], log[n])
    BY <2>1, <2>2, OverlayWritten
  <2>5. QED
    BY <1>3, <1>4, <2>1, <2>3, <2>4
<1>7. \A n \in 0 .. m : n \in T
  <2> HIDE DEF T, m
  <2>1. QED
    BY <1>1, <1>5, <1>6, BoundedInduction
<1>8. m \in T /\ m \in 0 .. m
  BY <1>1, <1>7
<1>9. QED
  BY <1>3, <1>8 DEF ReplayOnCache, ReplayOnStore

-----------------------------------------------------------------------------
(* The views through the open transactions.                                *)

\* Transactions that agree up to a depth show the same up to it.
LEMMA ViewsAgree ==
    ASSUME NEW store \in Store, NEW open \in Seq(Cache), NEW other \in Seq(Cache),
           NEW m \in Nat, m <= Len(open), m <= Len(other),
           \A n \in 1 .. m : open[n] = other[n]
    PROVE  \A n \in 0 .. m : ViewsOf(store, other)[n] = ViewsOf(store, open)[n]
<1> DEFINE T == {n \in Nat : ViewsOf(store, other)[n] = ViewsOf(store, open)[n]}
<1>1. 0 \in T
  BY ViewSteps
<1>2. \A n \in 1 .. m :
        /\ n \in 1 .. Len(open) /\ n \in 1 .. Len(other)
        /\ ViewsOf(store, open)[n] = Overlay(ViewsOf(store, open)[n-1], open[n])
  BY ViewSteps
<1>3. \A n \in 1 .. m :
        ViewsOf(store, other)[n] = Overlay(ViewsOf(store, other)[n-1], other[n])
  BY <1>2, ViewSteps
<1>4. \A n \in 1 .. m : n - 1 \in T => n \in T
  BY <1>2, <1>3
<1> HIDE DEF T
<1>5. \A n \in 0 .. m : n \in T
  BY <1>1, <1>4, BoundedInduction
<1>6. QED
  BY <1>5 DEF T

\* What the invariant says of each open transaction.
LEMMA ViewFacts ==
    ASSUME Inv
    PROVE  /\ Depth \in Nat /\ base \in Store /\ caches \in Seq(Cache)
           /\ \A n \in 1 .. Depth : n - 1 \in 0 .. Depth /\ caches[n] \in Cache
           /\ View[0] = base
           /\ \A n \in 0 .. Depth : View[n] \in Store
           /\ \A n \in 1 .. Depth :
                View[n] = Overlay(View[n-1], caches[n]) /\ Faithful(View[n-1], caches[n])
<1>1. base \in Store /\ caches \in Seq(Cache) /\ Depth \in Nat
  BY DEF Inv, TypeOK, Depth
<1>2. /\ View \in [0 .. Depth -> Store] /\ View[0] = base
      /\ \A n \in 1 .. Depth : View[n] = Overlay(View[n-1], caches[n])
  BY <1>1, ViewSteps DEF View, Depth
<1>3. \A n \in 1 .. Depth : View[n] = ReplayOnStore(View[n-1], caches[n].rep_log)
  BY DEF Inv, LogMakesView
<1>4. \A n \in 1 .. Depth : n - 1 \in 0 .. Depth /\ caches[n] \in Cache
  BY <1>1 DEF Depth
<1>5. QED
  BY <1>1, <1>2, <1>3, <1>4 DEF Faithful

\* The views of a state follow from its caches.
LEMMA ViewFactsPrimed ==
    ASSUME (base \in Store)', (caches \in Seq(Cache))'
    PROVE  /\ Depth' \in Nat /\ View'[0] = base'
           /\ \A n \in 1 .. Depth' : View'[n] = Overlay(View'[n-1], caches'[n])
  BY ViewSteps DEF View, Depth

\* A step that keeps the outer transactions and leaves a faithful one innermost.
LEMMA InnermostSet ==
    ASSUME Inv, UNCHANGED base, (caches \in Seq(Cache))', NEW m \in Nat, m <= Depth,
           Depth' = m + 1, \A n \in 1 .. m : caches'[n] = caches[n],
           Faithful(View[m], caches'[m + 1])
    PROVE  /\ Inv'
           /\ \A n \in 0 .. m : View'[n] = View[n]
           /\ View'[m + 1] = Overlay(View[m], caches'[m + 1])
<1>1. base \in Store /\ base' = base /\ caches \in Seq(Cache) /\ caches' \in Seq(Cache)
  BY ViewFacts
<1>2. m <= Len(caches) /\ m <= Len(caches') /\ \A n \in 1 .. m : caches[n] = caches'[n]
  BY <1>1 DEF Depth
<1>3. \A n \in 0 .. m : ViewsOf(base, caches')[n] = ViewsOf(base, caches)[n]
  BY <1>1, <1>2, ViewsAgree
<1>4. \A n \in 0 .. m : View'[n] = View[n]
  BY <1>1, <1>3 DEF View
<1>5. \A n \in 1 .. Depth' : View'[n] = Overlay(View'[n-1], caches'[n])
  BY <1>1, ViewFactsPrimed
<1>6. m + 1 \in 1 .. Depth' /\ (m + 1) - 1 = m /\ m \in 0 .. m
  OBVIOUS
<1>7. View'[m + 1] = Overlay(View[m], caches'[m + 1])
  BY <1>4, <1>5, <1>6
<1>8. ASSUME NEW n \in 1 .. Depth'
      PROVE  View'[n] = ReplayOnStore(View'[n-1], caches'[n].rep_log)
  <2>1. CASE n = m + 1
    BY <1>4, <1>6, <1>7, <2>1 DEF Faithful
  <2>2. CASE n # m + 1
    <3>1. n \in 1 .. m /\ n \in 1 .. Depth /\ n \in 0 .. m /\ n - 1 \in 0 .. m
      BY <2>2, ViewFacts
    <3>2. View[n] = ReplayOnStore(View[n-1], caches[n].rep_log)
      BY <3>1, ViewFacts DEF Faithful
    <3>3. QED
      BY <1>2, <1>4, <3>1, <3>2
  <2>3. QED
    BY <2>1, <2>2
<1>9. Inv'
  BY <1>1, <1>8 DEF Inv, TypeOK, LogMakesView
<1>10. QED
  BY <1>4, <1>7, <1>9

\* Going back by one transaction shows what was seen before it began.
LEMMA InnermostDropped ==
    ASSUME Inv, UNCHANGED base, Depth > 0, caches' = SubSeq(caches, 1, Depth - 1)
    PROVE  Inv' /\ Depth' = Depth - 1 /\ \A n \in 0 .. Depth' : View'[n] = View[n]
<1>1. base \in Store /\ base' = base /\ caches \in Seq(Cache) /\ Depth \in Nat
  BY ViewFacts
<1>2. /\ caches' \in Seq(Cache) /\ Depth' = Depth - 1 /\ Depth' \in Nat
      /\ \A n \in 1 .. Depth' : caches'[n] = caches[n]
  <2> DEFINE m == Len(caches) - 1
             outer == SubSeq(caches, 1, m)
  <2>1. m \in Nat /\ m <= Len(caches) /\ m = Depth - 1
    BY <1>1 DEF Depth
  <2>2. /\ outer \in Seq(Cache) /\ Len(outer) = m
        /\ \A n \in 1 .. m : outer[n] = caches[n]
    BY <1>1, <2>1
  <2>3. caches' = outer
    BY <2>1
  <2>4. QED
    BY <2>1, <2>2, <2>3 DEF Depth
<1>3. Depth' <= Len(caches) /\ Depth' <= Len(caches') /\ \A n \in 1 .. Depth' : caches[n] = caches'[n]
  BY <1>1, <1>2 DEF Depth
<1>4. \A n \in 0 .. Depth' : ViewsOf(base, caches')[n] = ViewsOf(base, caches)[n]
  <2> DEFINE m == Depth'
  <2>1. m \in Nat /\ m <= Len(caches) /\ m <= Len(caches')
        /\ \A n \in 1 .. m : caches[n] = caches'[n]
    BY <1>2, <1>3
  <2> HIDE DEF m
  <2>2. \A n \in 0 .. m : ViewsOf(base, caches')[n] = ViewsOf(base, caches)[n]
    BY <1>1, <1>2, <2>1, ViewsAgree
  <2>3. QED
    BY <2>2 DEF m
<1>5. \A n \in 0 .. Depth' : View'[n] = View[n]
  BY <1>1, <1>4 DEF View
<1>6. ASSUME NEW n \in 1 .. Depth'
      PROVE  View'[n] = ReplayOnStore(View'[n-1], caches'[n].rep_log)
  <2>1. n \in 1 .. Depth /\ n \in 0 .. Depth' /\ n - 1 \in 0 .. Depth'
    BY <1>1, <1>2
  <2>2. View[n] = ReplayOnStore(View[n-1], caches[n].rep_log)
    BY <2>1, ViewFacts DEF Faithful
  <2>3. QED
    BY <1>2, <1>5, <2>1, <2>2
<1>7. Inv'
  BY <1>1, <1>2, <1>6 DEF Inv, TypeOK, LogMakesView
<1>8. QED
  BY <1>2, <1>5, <1>7

-----------------------------------------------------------------------------
(* The steps.                                                              *)

\* Replacing an element of a sequence leaves the others and their number.
LEMMA ElementReplaced ==
    ASSUME NEW S, NEW s \in Seq(S), NEW i \in 1 .. Len(s), NEW x \in S,
           NEW t, t = [s EXCEPT ![i] = x]
    PROVE  /\ t \in Seq(S) /\ Len(t) = Len(s) /\ t[i] = x
           /\ \A n \in 1 .. Len(s) : n # i => t[n] = s[n]
  OBVIOUS

\* Without open transactions there is nothing to be faithful to.
LEMMA NoneOpen ==
    ASSUME base' \in Store, caches' = <<>>
    PROVE  Inv' /\ Depth' = 0 /\ View'[0] = base'
<1>1. (caches \in Seq(Cache))' /\ Depth' = 0
  BY DEF Depth
<1>2. QED
  BY <1>1, ViewFactsPrimed DEF Inv, TypeOK, LogMakesView

\* The app starts with a storage and no transaction.
LEMMA InitInv == Init => Inv
<1> SUFFICES ASSUME Init PROVE Inv
  OBVIOUS
<1>1. caches \in Seq(Cache) /\ Depth = 0
  BY DEF Init, Depth
<1>2. QED
  BY <1>1 DEF Init, Inv, TypeOK, LogMakesView

\* A new transaction shows what the one around it shows.
LEMMA BeginStep ==
    ASSUME Inv, Begin
    PROVE  /\ Inv' /\ Depth' = Depth + 1
           /\ \A n \in 0 .. Depth : View'[n] = View[n]
           /\ View'[Depth + 1] = View[Depth]
<1>1. Depth \in Nat /\ caches \in Seq(Cache) /\ View[Depth] \in Store
  BY ViewFacts
<1>2. /\ NewCache \in Cache /\ Faithful(View[Depth], NewCache)
      /\ Overlay(View[Depth], NewCache) = View[Depth]
  BY <1>1, NewCacheFaithful
<1>3. UNCHANGED base /\ caches' = Append(caches, NewCache)
  BY DEF Begin
<1>4. /\ (caches \in Seq(Cache))' /\ Depth' = Depth + 1
      /\ \A n \in 1 .. Depth : caches'[n] = caches[n]
      /\ caches'[Depth + 1] = NewCache
  BY <1>1, <1>2, <1>3 DEF Depth
<1>5. Depth <= Depth /\ Depth \in 0 .. Depth /\ Faithful(View[Depth], caches'[Depth + 1])
  BY <1>1, <1>2, <1>4
<1>6. /\ Inv' /\ \A n \in 0 .. Depth : View'[n] = View[n]
      /\ View'[Depth + 1] = Overlay(View[Depth], caches'[Depth + 1])
  BY <1>1, <1>3, <1>4, <1>5, InnermostSet
<1>7. QED
  BY <1>2, <1>4, <1>6

\* A write is seen through the innermost transaction and through no other.
LEMMA WriteStep ==
    ASSUME Inv, NEW op \in Op, Depth > 0, UNCHANGED base,
           caches' = [caches EXCEPT ![Depth] = Written(@, op)]
    PROVE  /\ Inv' /\ Depth' = Depth
           /\ \A n \in 0 .. Depth - 1 : View'[n] = View[n]
           /\ View'[Depth] = Applied(View[Depth], op)
<1> DEFINE m == Depth - 1
<1>1. /\ Depth \in Nat /\ caches \in Seq(Cache) /\ caches[Depth] \in Cache
      /\ View[m] \in Store /\ Faithful(View[m], caches[Depth])
      /\ View[Depth] = Overlay(View[m], caches[Depth])
      /\ m \in Nat /\ m <= Depth /\ m + 1 = Depth
  BY ViewFacts
<1>2. /\ Written(caches[Depth], op) \in Cache
      /\ Faithful(View[m], Written(caches[Depth], op))
      /\ Overlay(View[m], Written(caches[Depth], op)) = Applied(View[Depth], op)
  BY <1>1, OverlayWritten, WrittenFaithful
<1>3. /\ (caches \in Seq(Cache))' /\ Depth' = Depth
      /\ \A n \in 1 .. m : caches'[n] = caches[n]
      /\ caches'[Depth] = Written(caches[Depth], op)
  <2> DEFINE w == Written(caches[Depth], op)
  <2>1. /\ caches \in Seq(Cache) /\ w \in Cache /\ Depth \in 1 .. Len(caches)
        /\ Depth = Len(caches)
    BY <1>1, <1>2 DEF Depth
  <2>2. caches' = [caches EXCEPT ![Depth] = w]
    OBVIOUS
  <2> HIDE DEF w
  <2>3. /\ caches' \in Seq(Cache) /\ Len(caches') = Len(caches) /\ caches'[Depth] = w
        /\ \A n \in 1 .. Len(caches) : n # Depth => caches'[n] = caches[n]
    BY <2>1, <2>2, ElementReplaced
  <2>4. \A n \in 1 .. m : n \in 1 .. Depth /\ n # Depth
    BY <1>1
  <2>5. QED
    BY <2>1, <2>3, <2>4 DEF Depth, w
<1> HIDE DEF m
<1>4. Inv' /\ (\A n \in 0 .. m : View'[n] = View[n])
      /\ View'[m + 1] = Overlay(View[m], caches'[m + 1])
  BY <1>1, <1>2, <1>3, InnermostSet
<1>5. QED
  BY <1>1, <1>2, <1>3, <1>4 DEF m

\* Committing leaves one transaction fewer, and it, or the app's storage, then
\* shows what the committed one showed.
LEMMA CommitStep ==
    ASSUME Inv, Commit
    PROVE  /\ Depth > 0 /\ Inv' /\ Depth' = Depth - 1
           /\ \A n \in 0 .. Depth - 2 : View'[n] = View[n]
           /\ View'[Depth - 1] = View[Depth]
<1> DEFINE log == Innermost.rep_log
<1>1. CASE Depth = 1
  <2>1. /\ base \in Store /\ caches \in Seq(Cache) /\ View[0] = base
        /\ Innermost \in Cache /\ View[1] = ReplayOnStore(View[0], log)
    BY <1>1, ViewFacts DEF Faithful, Innermost
  <2>2. base' = ReplayOnStore(base, log) /\ caches' = SubSeq(caches, 1, 0)
    BY <1>1 DEF Commit
  <2>3. caches' = <<>>
    BY <2>1, <2>2
  <2>4. log \in Seq(Op)
    BY <2>1 DEF Cache
  <2>5. base' \in Store /\ base' = View[1]
    BY <2>1, <2>2, <2>4, ReplayType
  <2>6. QED
    BY <1>1, <2>3, <2>5, NoneOpen
<1>2. CASE Depth # 1
  <2> DEFINE m == Depth - 2
             outer == caches[Depth - 1]
             merged == ReplayOnCache(outer, log)
             below == SubSeq(caches, 1, Depth - 1)
  <2>1. Depth > 1 /\ UNCHANGED base /\ caches' = [below EXCEPT ![Depth - 1] = ReplayOnCache(@, log)]
    BY <1>2 DEF Commit
  <2>2. /\ Depth \in Nat /\ caches \in Seq(Cache) /\ m \in Nat /\ m <= Depth
        /\ m + 1 = Depth - 1 /\ Depth - 1 \in 1 .. Depth /\ Depth \in 1 .. Depth
        /\ (Depth - 1) - 1 = m
    BY <2>1, ViewFacts
  <2>3. /\ outer \in Cache /\ Innermost \in Cache /\ View[m] \in Store
        /\ Faithful(View[m], outer) /\ View[Depth - 1] = Overlay(View[m], outer)
        /\ View[Depth] = ReplayOnStore(View[Depth - 1], log)
    BY <2>2, ViewFacts DEF Faithful, Innermost
  <2>4. log \in Seq(Op)
    BY <2>3 DEF Cache
  <2>5. /\ merged \in Cache /\ Faithful(View[m], merged)
        /\ Overlay(View[m], merged) = View[Depth]
    <3> HIDE DEF log
    <3>1. QED
      BY <2>3, <2>4, CacheReplay
  <2>6. /\ below \in Seq(Cache) /\ Len(below) = Depth - 1
        /\ \A n \in 1 .. Depth - 1 : below[n] = caches[n]
    BY <2>2 DEF Depth
  <2>7. caches' = [below EXCEPT ![Depth - 1] = merged]
    <3>1. below[Depth - 1] = outer
      BY <2>2, <2>6
    <3>2. QED
      BY <2>1, <3>1
  <2> HIDE DEF merged, below
  <2>8. /\ (caches \in Seq(Cache))' /\ Depth' = m + 1
        /\ \A n \in 1 .. m : caches'[n] = caches[n]
        /\ caches'[m + 1] = merged
    <3>1. Depth - 1 \in 1 .. Len(below) /\ merged \in Cache
      BY <2>2, <2>5, <2>6
    <3>2. /\ caches' \in Seq(Cache) /\ Len(caches') = Len(below) /\ caches'[Depth - 1] = merged
          /\ \A n \in 1 .. Len(below) : n # Depth - 1 => caches'[n] = below[n]
      BY <2>6, <2>7, <3>1, ElementReplaced
    <3>3. \A n \in 1 .. m : n \in 1 .. Len(below) /\ n # Depth - 1 /\ below[n] = caches[n]
      BY <2>2, <2>6
    <3>4. QED
      BY <2>2, <2>6, <3>2, <3>3 DEF Depth
  <2> HIDE DEF m
  <2>9. Inv' /\ (\A n \in 0 .. m : View'[n] = View[n])
        /\ View'[m + 1] = Overlay(View[m], caches'[m + 1])
    BY <2>1, <2>2, <2>5, <2>8, InnermostSet
  <2>10. QED
    BY <2>1, <2>2, <2>5, <2>8, <2>9 DEF m
<1>3. QED
  BY <1>1, <1>2

\* Every step keeps the views and the logs in agreement.
LEMMA StepInv == Inv /\ [Next]_vars => Inv'
<1> SUFFICES ASSUME Inv, [Next]_vars PROVE Inv'
  OBVIOUS
<1>1. CASE Begin
  BY <1>1, BeginStep
<1>2. CASE Write
  <2>1. PICK op \in Op : caches' = [caches EXCEPT ![Depth] = Written(@, op)]
    BY <1>2 DEF Write
  <2>2. QED
    BY <1>2, <2>1, WriteStep DEF Write
<1>3. CASE Commit
  BY <1>3, CommitStep
<1>4. CASE Rollback
  BY <1>4, InnermostDropped DEF Rollback
<1>5. CASE UNCHANGED vars
  BY <1>5 DEF vars, Inv, TypeOK, LogMakesView, View, Depth
<1>6. QED
  BY <1>1, <1>2, <1>3, <1>4, <1>5 DEF Next

\* Storage and caches stay typed, and every log stays faithful to its cache.
THEOREM LogsStayFaithful == Spec => [](TypeOK /\ LogMakesView)
<1>1. Inv => TypeOK /\ LogMakesView
  BY DEF Inv
<1>2. QED
  BY InitInv, StepInv, <1>1, PTL DEF Spec

-----------------------------------------------------------------------------
(* The refinement: the views are the copies of Savepoints.                 *)

Copies == [n \in 1 .. Depth + 1 |-> View[n-1]]

\* There is a copy for the app's storage and for each open transaction.
LEMMA CopiesType ==
    ASSUME Inv
    PROVE  /\ Copies \in Seq(Store) /\ Len(Copies) = Depth + 1
           /\ \A n \in 1 .. Depth + 1 : Copies[n] = View[n-1]
<1>1. Depth + 1 \in Nat /\ \A n \in 1 .. Depth + 1 : View[n-1] \in Store
  BY ViewFacts
<1>2. QED
  BY <1>1 DEF Copies

\* The same of the copies after a step.
LEMMA CopiesTypePrimed ==
    ASSUME Inv'
    PROVE  /\ Copies' \in Seq(Store) /\ Len(Copies') = Depth' + 1
           /\ \A n \in 1 .. Depth' + 1 : Copies'[n] = View'[n-1]
<1>1. base' \in Store /\ caches' \in Seq(Cache) /\ Depth' \in Nat
  BY DEF Inv, TypeOK, Depth
<1>2. View' \in [0 .. Depth' -> Store]
  BY <1>1, ViewSteps DEF View, Depth
<1>3. Depth' + 1 \in Nat /\ \A n \in 1 .. Depth' + 1 : View'[n-1] \in Store
  BY <1>1, <1>2
<1>4. QED
  BY <1>3 DEF Copies

\* The app's storage is the one copy there is at first.
LEMMA InitRefines == Init => Savepoint!Init
<1> SUFFICES ASSUME Init PROVE Savepoint!Init
  OBVIOUS
<1>1. Inv /\ Depth = 0 /\ base \in Store
  BY InitInv DEF Init, Depth
<1>2. View[0] = base
  BY <1>1, ViewFacts
<1>3. Copies \in Seq(Store) /\ Len(Copies) = 1 /\ Copies[1] = base
  BY <1>1, <1>2, CopiesType
<1>4. Copies = <<base>>
  BY <1>1, <1>3
<1>5. base \in Savepoint!Store
  BY <1>1 DEF Store, Savepoint!Store
<1>6. QED
  BY <1>4, <1>5 DEF Savepoint!Init, Copies

\* Every step is the step of the same name on the copies.
LEMMA StepRefines == Inv /\ Inv' /\ [Next]_vars => [Savepoint!Next]_Copies
<1> SUFFICES ASSUME Inv, Inv', [Next]_vars PROVE [Savepoint!Next]_Copies
  OBVIOUS
<1> DEFINE D == Depth
<1>1. /\ D \in Nat /\ Copies \in Seq(Store) /\ Len(Copies) = D + 1
      /\ \A n \in 1 .. D + 1 : Copies[n] = View[n-1]
  BY ViewFacts, CopiesType
<1>2. /\ Copies' \in Seq(Store) /\ Len(Copies') = Depth' + 1
      /\ \A n \in 1 .. Depth' + 1 : Copies'[n] = View'[n-1]
  BY CopiesTypePrimed
<1> HIDE DEF D
<1>3. Savepoint!Top = D + 1
  BY <1>1 DEF Savepoint!Top, Copies
<1>4. CASE Begin
  <2>1. /\ Depth' = D + 1 /\ View'[D + 1] = View[D]
        /\ \A n \in 0 .. D : View'[n] = View[n]
    BY <1>4, BeginStep DEF D
  <2> DEFINE t == Append(Copies, Copies[D + 1])
  <2>2. D + 1 \in 1 .. D + 1 /\ (D + 1) - 1 = D
    BY <1>1
  <2>3. Copies[D + 1] \in Store /\ Copies[D + 1] = View[D]
    BY <1>1, <2>2
  <2>4. /\ t \in Seq(Store) /\ Len(t) = D + 2 /\ t[D + 2] = View[D]
        /\ \A n \in 1 .. D + 1 : t[n] = View[n-1]
    BY <1>1, <2>3
  <2>5. ASSUME NEW n \in 1 .. D + 2
        PROVE  Copies'[n] = t[n]
    <3>1. CASE n = D + 2
      BY <1>1, <1>2, <2>1, <2>4, <3>1
    <3>2. CASE n # D + 2
      <4>1. n \in 1 .. D + 1 /\ n - 1 \in 0 .. D /\ n \in 1 .. Depth' + 1
        BY <1>1, <2>1, <3>2
      <4>2. QED
        BY <1>2, <2>1, <2>4, <4>1
    <3>3. QED
      BY <3>1, <3>2
  <2> HIDE DEF t
  <2>6. Len(Copies') = Len(t)
    BY <1>1, <1>2, <2>1, <2>4
  <2>7. Copies' = t
    BY <1>1, <1>2, <2>4, <2>5, <2>6, SeqEqual
  <2>8. QED
    BY <1>3, <2>7 DEF t, Savepoint!Next, Savepoint!Begin, Copies
<1>5. CASE Write
  <2>1. PICK op \in Op : caches' = [caches EXCEPT ![Depth] = Written(@, op)]
    BY <1>5 DEF Write
  <2>2. D > 0
    BY <1>5 DEF Write, D
  <2>3. /\ Depth' = D /\ View'[D] = Applied(View[D], op)
        /\ \A n \in 0 .. D - 1 : View'[n] = View[n]
    BY <1>5, <2>1, WriteStep DEF Write, D
  <2> DEFINE x == Applied(View[D], op)
             t == [Copies EXCEPT ![D + 1] = x]
  <2>4. D + 1 \in 1 .. Len(Copies) /\ (D + 1) - 1 = D /\ D \in 0 .. D
    BY <1>1
  <2>5. Copies[D + 1] = View[D] /\ View[D] \in Store
    BY <1>1, <2>4
  <2>6. x \in Store
    BY <2>5 DEF Applied, Store, Op
  <2> HIDE DEF x
  <2>7. /\ t \in Seq(Store) /\ Len(t) = D + 1 /\ t[D + 1] = x
        /\ \A n \in 1 .. D + 1 : n # D + 1 => t[n] = Copies[n]
    BY <1>1, <2>4, <2>6, ElementReplaced
  <2>8. ASSUME NEW n \in 1 .. D + 1
        PROVE  Copies'[n] = t[n]
    <3>1. CASE n = D + 1
      BY <1>1, <1>2, <2>3, <2>7, <3>1 DEF x
    <3>2. CASE n # D + 1
      <4>1. n - 1 \in 0 .. D - 1 /\ n \in 1 .. Depth' + 1
        BY <1>1, <2>3, <3>2
      <4>2. QED
        BY <1>1, <1>2, <2>3, <2>7, <3>2, <4>1
    <3>3. QED
      BY <3>1, <3>2
  <2> HIDE DEF t
  <2>9. Len(Copies') = Len(t)
    BY <1>2, <2>3, <2>7
  <2>10. Copies' = t
    BY <1>1, <1>2, <2>3, <2>7, <2>8, <2>9, SeqEqual
  <2>11. x = [Copies[D + 1] EXCEPT ![op.key] = op.value]
    BY <2>5 DEF x, Applied
  <2>12. op.key \in Keys /\ op.value \in Values \cup {Absent}
    BY DEF Op
  <2>13. Savepoint!Top > 1
    BY <1>1, <1>3, <2>2
  <2>14. Copies' = [Copies EXCEPT ![Savepoint!Top][op.key] = op.value]
    BY <1>3, <2>10, <2>11 DEF t
  <2>15. Savepoint!Write
    BY <2>12, <2>13, <2>14 DEF Savepoint!Write, Copies
  <2>16. QED
    BY <2>15 DEF Savepoint!Next
<1>6. CASE Commit
  <2>1. /\ D > 0 /\ Depth' = D - 1 /\ View'[D - 1] = View[D]
        /\ \A n \in 0 .. D - 2 : View'[n] = View[n]
    BY <1>6, CommitStep DEF D
  <2> DEFINE s == SubSeq(Copies, 1, D - 1)
             t == Append(s, Copies[D + 1])
  <2>2. D + 1 \in 1 .. D + 1 /\ (D + 1) - 1 = D
    BY <1>1
  <2>3. Copies[D + 1] \in Store /\ Copies[D + 1] = View[D]
    BY <1>1, <2>2
  <2>4. /\ s \in Seq(Store) /\ Len(s) = D - 1
        /\ \A n \in 1 .. D - 1 : s[n] = View[n-1]
    BY <1>1, <2>1
  <2> HIDE DEF s
  <2>5. /\ t \in Seq(Store) /\ Len(t) = D /\ t[D] = View[D]
        /\ \A n \in 1 .. D - 1 : t[n] = View[n-1]
    BY <1>1, <2>1, <2>3, <2>4
  <2>6. ASSUME NEW n \in 1 .. D
        PROVE  Copies'[n] = t[n]
    <3>1. CASE n = D
      BY <1>1, <1>2, <2>1, <2>5, <3>1
    <3>2. CASE n # D
      <4>1. n \in 1 .. D - 1 /\ n - 1 \in 0 .. D - 2 /\ n \in 1 .. Depth' + 1
        BY <1>1, <2>1, <3>2
      <4>2. QED
        BY <1>2, <2>1, <2>5, <4>1
    <3>3. QED
      BY <3>1, <3>2
  <2> HIDE DEF t
  <2>7. Len(Copies') = Len(t) /\ Len(Copies') = D
    BY <1>1, <1>2, <2>1, <2>5
  <2>8. Copies' = t
    BY <1>2, <2>5, <2>6, <2>7, SeqEqual
  <2>9. Savepoint!Top > 1 /\ Savepoint!Top - 2 = D - 1
    BY <1>1, <1>3, <2>1
  <2>10. Copies' = Append(SubSeq(Copies, 1, Savepoint!Top - 2), Copies[Savepoint!Top])
    BY <1>3, <2>8, <2>9 DEF s, t
  <2>11. Savepoint!Commit
    BY <2>9, <2>10 DEF Savepoint!Commit, Copies
  <2>12. QED
    BY <2>11 DEF Savepoint!Next
<1>7. CASE Rollback
  <2>1. /\ D > 0 /\ Depth' = D - 1
        /\ \A n \in 0 .. D - 1 : View'[n] = View[n]
    BY <1>7, InnermostDropped DEF Rollback, D
  <2> DEFINE t == SubSeq(Copies, 1, D)
  <2>2. /\ t \in Seq(Store) /\ Len(t) = D
        /\ \A n \in 1 .. D : t[n] = View[n-1]
    BY <1>1, <2>1
  <2>3. ASSUME NEW n \in 1 .. D
        PROVE  Copies'[n] = t[n]
    <3>1. n - 1 \in 0 .. D - 1 /\ n \in 1 .. Depth' + 1
      BY <1>1, <2>1
    <3>2. QED
      BY <1>2, <2>1, <2>2, <3>1
  <2> HIDE DEF t
  <2>4. Len(Copies') = Len(t) /\ Len(Copies') = D
    BY <1>1, <1>2, <2>1, <2>2
  <2>5. Copies' = t
    BY <1>2, <2>2, <2>3, <2>4, SeqEqual
  <2>6. Savepoint!Top > 1 /\ Savepoint!Top - 1 = D
    BY <1>1, <1>3, <2>1
  <2>7. Copies' = SubSeq(Copies, 1, Savepoint!Top - 1)
    BY <2>5, <2>6 DEF t
  <2>8. Savepoint!Rollback
    BY <2>6, <2>7 DEF Savepoint!Rollback, Copies
  <2>9. QED
    BY <2>8 DEF Savepoint!Next
<1>8. CASE UNCHANGED vars
  BY <1>8 DEF vars, Copies, View, Depth
<1>9. QED
  BY <1>4, <1>5, <1>6, <1>7, <1>8 DEF Next

\* Nested transactions are savepoints: beginning copies, committing replaces,
\* rolling back forgets, at any depth.
THEOREM Refinement == Spec => ImplementsSavepoints
<1>1. Spec => []Inv
  BY InitInv, StepInv, PTL DEF Spec
<1>2. QED
  BY <1>1, InitRefines, StepRefines, PTL DEF Spec, ImplementsSavepoints, Savepoint!Spec, Copies

-----------------------------------------------------------------------------
(* Ranges: keys in order.                                                  *)

Orders == {"Ascending", "Descending"}

\* Keys are totally ordered, forwards and backwards.
LEMMA OrderIsTotal ==
    ASSUME NEW order \in Orders, NEW j \in Keys, NEW k \in Keys
    PROVE  /\ Before(order, j, k) \/ j = k \/ Before(order, k, j)
           /\ Before(order, j, k) => j # k /\ ~Before(order, k, j)
           /\ \A l \in Keys : Before(order, j, k) /\ Before(order, k, l) => Before(order, j, l)
BY KeysAreOrdered DEF Orders, Before

\* A set that is not empty has a last key.
LEMMA LastKey ==
    ASSUME NEW order \in Orders
    PROVE  \A S \in SUBSET Keys :
             S # {} => \E last \in S : \A k \in S \ {last} : Before(order, k, last)
<1> DEFINE HasLast(S) == S # {} => \E last \in S : \A k \in S \ {last} : Before(order, k, last)
           P == {S \in SUBSET Keys : HasLast(S)}
<1>1. ASSUME NEW S \in SUBSET Keys, \A x \in S : S \ {x} \in P
      PROVE  S \in P
  <2>1. SUFFICES ASSUME NEW x \in S PROVE \E last \in S : \A k \in S \ {last} : Before(order, k, last)
    OBVIOUS
  <2>2. CASE S \ {x} = {}
    BY <2>2
  <2>3. CASE S \ {x} # {}
    <3>1. PICK last \in S \ {x} : \A k \in (S \ {x}) \ {last} : Before(order, k, last)
      BY <1>1, <2>3
    <3>2. CASE Before(order, x, last)
      BY <3>1, <3>2
    <3>3. CASE ~Before(order, x, last)
      <4>1. Before(order, last, x)
        BY <3>1, <3>3, OrderIsTotal
      <4>2. ASSUME NEW k \in S \ {x} PROVE Before(order, k, x)
        BY <3>1, <4>1, OrderIsTotal
      <4>3. QED
        BY <4>2
    <3>4. QED
      BY <3>2, <3>3
  <2>4. QED
    BY <2>2, <2>3
<1> HIDE DEF HasLast
<1>2. \A S \in SUBSET Keys : S \in P
  <2> HIDE DEF P
  <2>1. QED
    BY <1>1, KeysAreOrdered, SubsetInduction
<1>3. QED
  BY <1>2 DEF HasLast

\* Each key comes before those behind it.
InOrder(list, order) == \A i, j \in DOMAIN list : i < j => Before(order, list[i], list[j])

\* So every set of keys can be listed in order.
LEMMA ListingExists ==
    ASSUME NEW order \in Orders
    PROVE  \A S \in SUBSET Keys : \E list \in [1 .. Cardinality(S) -> S] : InOrder(list, order)
<1> DEFINE Listed(S) == \E list \in [1 .. Cardinality(S) -> S] : InOrder(list, order)
           P == {S \in SUBSET Keys : Listed(S)}
<1>1. ASSUME NEW S \in SUBSET Keys, \A x \in S : S \ {x} \in P
      PROVE  S \in P
  <2>1. CASE S = {}
    <3>1. Cardinality(S) = 0
      BY <2>1, FS_EmptySet
    <3>2. [i \in 1 .. 0 |-> 0] \in [1 .. Cardinality(S) -> S]
      BY <3>1
    <3>3. InOrder([i \in 1 .. 0 |-> 0], order)
      BY DEF InOrder
    <3>4. QED
      BY <3>2, <3>3
  <2>2. CASE S # {}
    <3> DEFINE n == Cardinality(S)
    <3>1. PICK last \in S : \A k \in S \ {last} : Before(order, k, last)
      BY <2>2, LastKey
    <3>2. IsFiniteSet(S)
      BY KeysAreOrdered, FS_Subset
    <3>3. n \in Nat /\ n # 0 /\ Cardinality(S \ {last}) = n - 1
      BY <2>2, <3>1, <3>2, FS_EmptySet, FS_RemoveElement, FS_CardinalityType
    <3>4. PICK list \in [1 .. n - 1 -> S \ {last}] : InOrder(list, order)
      BY <1>1, <3>1, <3>3
    <3> HIDE DEF n
    <3> DEFINE longer == [i \in 1 .. n |-> IF i = n THEN last ELSE list[i]]
    <3>5. longer \in [1 .. n -> S]
      <4>1. \A i \in 1 .. n : i # n => i \in 1 .. n - 1
        BY <3>3
      <4>2. QED
        BY <3>1, <3>4, <4>1
    <3>6. InOrder(longer, order)
      <4>1. SUFFICES ASSUME NEW i \in 1 .. n, NEW j \in 1 .. n, i < j
                     PROVE  Before(order, longer[i], longer[j])
        BY <3>5 DEF InOrder
      <4>2. i \in 1 .. n - 1 /\ i # n /\ longer[i] = list[i] /\ list[i] \in S \ {last}
        BY <3>3, <3>4, <4>1
      <4>3. CASE j = n
        BY <3>1, <4>2, <4>3
      <4>4. CASE j # n
        <5>1. j \in 1 .. n - 1 /\ longer[j] = list[j]
          BY <3>3, <4>4
        <5>2. QED
          BY <3>4, <4>1, <4>2, <5>1 DEF InOrder
      <4>5. QED
        BY <4>3, <4>4
    <3>7. QED
      BY <3>5, <3>6 DEF n
  <2>3. QED
    BY <2>1, <2>2
<1> HIDE DEF Listed
<1>2. \A S \in SUBSET Keys : S \in P
  <2> HIDE DEF P
  <2>1. QED
    BY <1>1, KeysAreOrdered, SubsetInduction
<1>3. QED
  BY <1>2 DEF Listed

\* The listing of a set is in order and has all of its keys.
LEMMA ListingFacts ==
    ASSUME NEW order \in Orders, NEW S \in SUBSET Keys
    PROVE  /\ Cardinality(S) \in Nat
           /\ Listing(S, order) \in [1 .. Cardinality(S) -> S]
           /\ InOrder(Listing(S, order), order)
           /\ \A k \in S : \E i \in 1 .. Cardinality(S) : Listing(S, order)[i] = k
<1> DEFINE n == Cardinality(S)
           list == Listing(S, order)
<1>1. IsFiniteSet(S) /\ n \in Nat
  BY KeysAreOrdered, FS_Subset, FS_CardinalityType
<1>2. list \in [1 .. n -> S] /\ InOrder(list, order)
  BY ListingExists DEF Listing, InOrder
<1> HIDE DEF n, list
<1> DEFINE found == {list[i] : i \in 1 .. n}
<1>3. list \in Bijection(1 .. n, found)
  <2>1. \A i, j \in 1 .. n : list[i] = list[j] => i = j
    <3>1. SUFFICES ASSUME NEW i \in 1 .. n, NEW j \in 1 .. n, list[i] = list[j], i # j
                   PROVE  FALSE
      OBVIOUS
    <3>2. list[i] \in Keys
      BY <1>2
    <3>3. Before(order, list[i], list[i])
      BY <1>1, <1>2, <3>1 DEF InOrder
    <3>4. QED
      BY <3>2, <3>3, OrderIsTotal
  <2>2. list \in [1 .. n -> found]
    BY <1>2
  <2>3. QED
    BY <2>1, <2>2 DEF Bijection, Injection, Surjection, IsInjective
<1>4. found \subseteq S
  BY <1>2
<1> HIDE DEF found
<1>5. ExistsBijection(1 .. n, found)
  BY <1>3 DEF ExistsBijection
<1>6. IsFiniteSet(found) /\ Cardinality(found) = n
  <2>1. IsFiniteSet(found)
    BY <1>1, <1>4, FS_Subset
  <2>2. QED
    BY <1>1, <1>5, <2>1, FS_CountingElements
<1>7. found = S
  BY <1>1, <1>4, <1>6, FS_Subset DEF n
<1>8. \A k \in S : \E i \in 1 .. n : list[i] = k
  BY <1>7 DEF found
<1>9. QED
  BY <1>1, <1>2, <1>8 DEF n, list

-----------------------------------------------------------------------------
(* Ranges: records in the order of their keys.                             *)

Sorted(list, order) ==
    \A i, j \in 1 .. Len(list) : i < j => Before(order, list[i][1], list[j][1])

Seen(list) == {list[i] : i \in 1 .. Len(list)}

\* The records of a map in a range.
InMap(map, none, range) ==
    {<<k, map[k]>> : k \in {key \in Keys : map[key] # none /\ InRange(range, key)}}

\* The entries of a map in a range are these records, sorted.
LEMMA EntriesFacts ==
    ASSUME NEW none, NEW map, NEW range \in KeyRange
    PROVE  /\ \A V : (\A k \in Keys : map[k] # none => map[k] \in V)
                     => Entries(map, none, range) \in Seq(Keys \X V)
           /\ Sorted(Entries(map, none, range), range.order)
           /\ Seen(Entries(map, none, range)) = InMap(map, none, range)
<1> DEFINE S == {key \in Keys : map[key] # none /\ InRange(range, key)}
           n == Cardinality(S)
           keys == Listing(S, range.order)
           list == Entries(map, none, range)
<1>1. range.order \in Orders
  BY DEF KeyRange, Orders
<1>2. S \in SUBSET Keys /\ \A k \in S : map[k] # none
  OBVIOUS
<1>3. InMap(map, none, range) = {<<k, map[k]>> : k \in S}
  BY DEF InMap
<1>4. list = [i \in DOMAIN keys |-> <<keys[i], map[keys[i]]>>]
  BY DEF Entries
<1> HIDE DEF S, list
<1>5. /\ n \in Nat /\ keys \in [1 .. n -> S] /\ InOrder(keys, range.order)
      /\ \A k \in S : \E i \in 1 .. n : keys[i] = k
  BY <1>1, <1>2, ListingFacts
<1> HIDE DEF n, keys
<1>6. ASSUME NEW V, \A k \in Keys : map[k] # none => map[k] \in V
      PROVE  list \in Seq(Keys \X V)
  <2>1. list \in [1 .. n -> Keys \X V]
    BY <1>2, <1>4, <1>5, <1>6
  <2>2. QED
    BY <1>5, <2>1
<1>7. Len(list) = n
  <2>1. list \in [1 .. n -> Keys \X {map[k] : k \in Keys}]
    BY <1>2, <1>4, <1>5
  <2>2. QED
    BY <1>5, <2>1
<1>8. \A i \in 1 .. n : list[i] = <<keys[i], map[keys[i]]>> /\ list[i][1] = keys[i]
  BY <1>4, <1>5
<1>9. Sorted(list, range.order)
  <2>1. \A i, j \in 1 .. n : i < j => Before(range.order, keys[i], keys[j])
    BY <1>5 DEF InOrder
  <2>2. \A i, j \in 1 .. n : i < j => Before(range.order, list[i][1], list[j][1])
    BY <1>8, <2>1
  <2>3. QED
    BY <1>7, <2>2 DEF Sorted
<1>10. Seen(list) = {<<k, map[k]>> : k \in S}
  <2>1. \A i \in 1 .. n : keys[i] \in S
    BY <1>5
  <2>2. Seen(list) = {list[i] : i \in 1 .. n}
    BY <1>7 DEF Seen
  <2>3. \A x \in Seen(list) : \E k \in S : x = <<k, map[k]>>
    BY <1>8, <2>1, <2>2
  <2>4. \A k \in S : <<k, map[k]>> \in Seen(list)
    BY <1>5, <1>8, <2>2
  <2>5. QED
    BY <2>3, <2>4
<1>11. QED
  BY <1>3, <1>6, <1>9, <1>10 DEF list

\* The same for a storage and for what a cache keeps.
LEMMA StoreEntries ==
    ASSUME NEW map \in [Keys -> Values \cup {Absent}], NEW range \in KeyRange
    PROVE  /\ Entries(map, Absent, range) \in Seq(Keys \X Values)
           /\ Sorted(Entries(map, Absent, range), range.order)
           /\ Seen(Entries(map, Absent, range)) = InMap(map, Absent, range)
<1>1. \A k \in Keys : map[k] # Absent => map[k] \in Values
  OBVIOUS
<1>2. QED
  BY <1>1, EntriesFacts

LEMMA CacheEntries ==
    ASSUME NEW map \in [Keys -> Values \cup {Absent, Untouched}], NEW range \in KeyRange
    PROVE  /\ Entries(map, Untouched, range) \in Seq(Keys \X (Values \cup {Absent}))
           /\ Sorted(Entries(map, Untouched, range), range.order)
           /\ Seen(Entries(map, Untouched, range)) = InMap(map, Untouched, range)
<1>1. \A k \in Keys : map[k] # Untouched => map[k] \in Values \cup {Absent}
  OBVIOUS
<1>2. QED
  BY <1>1, EntriesFacts

\* The records of a set before a given one.
Lower(set, x, order) == {y \in set : Before(order, y[1], x[1])}

\* In a sorted list a record stands behind as many as have keys before its key.
LEMMA Rank ==
    ASSUME NEW X, NEW order \in Orders, NEW list \in Seq(Keys \X X), Sorted(list, order),
           NEW i \in 1 .. Len(list)
    PROVE  /\ IsFiniteSet(Lower(Seen(list), list[i], order))
           /\ Cardinality(Lower(Seen(list), list[i], order)) = i - 1
<1> DEFINE L == Lower(Seen(list), list[i], order)
           f == [j \in 1 .. i - 1 |-> list[j]]
           n == Len(list)
<1>1. n \in Nat /\ i \in 1 .. n /\ i - 1 \in Nat /\ \A j \in 1 .. n : list[j][1] \in Keys
  OBVIOUS
<1>2. \A j \in 1 .. i - 1 : list[j] \in L
  BY <1>1 DEF Lower, Seen, Sorted
<1>3. \A y \in L : \E j \in 1 .. i - 1 : list[j] = y
  <2>1. ASSUME NEW y \in L PROVE \E j \in 1 .. i - 1 : list[j] = y
    <3>1. PICK j \in 1 .. n : list[j] = y
      BY DEF Lower, Seen
    <3>2. Before(order, list[j][1], list[i][1])
      BY <3>1 DEF Lower
    <3>3. ~(i < j) /\ i # j
      BY <1>1, <3>2, OrderIsTotal DEF Sorted
    <3>4. QED
      BY <1>1, <3>1, <3>3
  <2>2. QED
    BY <2>1
<1>4. \A j, k \in 1 .. i - 1 : list[j] = list[k] => j = k
  <2>1. SUFFICES ASSUME NEW j \in 1 .. i - 1, NEW k \in 1 .. i - 1, list[j] = list[k], j < k
                 PROVE  FALSE
    OBVIOUS
  <2>2. Before(order, list[j][1], list[k][1])
    BY <1>1, <2>1 DEF Sorted
  <2>3. QED
    BY <1>1, <2>1, <2>2, OrderIsTotal
<1> HIDE DEF L, n
<1>5. f \in [1 .. i - 1 -> L]
  BY <1>2
<1>6. f \in Bijection(1 .. i - 1, L)
  BY <1>3, <1>4, <1>5 DEF Bijection, Injection, Surjection, IsInjective
<1> HIDE DEF f
<1>7. ExistsBijection(1 .. i - 1, L)
  BY <1>6 DEF ExistsBijection
<1>8. IsFiniteSet(L)
  BY <1>1, <1>7, FS_NatBijection
<1>9. Cardinality(L) = i - 1
  BY <1>1, <1>7, <1>8, FS_CountingElements
<1>10. QED
  BY <1>8, <1>9 DEF L

\* Sorted lists of the same records are not of different length.
LEMMA SortedNotLonger ==
    ASSUME NEW X, NEW order \in Orders,
           NEW s \in Seq(Keys \X X), NEW t \in Seq(Keys \X X),
           Sorted(s, order), Sorted(t, order), Seen(s) = Seen(t)
    PROVE  Len(s) <= Len(t)
<1> DEFINE n == Len(s)
<1>1. n \in Nat /\ Len(t) \in Nat
  OBVIOUS
<1>2. SUFFICES ASSUME n # 0 PROVE n <= Len(t)
  BY <1>1
<1>3. n \in 1 .. Len(s)
  BY <1>1, <1>2
<1>4. s[n] \in Seen(t)
  BY <1>3 DEF Seen
<1>5. PICK i \in 1 .. Len(t) : t[i] = s[n]
  BY <1>4 DEF Seen
<1>6. Cardinality(Lower(Seen(s), s[n], order)) = n - 1
  BY <1>3, Rank
<1>7. Cardinality(Lower(Seen(t), t[i], order)) = i - 1
  BY Rank
<1>8. n - 1 = i - 1
  BY <1>5, <1>6, <1>7
<1>9. QED
  BY <1>1, <1>5, <1>8

\* There is one sorted list of a set of records.
LEMMA SortedUnique ==
    ASSUME NEW X, NEW order \in Orders,
           NEW s \in Seq(Keys \X X), NEW t \in Seq(Keys \X X),
           Sorted(s, order), Sorted(t, order), Seen(s) = Seen(t)
    PROVE  s = t
<1>1. Len(s) = Len(t) /\ Len(s) \in Nat
  <2>1. Len(s) \in Nat /\ Len(t) \in Nat
    OBVIOUS
  <2>2. Len(s) <= Len(t) /\ Len(t) <= Len(s)
    BY SortedNotLonger
  <2>3. QED
    BY <2>1, <2>2
<1>2. ASSUME NEW i \in 1 .. Len(s)
      PROVE  s[i] = t[i]
  <2>1. s[i] \in Seen(t)
    BY DEF Seen
  <2>2. PICK j \in 1 .. Len(t) : t[j] = s[i]
    BY <2>1 DEF Seen
  <2>3. Cardinality(Lower(Seen(s), s[i], order)) = i - 1
    BY Rank
  <2>4. Cardinality(Lower(Seen(t), t[j], order)) = j - 1
    BY Rank
  <2>5. i - 1 = j - 1
    BY <2>2, <2>3, <2>4
  <2>6. i = j
    BY <1>1, <2>5
  <2>7. QED
    BY <2>2, <2>6
<1>3. QED
  BY <1>1, <1>2

-----------------------------------------------------------------------------
(* Two sorted iterators are merged.                                        *)

Left == Seq(Keys \X (Values \cup {Absent}))
Records == Seq(Keys \X Values)

Iterator == [left : Left, right : Records, given : Records]

Size(it) == Len(it.left) + Len(it.right)

\* What two iterators give together: the cached values, and what is below and not cached.
Merged(left, right) ==
    {x \in Seen(left) : x[2] # Absent} \cup {x \in Seen(right) : \A y \in Seen(left) : y[1] # x[1]}

\* What was given comes before what is left.
Merging(it, order) ==
    /\ it \in Iterator
    /\ Sorted(it.left, order) /\ Sorted(it.right, order) /\ Sorted(it.given, order)
    /\ \A x \in Seen(it.given), y \in Seen(it.left) \cup Seen(it.right) :
         Before(order, x[1], y[1])

\* What an iterator has given and will give.
Gives(it) == Seen(it.given) \cup Merged(it.left, it.right)

\* The first of a list, and the others.
LEMMA FirstAndOthers ==
    ASSUME NEW X, NEW order \in Orders, NEW list \in Seq(Keys \X X), list # <<>>
    PROVE  /\ Head(list) \in Keys \X X /\ Tail(list) \in Seq(Keys \X X)
           /\ Len(list) \in Nat \ {0} /\ Len(Tail(list)) = Len(list) - 1
           /\ Seen(list) = {Head(list)} \cup Seen(Tail(list))
           /\ Sorted(list, order) =>
                /\ Sorted(Tail(list), order)
                /\ \A y \in Seen(Tail(list)) : Before(order, Head(list)[1], y[1])
<1> DEFINE n == Len(list)
           tail == Tail(list)
<1>1. n \in Nat \ {0} /\ tail \in Seq(Keys \X X) /\ Len(tail) = n - 1
      /\ Head(list) = list[1] /\ \A i \in 1 .. n - 1 : tail[i] = list[i + 1]
  OBVIOUS
<1>2. Head(list) \in Keys \X X
  BY <1>1
<1> HIDE DEF n, tail
<1>3. Seen(list) = {Head(list)} \cup Seen(tail)
  <2>1. \A i \in 1 .. n : i = 1 \/ (i - 1 \in 1 .. n - 1 /\ (i - 1) + 1 = i)
    BY <1>1
  <2>2. \A x \in Seen(list) : x = Head(list) \/ x \in Seen(tail)
    <3>1. SUFFICES ASSUME NEW i \in 1 .. n
                   PROVE  list[i] = Head(list) \/ list[i] \in Seen(tail)
      BY DEF Seen, n
    <3>2. CASE i = 1
      BY <1>1, <3>2
    <3>3. CASE i # 1
      <4>1. i - 1 \in 1 .. n - 1 /\ (i - 1) + 1 = i
        BY <2>1, <3>3
      <4>2. tail[i - 1] = list[i]
        BY <1>1, <4>1
      <4>3. tail[i - 1] \in Seen(tail)
        BY <1>1, <4>1 DEF Seen
      <4>4. QED
        BY <4>2, <4>3
    <3>4. QED
      BY <3>2, <3>3
  <2>3. \A i \in 1 .. n - 1 : i + 1 \in 1 .. n
    BY <1>1
  <2>4. \A x \in Seen(tail) : x \in Seen(list)
    BY <1>1, <2>3 DEF Seen, n
  <2>5. Head(list) \in Seen(list)
    BY <1>1 DEF Seen, n
  <2>6. QED
    BY <2>2, <2>4, <2>5
<1>4. ASSUME Sorted(list, order)
      PROVE  Sorted(tail, order) /\ \A y \in Seen(tail) : Before(order, Head(list)[1], y[1])
  <2>1. \A i, j \in 1 .. n : i < j => Before(order, list[i][1], list[j][1])
    BY <1>4 DEF Sorted, n
  <2>2. \A i \in 1 .. n - 1 : i + 1 \in 1 .. n /\ 1 \in 1 .. n /\ 1 < i + 1
    BY <1>1
  <2>3. Sorted(tail, order)
    BY <1>1, <2>1, <2>2 DEF Sorted
  <2>4. \A y \in Seen(tail) : Before(order, list[1][1], y[1])
    BY <1>1, <2>1, <2>2 DEF Seen
  <2>5. QED
    BY <1>1, <2>3, <2>4
<1>5. QED
  BY <1>1, <1>2, <1>3, <1>4 DEF n, tail

\* A record that comes after all others may be added.
LEMMA OneMoreGiven ==
    ASSUME NEW X, NEW order \in Orders, NEW list \in Seq(Keys \X X), NEW x \in Keys \X X
    PROVE  /\ Append(list, x) \in Seq(Keys \X X)
           /\ Seen(Append(list, x)) = Seen(list) \cup {x}
           /\ Sorted(list, order) /\ (\A y \in Seen(list) : Before(order, y[1], x[1]))
                => Sorted(Append(list, x), order)
<1> DEFINE longer == Append(list, x)
           n == Len(list)
<1>1. /\ n \in Nat /\ longer \in Seq(Keys \X X) /\ Len(longer) = n + 1
      /\ longer[n + 1] = x /\ \A i \in 1 .. n : longer[i] = list[i]
  OBVIOUS
<1> HIDE DEF longer
<1>2. \A i \in 1 .. n + 1 : i = n + 1 \/ i \in 1 .. n
  BY <1>1
<1>3. Seen(longer) = Seen(list) \cup {x}
  <2>1. \A y \in Seen(longer) : y = x \/ y \in Seen(list)
    BY <1>1, <1>2 DEF Seen
  <2>2. \A i \in 1 .. n : i \in 1 .. n + 1
    BY <1>1
  <2>3. \A y \in Seen(list) : y \in Seen(longer)
    BY <1>1, <2>2 DEF Seen
  <2>4. x \in Seen(longer)
    BY <1>1 DEF Seen
  <2>5. QED
    BY <2>1, <2>3, <2>4
<1>4. ASSUME Sorted(list, order), \A y \in Seen(list) : Before(order, y[1], x[1])
      PROVE  Sorted(longer, order)
  <2>1. \A i, j \in 1 .. n : i < j => Before(order, list[i][1], list[j][1])
    BY <1>4 DEF Sorted
  <2>2. \A i \in 1 .. n : Before(order, list[i][1], x[1])
    BY <1>4 DEF Seen
  <2>3. ASSUME NEW i \in 1 .. n + 1, NEW j \in 1 .. n + 1, i < j
        PROVE  Before(order, longer[i][1], longer[j][1])
    <3>1. i \in 1 .. n
      BY <1>1, <2>3
    <3>2. QED
      BY <1>1, <1>2, <2>1, <2>2, <2>3, <3>1
  <2>4. QED
    BY <1>1, <2>3 DEF Sorted
<1>5. QED
  BY <1>1, <1>3, <1>4 DEF longer

\* A cached record that comes before all that is below is given or, deleted, passed over.
LEMMA TakeLeft ==
    ASSUME NEW order \in Orders, NEW it, Merging(it, order), it.left # <<>>,
           \A y \in Seen(it.right) : Before(order, Head(it.left)[1], y[1])
    PROVE  /\ Merging(take_left(it), order)
           /\ Gives(take_left(it)) = Gives(it)
           /\ Size(take_left(it)) = Size(it) - 1
<1> DEFINE x == Head(it.left)
           rest == Tail(it.left)
           next_given == IF x[2] = Absent THEN it.given ELSE Append(it.given, x)
           then == take_left(it)
<1>1. it.left \in Left /\ it.right \in Records /\ it.given \in Records
      /\ it = [left |-> it.left, right |-> it.right, given |-> it.given]
  BY DEF Merging, Iterator
<1>2. then = [left |-> rest, right |-> it.right, given |-> next_given]
  <2>1. then = [it EXCEPT !.left = rest, !.given = next_given]
    BY DEF take_left
  <2> HIDE DEF then, rest, next_given
  <2>2. QED
    BY <2>1 DEF Merging, Iterator
<1>3. /\ x \in Keys \X (Values \cup {Absent}) /\ rest \in Left
      /\ Len(it.left) \in Nat \ {0} /\ Len(rest) = Len(it.left) - 1
      /\ Seen(it.left) = {x} \cup Seen(rest)
      /\ Sorted(rest, order)
      /\ \A y \in Seen(rest) : Before(order, x[1], y[1])
  BY <1>1, FirstAndOthers DEF Merging, Left
<1> HIDE DEF x, rest
<1>4. /\ next_given \in Records /\ Sorted(next_given, order)
      /\ Seen(next_given) = Seen(it.given) \cup (IF x[2] = Absent THEN {} ELSE {x})
  <2>1. CASE x[2] = Absent
    BY <1>1, <2>1 DEF Merging
  <2>2. CASE x[2] # Absent
    <3>1. x \in Keys \X Values
      BY <1>3, <2>2
    <3>2. \A y \in Seen(it.given) : Before(order, y[1], x[1])
      BY <1>3 DEF Merging
    <3>3. Sorted(it.given, order)
      BY DEF Merging
    <3>4. it.given \in Seq(Keys \X Values)
      BY <1>1 DEF Records
    <3>5. /\ Append(it.given, x) \in Seq(Keys \X Values)
          /\ Seen(Append(it.given, x)) = Seen(it.given) \cup {x}
          /\ Sorted(it.given, order) /\ (\A y \in Seen(it.given) : Before(order, y[1], x[1]))
               => Sorted(Append(it.given, x), order)
      BY <3>1, <3>4, OneMoreGiven
    <3>6. QED
      BY <2>2, <3>2, <3>3, <3>5 DEF Records
  <2>3. QED
    BY <2>1, <2>2
<1> HIDE DEF next_given, then
<1>5. then \in Iterator
  BY <1>1, <1>2, <1>3, <1>4 DEF Iterator
<1>6. \A y \in Seen(rest) \cup Seen(it.right) : Before(order, x[1], y[1])
  BY <1>3 DEF x
<1>7. \A g \in Seen(next_given), y \in Seen(rest) \cup Seen(it.right) : Before(order, g[1], y[1])
  BY <1>3, <1>4, <1>6 DEF Merging
<1>8. Merging(then, order)
  BY <1>2, <1>3, <1>4, <1>5, <1>7 DEF Merging
<1>9. \A y \in Seen(it.right) : x[1] # y[1]
  <2>1. \A y \in Seen(it.right) : y[1] \in Keys
    BY <1>1 DEF Records, Seen
  <2>2. x[1] \in Keys
    BY <1>3
  <2>3. QED
    BY <1>6, <2>1, <2>2, OrderIsTotal
<1>10. Merged(it.left, it.right) = (IF x[2] = Absent THEN {} ELSE {x}) \cup Merged(rest, it.right)
  BY <1>3, <1>9 DEF Merged
<1>11. Gives(then) = Gives(it)
  BY <1>2, <1>4, <1>10 DEF Gives
<1>12. Size(then) = Size(it) - 1
  <2>1. Len(it.right) \in Nat
    BY <1>1 DEF Records
  <2>2. Size(then) = Len(rest) + Len(it.right)
    BY <1>2 DEF Size
  <2>3. Size(it) = Len(it.left) + Len(it.right)
    BY DEF Size
  <2>4. QED
    BY <1>3, <2>1, <2>2, <2>3
<1>13. QED
  BY <1>8, <1>11, <1>12 DEF then

\* A record below that comes before all that is cached is given.
LEMMA TakeRight ==
    ASSUME NEW order \in Orders, NEW it, Merging(it, order), it.right # <<>>,
           \A y \in Seen(it.left) : Before(order, Head(it.right)[1], y[1])
    PROVE  /\ Merging(take_right(it), order)
           /\ Gives(take_right(it)) = Gives(it)
           /\ Size(take_right(it)) = Size(it) - 1
<1> DEFINE x == Head(it.right)
           rest == Tail(it.right)
           next_given == Append(it.given, x)
           then == take_right(it)
<1>1. it.left \in Left /\ it.right \in Records /\ it.given \in Records
      /\ it = [left |-> it.left, right |-> it.right, given |-> it.given]
  BY DEF Merging, Iterator
<1>2. then = [left |-> it.left, right |-> rest, given |-> next_given]
  <2>1. then = [it EXCEPT !.right = rest, !.given = next_given]
    BY DEF take_right
  <2> HIDE DEF then, rest, next_given
  <2>2. QED
    BY <2>1 DEF Merging, Iterator
<1>3. /\ x \in Keys \X Values /\ rest \in Records
      /\ Len(it.right) \in Nat \ {0} /\ Len(rest) = Len(it.right) - 1
      /\ Seen(it.right) = {x} \cup Seen(rest)
      /\ Sorted(rest, order)
      /\ \A y \in Seen(rest) : Before(order, x[1], y[1])
  BY <1>1, FirstAndOthers DEF Merging, Records
<1> HIDE DEF x, rest
<1>4. /\ next_given \in Records /\ Sorted(next_given, order)
      /\ Seen(next_given) = Seen(it.given) \cup {x}
  <2>1. \A y \in Seen(it.given) : Before(order, y[1], x[1])
    BY <1>3 DEF Merging
  <2>2. Sorted(it.given, order)
    BY DEF Merging
  <2>3. it.given \in Seq(Keys \X Values) /\ x \in Keys \X Values
    BY <1>1, <1>3 DEF Records
  <2>4. /\ Append(it.given, x) \in Seq(Keys \X Values)
        /\ Seen(Append(it.given, x)) = Seen(it.given) \cup {x}
        /\ Sorted(it.given, order) /\ (\A y \in Seen(it.given) : Before(order, y[1], x[1]))
             => Sorted(Append(it.given, x), order)
    BY <2>3, OneMoreGiven
  <2>5. QED
    BY <2>1, <2>2, <2>4 DEF Records
<1> HIDE DEF next_given, then
<1>5. then \in Iterator
  BY <1>1, <1>2, <1>3, <1>4 DEF Iterator
<1>6. \A y \in Seen(it.left) \cup Seen(rest) : Before(order, x[1], y[1])
  BY <1>3 DEF x
<1>7. \A g \in Seen(next_given), y \in Seen(it.left) \cup Seen(rest) : Before(order, g[1], y[1])
  BY <1>3, <1>4, <1>6 DEF Merging
<1>8. Merging(then, order)
  BY <1>2, <1>3, <1>4, <1>5, <1>7 DEF Merging
<1>9. \A y \in Seen(it.left) : y[1] # x[1]
  <2>1. \A y \in Seen(it.left) : y[1] \in Keys
    BY <1>1 DEF Left, Seen
  <2>2. x[1] \in Keys
    BY <1>3
  <2>3. QED
    BY <1>6, <2>1, <2>2, OrderIsTotal
<1>10. Merged(it.left, it.right) = {x} \cup Merged(it.left, rest)
  BY <1>3, <1>9 DEF Merged
<1>11. Gives(then) = Gives(it)
  BY <1>2, <1>4, <1>10 DEF Gives
<1>12. Size(then) = Size(it) - 1
  <2>1. Len(it.left) \in Nat
    BY <1>1 DEF Left
  <2>2. Size(then) = Len(it.left) + Len(rest)
    BY <1>2 DEF Size
  <2>3. Size(it) = Len(it.left) + Len(it.right)
    BY DEF Size
  <2>4. QED
    BY <1>3, <2>1, <2>2, <2>3
<1>13. QED
  BY <1>8, <1>11, <1>12 DEF then

\* A record below with the first cached key is dropped.
LEMMA DropRight ==
    ASSUME NEW order \in Orders, NEW it, Merging(it, order), it.left # <<>>, it.right # <<>>,
           Head(it.left)[1] = Head(it.right)[1]
    PROVE  LET then == [it EXCEPT !.right = Tail(@)]
           IN  /\ Merging(then, order)
               /\ Gives(then) = Gives(it)
               /\ Size(then) = Size(it) - 1
               /\ then.left = it.left
               /\ \A y \in Seen(then.right) : Before(order, Head(it.left)[1], y[1])
<1> DEFINE x == Head(it.right)
           rest == Tail(it.right)
           then == [it EXCEPT !.right = Tail(@)]
<1>1. it.left \in Left /\ it.right \in Records /\ it.given \in Records
      /\ it = [left |-> it.left, right |-> it.right, given |-> it.given]
  BY DEF Merging, Iterator
<1>2. then = [left |-> it.left, right |-> rest, given |-> it.given]
  BY <1>1
<1>3. /\ x \in Keys \X Values /\ rest \in Records
      /\ Len(it.right) \in Nat \ {0} /\ Len(rest) = Len(it.right) - 1
      /\ Seen(it.right) = {x} \cup Seen(rest)
      /\ Sorted(rest, order)
      /\ \A y \in Seen(rest) : Before(order, x[1], y[1])
  BY <1>1, FirstAndOthers DEF Merging, Records
<1>4. Head(it.left) \in Seen(it.left) /\ Len(it.left) \in Nat
  BY <1>1, FirstAndOthers DEF Left
<1> HIDE DEF x, rest, then
<1>5. then \in Iterator
  BY <1>1, <1>2, <1>3 DEF Iterator
<1>6. Merging(then, order)
  BY <1>2, <1>3, <1>5 DEF Merging
<1>7. \E y \in Seen(it.left) : y[1] = x[1]
  BY <1>4 DEF x
<1>8. Merged(it.left, it.right) = Merged(it.left, rest)
  BY <1>3, <1>7 DEF Merged
<1>9. Gives(then) = Gives(it)
  BY <1>2, <1>8 DEF Gives
<1>10. Size(then) = Size(it) - 1
  <2>1. Size(then) = Len(it.left) + Len(rest)
    BY <1>2 DEF Size
  <2>2. Size(it) = Len(it.left) + Len(it.right)
    BY DEF Size
  <2>3. QED
    BY <1>3, <1>4, <2>1, <2>2
<1>11. \A y \in Seen(then.right) : Before(order, Head(it.left)[1], y[1])
  BY <1>2, <1>3 DEF x
<1>12. QED
  BY <1>2, <1>6, <1>9, <1>10, <1>11 DEF then

\* Nothing is left when nothing is left on either side.
LEMMA SizeType ==
    ASSUME NEW order, NEW it, Merging(it, order)
    PROVE  /\ Size(it) \in Nat
           /\ Size(it) = 0 <=> it.left = <<>> /\ it.right = <<>>
<1>1. it.left \in Left /\ it.right \in Records
  BY DEF Merging, Iterator
<1>2. Len(it.left) \in Nat /\ Len(it.right) \in Nat
      /\ (Len(it.left) = 0 <=> it.left = <<>>) /\ (Len(it.right) = 0 <=> it.right = <<>>)
  BY <1>1 DEF Left, Records
<1>3. \A a, b \in Nat : a + b \in Nat /\ (a + b = 0 <=> a = 0 /\ b = 0)
  OBVIOUS
<1>4. Size(it) = Len(it.left) + Len(it.right)
  BY DEF Size
<1>5. Size(it) \in Nat /\ (Size(it) = 0 <=> Len(it.left) = 0 /\ Len(it.right) = 0)
  BY <1>2, <1>3, <1>4
<1>6. QED
  BY <1>2, <1>5

\* Of two iterators with something left each, the one whose key comes first moves on.
LEMMA PickMatch ==
    ASSUME NEW order \in Orders, NEW it, Merging(it, order), it.left # <<>>, it.right # <<>>
    PROVE  /\ Merging(pick_match(it, order), order)
           /\ Gives(pick_match(it, order)) = Gives(it)
           /\ Size(pick_match(it, order)) \in {Size(it) - 1, Size(it) - 2}
<1> DEFINE lkey == Head(it.left)[1]
           rkey == Head(it.right)[1]
           dropped == [it EXCEPT !.right = Tail(@)]
<1>1. it.left \in Left /\ it.right \in Records
  BY DEF Merging, Iterator
<1>2. /\ Head(it.left) \in Keys \X (Values \cup {Absent})
      /\ Seen(it.left) = {Head(it.left)} \cup Seen(Tail(it.left))
      /\ Tail(it.left) \in Left
      /\ \A y \in Seen(Tail(it.left)) : Before(order, lkey, y[1])
  BY <1>1, FirstAndOthers DEF Merging, Left
<1>3. /\ Head(it.right) \in Keys \X Values
      /\ Seen(it.right) = {Head(it.right)} \cup Seen(Tail(it.right))
      /\ Tail(it.right) \in Records
      /\ \A y \in Seen(Tail(it.right)) : Before(order, rkey, y[1])
  BY <1>1, FirstAndOthers DEF Merging, Records
<1>4. /\ \A y \in Seen(Tail(it.left)) : y[1] \in Keys
      /\ \A y \in Seen(Tail(it.right)) : y[1] \in Keys
  BY <1>2, <1>3 DEF Left, Records, Seen
<1>5. lkey \in Keys /\ rkey \in Keys
  BY <1>2, <1>3
<1>6. /\ Before(order, lkey, rkey) \/ lkey = rkey \/ Before(order, rkey, lkey)
      /\ Before(order, lkey, rkey) => lkey # rkey /\ ~Before(order, rkey, lkey)
  BY <1>5, OrderIsTotal
<1>7. CASE Before(order, lkey, rkey)
  <2>1. pick_match(it, order) = take_left(it)
    <3>1. lkey # rkey /\ ~Before(order, rkey, lkey)
      BY <1>6, <1>7
    <3>2. QED
      BY <1>7, <3>1 DEF pick_match
  <2>2. \A y \in Seen(Tail(it.right)) : Before(order, lkey, y[1])
    BY <1>3, <1>4, <1>5, <1>7, OrderIsTotal
  <2>3. \A y \in Seen(it.right) : Before(order, Head(it.left)[1], y[1])
    BY <1>3, <1>7, <2>2
  <2>4. QED
    BY <2>1, <2>3, TakeLeft
<1>8. CASE lkey = rkey
  <2>1. pick_match(it, order) = take_left(dropped)
    <3>1. ~Before(order, lkey, rkey) /\ ~Before(order, rkey, lkey)
      BY <1>5, <1>8, OrderIsTotal
    <3>2. QED
      BY <1>8, <3>1 DEF pick_match
  <2>2. /\ Merging(dropped, order)
        /\ Gives(dropped) = Gives(it)
        /\ Size(dropped) = Size(it) - 1
        /\ dropped.left = it.left
        /\ \A y \in Seen(dropped.right) : Before(order, Head(it.left)[1], y[1])
    BY <1>8, DropRight
  <2> HIDE DEF dropped
  <2>3. /\ Merging(take_left(dropped), order)
        /\ Gives(take_left(dropped)) = Gives(dropped)
        /\ Size(take_left(dropped)) = Size(dropped) - 1
    BY <2>2, TakeLeft
  <2>4. Size(it) \in Nat
    BY SizeType
  <2>5. Size(take_left(dropped)) = Size(it) - 2
    BY <2>2, <2>3, <2>4
  <2>6. QED
    BY <2>1, <2>2, <2>3, <2>5
<1>9. CASE Before(order, rkey, lkey)
  <2>1. pick_match(it, order) = take_right(it)
    <3>1. lkey # rkey /\ ~Before(order, lkey, rkey)
      BY <1>5, <1>9, OrderIsTotal
    <3>2. QED
      BY <1>9, <3>1 DEF pick_match
  <2>2. \A y \in Seen(Tail(it.left)) : Before(order, rkey, y[1])
    BY <1>2, <1>4, <1>5, <1>9, OrderIsTotal
  <2>3. \A y \in Seen(it.left) : Before(order, Head(it.right)[1], y[1])
    BY <1>2, <1>9, <2>2
  <2>4. QED
    BY <2>1, <2>3, TakeRight
<1>10. QED
  BY <1>6, <1>7, <1>8, <1>9

\* A step of the merge loses nothing and, until both iterators are done, moves on.
LEMMA NextStep ==
    ASSUME NEW order \in Orders, NEW it, Merging(it, order)
    PROVE  /\ Merging(next(it, order), order)
           /\ Gives(next(it, order)) = Gives(it)
           /\ IF Size(it) = 0 THEN Size(next(it, order)) = 0
              ELSE Size(next(it, order)) < Size(it)
<1>1. /\ Size(it) \in Nat
      /\ Size(it) = 0 <=> it.left = <<>> /\ it.right = <<>>
  BY SizeType
<1>2. Seen(<<>>) = {}
  BY DEF Seen
<1>3. CASE it.left # <<>> /\ it.right # <<>>
  <2>1. next(it, order) = pick_match(it, order)
    BY <1>3 DEF next
  <2>2. QED
    BY <1>1, <1>3, <2>1, PickMatch
<1>4. CASE it.left # <<>> /\ it.right = <<>>
  <2>1. next(it, order) = take_left(it)
    BY <1>4 DEF next
  <2>2. \A y \in Seen(it.right) : Before(order, Head(it.left)[1], y[1])
    BY <1>2, <1>4
  <2>3. /\ Merging(take_left(it), order) /\ Gives(take_left(it)) = Gives(it)
        /\ Size(take_left(it)) = Size(it) - 1
    BY <1>4, <2>2, TakeLeft
  <2>4. QED
    BY <1>1, <1>4, <2>1, <2>3
<1>5. CASE it.left = <<>> /\ it.right # <<>>
  <2>1. next(it, order) = take_right(it)
    BY <1>5 DEF next
  <2>2. \A y \in Seen(it.left) : Before(order, Head(it.right)[1], y[1])
    BY <1>2, <1>5
  <2>3. /\ Merging(take_right(it), order) /\ Gives(take_right(it)) = Gives(it)
        /\ Size(take_right(it)) = Size(it) - 1
    BY <1>5, <2>2, TakeRight
  <2>4. QED
    BY <1>1, <1>5, <2>1, <2>3
<1>6. CASE it.left = <<>> /\ it.right = <<>>
  <2>1. next(it, order) = it
    BY <1>6 DEF next
  <2>2. QED
    BY <1>1, <1>6, <2>1
<1>7. QED
  BY <1>3, <1>4, <1>5, <1>6

\* As many steps as there are items.
LEMMA MergingSteps ==
    ASSUME NEW X, NEW x \in X, NEW m \in Nat, NEW g \in [1 .. m -> [X -> X]]
    PROVE  \E f \in [0 .. m -> X] : f[0] = x /\ \A n \in 1 .. m : f[n] = g[n][f[n-1]]
BY StepsTaken

\* What comes out of the merge of two sorted iterators is sorted and is what they
\* give together.
LEMMA CollectedFacts ==
    ASSUME NEW order \in Orders, NEW left \in Left, NEW right \in Records,
           Sorted(left, order), Sorted(right, order)
    PROVE  /\ Collected(new(left, right), order) \in Records
           /\ Sorted(Collected(new(left, right), order), order)
           /\ Seen(Collected(new(left, right), order)) = Merged(left, right)
<1> DEFINE it == new(left, right)
           m == Size(it)
           X == {i \in Iterator : Merging(i, order)}
           g == [n \in 1 .. m |-> [i \in X |-> next(i, order)]]
<1>1. Merging(it, order) /\ Gives(it) = Merged(left, right)
  <2>1. <<>> \in Records /\ Seen(<<>>) = {} /\ Sorted(<<>>, order)
    BY DEF Records, Seen, Sorted
  <2>2. it.left = left /\ it.right = right /\ it.given = <<>> /\ it \in Iterator
    BY <2>1 DEF new, Iterator
  <2> HIDE DEF it
  <2>3. Merging(it, order)
    BY <2>1, <2>2 DEF Merging
  <2>4. Gives(it) = Merged(left, right)
    BY <2>1, <2>2 DEF Gives
  <2>5. QED
    BY <2>3, <2>4
<1>2. m \in Nat
  BY <1>1, SizeType
<1>3. it \in X
  BY <1>1 DEF Merging
<1>4. \A i \in X : next(i, order) \in X
  <2>1. ASSUME NEW i \in X PROVE next(i, order) \in X
    <3>1. Merging(next(i, order), order)
      BY NextStep
    <3>2. QED
      BY <3>1 DEF Merging
  <2>2. QED
    BY <2>1
<1> DEFINE Solves(h) == h = [n \in 0 .. m |-> IF n = 0 THEN it ELSE next(h[n-1], order)]
           d == CHOOSE h : Solves(h)
<1>5. Collected(it, order) = d[m].given
  BY DEF Collected, Size
<1> HIDE DEF it, m, X
<1>6. g \in [1 .. m -> [X -> X]]
  BY <1>4
<1> HIDE DEF g
<1>7. PICK f \in [0 .. m -> X] : f[0] = it /\ \A n \in 1 .. m : f[n] = g[n][f[n-1]]
  BY <1>2, <1>3, <1>6, MergingSteps
<1>8. ASSUME NEW n \in 1 .. m PROVE f[n] = next(f[n-1], order)
  <2>1. f[n-1] \in X
    BY <1>2, <1>7
  <2>2. QED
    BY <1>7, <2>1 DEF g
<1>9. \A n \in 0 .. m : f[n] = IF n = 0 THEN it ELSE next(f[n-1], order)
  BY <1>2, <1>7, <1>8
<1>10. Solves(f)
  BY <1>7, <1>9
<1>11. Solves(d)
  BY <1>10
<1> HIDE DEF d
<1>12. d[0] = it /\ \A n \in 1 .. m : d[n] = next(d[n-1], order)
  <2>1. d = [n \in 0 .. m |-> IF n = 0 THEN it ELSE next(d[n-1], order)]
    BY <1>11
  <2>2. QED
    BY <1>2, <2>1
<1> DEFINE P == {n \in 0 .. m : /\ Merging(d[n], order) /\ Gives(d[n]) = Merged(left, right)
                                /\ Size(d[n]) <= m - n}
<1>13. 0 \in P
  BY <1>1, <1>2, <1>12 DEF it, m
<1>14. ASSUME NEW n \in 1 .. m, n - 1 \in P
       PROVE  n \in P
  <2>1. /\ Merging(d[n-1], order) /\ Gives(d[n-1]) = Merged(left, right)
        /\ Size(d[n-1]) <= m - (n - 1)
    BY <1>14
  <2>2. d[n] = next(d[n-1], order)
    BY <1>12
  <2>3. /\ Merging(d[n], order) /\ Gives(d[n]) = Gives(d[n-1])
        /\ IF Size(d[n-1]) = 0 THEN Size(d[n]) = 0 ELSE Size(d[n]) < Size(d[n-1])
    BY <2>1, <2>2, NextStep
  <2>4. Size(d[n]) \in Nat /\ Size(d[n-1]) \in Nat
    BY <2>1, <2>3, SizeType
  <2>5. Size(d[n]) <= m - n
    BY <1>2, <2>1, <2>3, <2>4
  <2>6. QED
    BY <2>1, <2>3, <2>5
<1> HIDE DEF P
<1>15. \A n \in 0 .. m : n \in P
  BY <1>2, <1>13, <1>14, BoundedInduction
<1>16. m \in P
  BY <1>2, <1>15
<1> DEFINE last == d[m]
<1>17. Merging(last, order) /\ Gives(last) = Merged(left, right) /\ Size(last) <= m - m
  BY <1>16 DEF P
<1> HIDE DEF last
<1>18. last.left = <<>> /\ last.right = <<>>
  BY <1>2, <1>17, SizeType
<1>19. Seen(<<>>) = {}
  BY DEF Seen
<1>20. Merged(<<>>, <<>>) = {}
  BY <1>19 DEF Merged
<1>21. last.given \in Records /\ Sorted(last.given, order) /\ Seen(last.given) = Merged(left, right)
  BY <1>17, <1>18, <1>20 DEF Merging, Iterator, Gives
<1>22. QED
  BY <1>5, <1>21 DEF last, it

-----------------------------------------------------------------------------
(* A range is what gets would return.                                      *)

\* Cached and underlying records in a range together are the records seen through the cache.
LEMMA MergedOverlay ==
    ASSUME NEW below \in Store, NEW cache \in Cache, NEW range \in KeyRange
    PROVE  /\ Entries(cache.local_state, Untouched, range) \in Left
           /\ Sorted(Entries(cache.local_state, Untouched, range), range.order)
           /\ Entries(below, Absent, range) \in Records
           /\ Sorted(Entries(below, Absent, range), range.order)
           /\ Merged(Entries(cache.local_state, Untouched, range), Entries(below, Absent, range))
                = InMap(Overlay(below, cache), Absent, range)
<1> DEFINE cached == cache.local_state
           left == Entries(cached, Untouched, range)
           right == Entries(below, Absent, range)
           seen == Overlay(below, cache)
           In(k) == InRange(range, k)
<1>1. cached \in [Keys -> Values \cup {Absent, Untouched}]
  BY DEF Cache
<1>2. below \in [Keys -> Values \cup {Absent}]
  BY DEF Store
<1>3. /\ left \in Seq(Keys \X (Values \cup {Absent})) /\ Sorted(left, range.order)
      /\ Seen(left) = InMap(cached, Untouched, range)
  BY <1>1, CacheEntries
<1>4. /\ right \in Seq(Keys \X Values) /\ Sorted(right, range.order)
      /\ Seen(right) = InMap(below, Absent, range)
  BY <1>2, StoreEntries
<1>5. seen = [k \in Keys |-> IF cached[k] = Untouched THEN below[k] ELSE cached[k]]
  BY DEF Overlay
<1> HIDE DEF cached, left, right, seen
<1>6. Seen(left) = {<<k, cached[k]>> : k \in {key \in Keys : cached[key] # Untouched /\ In(key)}}
  BY <1>3 DEF InMap
<1>7. Seen(right) = {<<k, below[k]>> : k \in {key \in Keys : below[key] # Absent /\ In(key)}}
  BY <1>4 DEF InMap
<1>8. InMap(seen, Absent, range)
        = {<<k, seen[k]>> : k \in {key \in Keys : seen[key] # Absent /\ In(key)}}
  BY DEF InMap
<1> HIDE DEF In
<1>9. ASSUME NEW x \in Merged(left, right)
      PROVE  x \in InMap(seen, Absent, range)
  <2>1. CASE x \in Seen(left) /\ x[2] # Absent
    <3>1. PICK k \in Keys : cached[k] # Untouched /\ In(k) /\ x = <<k, cached[k]>>
      BY <1>6, <2>1
    <3>2. seen[k] = cached[k] /\ seen[k] # Absent
      BY <1>5, <2>1, <3>1
    <3>3. QED
      BY <1>8, <3>1, <3>2
  <2>2. CASE x \in Seen(right) /\ \A y \in Seen(left) : y[1] # x[1]
    <3>1. PICK k \in Keys : below[k] # Absent /\ In(k) /\ x = <<k, below[k]>>
      BY <1>7, <2>2
    <3>2. cached[k] = Untouched
      <4>1. SUFFICES ASSUME cached[k] # Untouched PROVE FALSE
        OBVIOUS
      <4>2. <<k, cached[k]>> \in Seen(left)
        BY <1>6, <3>1, <4>1
      <4>3. QED
        BY <2>2, <3>1, <4>2
    <3>3. seen[k] = below[k]
      BY <1>5, <3>2
    <3>4. QED
      BY <1>8, <3>1, <3>3
  <2>3. QED
    BY <2>1, <2>2 DEF Merged
<1>10. ASSUME NEW x \in InMap(seen, Absent, range)
       PROVE  x \in Merged(left, right)
  <2>1. PICK k \in Keys : seen[k] # Absent /\ In(k) /\ x = <<k, seen[k]>>
    BY <1>8
  <2>2. CASE cached[k] = Untouched
    <3>1. x = <<k, below[k]>> /\ below[k] # Absent
      BY <1>5, <2>1, <2>2
    <3>2. x \in Seen(right)
      BY <1>7, <2>1, <3>1
    <3>3. \A y \in Seen(left) : y[1] # x[1]
      BY <1>6, <2>1, <2>2
    <3>4. QED
      BY <3>2, <3>3 DEF Merged
  <2>3. CASE cached[k] # Untouched
    <3>1. x = <<k, cached[k]>> /\ cached[k] # Absent
      BY <1>5, <2>1, <2>3
    <3>2. x \in Seen(left)
      BY <1>6, <2>1, <2>3, <3>1
    <3>3. QED
      BY <3>1, <3>2 DEF Merged
  <2>4. QED
    BY <2>2, <2>3
<1>11. Merged(left, right) = InMap(seen, Absent, range)
  BY <1>9, <1>10
<1>12. QED
  BY <1>3, <1>4, <1>11 DEF Left, Records, left, right, seen, cached

\* A range through a cache gives the records of the view through it.
LEMMA CollectedOverlay ==
    ASSUME NEW below \in Store, NEW cache \in Cache, NEW range \in KeyRange
    PROVE  Collected(new(Entries(cache.local_state, Untouched, range), Entries(below, Absent, range)),
                     range.order)
             = Entries(Overlay(below, cache), Absent, range)
<1> DEFINE left == Entries(cache.local_state, Untouched, range)
           right == Entries(below, Absent, range)
           merged == Collected(new(left, right), range.order)
           seen == Overlay(below, cache)
           list == Entries(seen, Absent, range)
<1>1. range.order \in Orders
  BY DEF KeyRange, Orders
<1>2. /\ left \in Left /\ Sorted(left, range.order)
      /\ right \in Records /\ Sorted(right, range.order)
      /\ Merged(left, right) = InMap(seen, Absent, range)
  BY MergedOverlay
<1>3. seen \in [Keys -> Values \cup {Absent}]
  BY DEF Overlay, Store, Cache
<1> HIDE DEF left, right, seen
<1>4. /\ merged \in Records /\ Sorted(merged, range.order)
      /\ Seen(merged) = InMap(seen, Absent, range)
  BY <1>1, <1>2, CollectedFacts
<1>5. /\ list \in Seq(Keys \X Values) /\ Sorted(list, range.order)
      /\ Seen(list) = InMap(seen, Absent, range)
  BY <1>3, StoreEntries
<1> HIDE DEF merged, list
<1>6. merged \in Seq(Keys \X Values)
  BY <1>4 DEF Records
<1>7. merged = list
  BY <1>1, <1>4, <1>5, <1>6, SortedUnique
<1>8. QED
  BY <1>7 DEF merged, list, left, right, seen

\* Iterators over iterators, through every open transaction.
LEMMA RangeThroughViews ==
    ASSUME TypeOK, NEW range \in KeyRange, NEW n \in 0 .. Depth
    PROVE  range_through(range)[n] = Entries(View[n], Absent, range)
<1> DEFINE m == Depth
           first == Entries(base, Absent, range)
           Through(list, k) ==
             Collected(new(Entries(caches[k].local_state, Untouched, range), list), range.order)
           f == [k \in 0 .. m |-> Entries(View[k], Absent, range)]
<1>1. m \in Nat /\ base \in Store /\ \A k \in 1 .. m : caches[k] \in Cache
  BY DEF TypeOK, Depth
<1>2. /\ View[0] = base /\ \A k \in 0 .. m : View[k] \in Store
      /\ \A k \in 1 .. m : View[k] = Overlay(View[k-1], caches[k])
  BY <1>1, ViewSteps DEF TypeOK, View, Depth
<1>3. ASSUME NEW k \in 1 .. m
      PROVE  f[k] = Through(f[k-1], k)
  <2>1. k \in 0 .. m /\ k - 1 \in 0 .. m
    BY <1>1
  <2>2. View[k-1] \in Store /\ caches[k] \in Cache
    BY <1>1, <1>2, <2>1
  <2>3. Collected(new(Entries(caches[k].local_state, Untouched, range),
                      Entries(View[k-1], Absent, range)), range.order)
          = Entries(Overlay(View[k-1], caches[k]), Absent, range)
    BY <2>2, CollectedOverlay
  <2>4. f[k] = Entries(View[k], Absent, range) /\ f[k-1] = Entries(View[k-1], Absent, range)
    BY <2>1
  <2>5. QED
    BY <1>2, <2>3, <2>4
<1>4. f[0] = first
  BY <1>1, <1>2
<1> DEFINE Solves(h) == h = [k \in 0 .. m |-> IF k = 0 THEN first ELSE Through(h[k-1], k)]
           d == CHOOSE h : Solves(h)
<1>5. range_through(range) = d
  BY DEF range_through
<1> HIDE DEF m, first, Through
<1>6. \A k \in 0 .. m : f[k] = IF k = 0 THEN first ELSE Through(f[k-1], k)
  <2> HIDE DEF f
  <2>1. QED
    BY <1>1, <1>3, <1>4
<1>7. Solves(f)
  <2>1. f = [k \in 0 .. m |-> f[k]]
    OBVIOUS
  <2> HIDE DEF f
  <2>2. QED
    BY <1>6, <2>1
<1>8. Solves(d)
  BY <1>7
<1> HIDE DEF d
<1>9. d[0] = first /\ \A k \in 1 .. m : d[k] = Through(d[k-1], k)
  <2>1. d = [k \in 0 .. m |-> IF k = 0 THEN first ELSE Through(d[k-1], k)]
    BY <1>8
  <2>2. QED
    BY <1>1, <2>1
<1> DEFINE T == {k \in Nat : d[k] = f[k]}
<1> HIDE DEF f
<1>10. 0 \in T
  BY <1>4, <1>9
<1>11. \A k \in 1 .. m : k - 1 \in T => k \in T
  BY <1>3, <1>9
<1> HIDE DEF T
<1>12. \A k \in 0 .. m : k \in T
  BY <1>1, <1>10, <1>11, BoundedInduction
<1>13. d[n] = f[n]
  BY <1>12 DEF T, m
<1>14. QED
  BY <1>5, <1>13 DEF f, m

\* In every reachable state a range, through any number of nested transactions, gives
\* the records that gets would return, in its order.
THEOREM RangesAreRight == Spec => []RangesReadView
<1>1. TypeOK => RangesReadView
  BY RangeThroughViews DEF RangesReadView
<1>2. Spec => []Inv
  BY InitInv, StepInv, PTL DEF Spec
<1>3. Inv => TypeOK
  BY DEF Inv
<1>4. QED
  BY <1>1, <1>2, <1>3, PTL

=============================================================================
