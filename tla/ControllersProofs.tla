------------------------- MODULE ControllersProofs -------------------------
(***************************************************************************)
(* The hooks under their admin, and the claims: they are a ClaimLedger,    *)
(* for any addresses, amounts, releases, caps and blocks.                  *)
(***************************************************************************)
EXTENDS Controllers, FunctionLemmas, SequenceTheorems

-----------------------------------------------------------------------------
(* Types, and hooks that are listed once.                                  *)

ClaimList == {None} \cup Seq(ClaimSet)

NoRepeats(list) == \A i, j \in DOMAIN list : list[i] = list[j] => i = j

HookList == {list \in Seq(Addr) : NoRepeats(list)}

Inv ==
    /\ admin \in Addr \cup {None, Unset}
    /\ hooks \in {Unset} \cup HookList
    /\ claims \in [Addr -> ClaimList]

LEMMA HooksListed == ASSUME Inv PROVE Hooks \in HookList
<1>1. <<>> \in HookList
  BY DEF HookList, NoRepeats
<1>2. QED
  BY <1>1 DEF Inv, Hooks

\* A list without repeats is as long as the set of what it lists.
LEMMA ListedOnce ==
    ASSUME NEW list \in HookList
    PROVE  IsFiniteSet(ToSet(list)) /\ Cardinality(ToSet(list)) = Len(list)
<1> DEFINE n == Len(list)
           S == ToSet(list)
           f == [i \in 1 .. n |-> list[i]]
<1>1. list \in Seq(Addr) /\ n \in Nat /\ DOMAIN list = 1 .. n /\ NoRepeats(list)
  BY DEF HookList
<1>2. f \in Bijection(1 .. n, S)
  BY <1>1 DEF Bijection, Injection, Surjection, IsInjective, NoRepeats, ToSet
<1> HIDE DEF f, S, n
<1>3. ExistsBijection(1 .. n, S)
  BY <1>2 DEF ExistsBijection
<1>4. IsFiniteSet(S)
  BY <1>1, <1>3, FS_NatBijection
<1>5. Cardinality(S) = n
  BY <1>1, <1>3, <1>4, FS_CountingElements
<1>6. QED
  BY <1>4, <1>5 DEF S, n

\* An address that is not listed yet is added at the end.
LEMMA HookAdded ==
    ASSUME NEW list \in HookList, NEW addr \in Addr, ~Contains(list, addr)
    PROVE  /\ Append(list, addr) \in HookList
           /\ Cardinality(ToSet(Append(list, addr))) = Cardinality(ToSet(list)) + 1
<1> DEFINE longer == Append(list, addr)
<1>1. list \in Seq(Addr) /\ Len(list) \in Nat /\ NoRepeats(list)
  BY DEF HookList
<1>2. longer \in Seq(Addr) /\ Len(longer) = Len(list) + 1
  BY <1>1
<1>3. /\ DOMAIN list = 1 .. Len(list) /\ DOMAIN longer = 1 .. Len(list) + 1
      /\ \A i \in 1 .. Len(list) : longer[i] = list[i] /\ longer[i] # addr
      /\ longer[Len(list) + 1] = addr
  BY <1>1, <1>2 DEF Contains
<1> HIDE DEF longer
<1>4. longer \in HookList
  BY <1>1, <1>2, <1>3 DEF HookList, NoRepeats
<1>5. Cardinality(ToSet(longer)) = Len(longer) /\ Cardinality(ToSet(list)) = Len(list)
  BY <1>4, ListedOnce
<1>6. QED
  BY <1>2, <1>4, <1>5 DEF longer

\* The only entry of an address is removed.
LEMMA HookRemoved ==
    ASSUME NEW list \in HookList, NEW addr \in Addr, Contains(list, addr)
    PROVE  LET shorter == RemoveAt(list, SelectInSeq(list, LAMBDA h : h = addr))
           IN  /\ shorter \in HookList
               /\ Cardinality(ToSet(shorter)) = Cardinality(ToSet(list)) - 1
<1> DEFINE n == Len(list)
           at == SelectInSeq(list, LAMBDA h : h = addr)
           I == {i \in 1 .. n : list[i] = addr}
           shorter == RemoveAt(list, at)
<1>1. list \in Seq(Addr) /\ n \in Nat /\ NoRepeats(list) /\ DOMAIN list = 1 .. n
  BY DEF HookList
<1>2. at \in 1 .. n
  <2>1. PICK i \in 1 .. n : list[i] = addr
    BY DEF Contains
  <2>2. I = {i}
    BY <1>1, <2>1 DEF NoRepeats
  <2>3. at = CHOOSE x \in {i} : \A y \in {i} : x =< y
    BY <2>2 DEF SelectInSeq, Min
  <2>4. QED
    BY <2>1, <2>3
<1> HIDE DEF at
<1> DEFINE front == SubSeq(list, 1, at - 1)
           back == SubSeq(list, at + 1, n)
<1>3. /\ front \in Seq(Addr) /\ Len(front) = at - 1
      /\ \A i \in 1 .. at - 1 : front[i] = list[i]
  BY <1>1, <1>2
<1>4. /\ back \in Seq(Addr) /\ Len(back) = n - at
      /\ \A i \in 1 .. n - at : back[i] = list[at + i]
  <2>1. at + 1 \in 1 .. n + 1 /\ n \in (at + 1) - 1 .. n
    BY <1>1, <1>2
  <2>2. /\ back \in Seq(Addr) /\ Len(back) = (IF at + 1 <= n THEN n - (at + 1) + 1 ELSE 0)
        /\ \A i \in 1 .. n - (at + 1) + 1 : back[i] = list[(at + 1) + i - 1]
    BY <1>1, <2>1, SubSeqProperties
  <2> HIDE DEF back, n
  <2>3. n \in Nat /\ at \in 1 .. n
    BY <1>1, <1>2
  <2>4. Len(back) = n - at /\ n - (at + 1) + 1 = n - at
    BY <2>2, <2>3
  <2>5. \A i \in 1 .. n - at : (at + 1) + i - 1 = at + i
    BY <2>3
  <2>6. QED
    BY <2>2, <2>4, <2>5
<1>5. shorter = front \o back
  BY DEF RemoveAt
<1> HIDE DEF front, back, shorter
<1>6. /\ shorter \in Seq(Addr) /\ Len(shorter) = n - 1 /\ DOMAIN shorter = 1 .. n - 1
      /\ \A i \in 1 .. n - 1 : shorter[i] = IF i < at THEN list[i] ELSE list[i + 1]
  <2> HIDE DEF n
  <2>1. /\ shorter \in Seq(Addr) /\ Len(shorter) = (at - 1) + (n - at)
        /\ \A i \in 1 .. (at - 1) + (n - at) :
             shorter[i] = IF i <= at - 1 THEN front[i] ELSE back[i - (at - 1)]
    BY <1>3, <1>4, <1>5, ConcatProperties
  <2>2. n \in Nat /\ at \in 1 .. n /\ (at - 1) + (n - at) = n - 1
    BY <1>1, <1>2
  <2>3. DOMAIN shorter = 1 .. n - 1
    BY <2>1, <2>2
  <2>4. ASSUME NEW i \in 1 .. n - 1
        PROVE  shorter[i] = IF i < at THEN list[i] ELSE list[i + 1]
    <3>1. CASE i < at
      BY <1>3, <2>1, <2>2, <3>1
    <3>2. CASE ~(i < at)
      <4>1. i - (at - 1) \in 1 .. n - at /\ at + (i - (at - 1)) = i + 1 /\ ~(i <= at - 1)
        BY <2>2, <3>2
      <4>2. shorter[i] = back[i - (at - 1)]
        BY <2>1, <2>2, <4>1
      <4>3. back[i - (at - 1)] = list[at + (i - (at - 1))]
        BY <1>4, <4>1
      <4>4. QED
        BY <3>2, <4>1, <4>2, <4>3
    <3>3. QED
      BY <3>1, <3>2
  <2>5. QED
    BY <2>1, <2>2, <2>3, <2>4
<1>7. shorter \in HookList
  <2>1. ASSUME NEW i \in 1 .. n - 1, NEW j \in 1 .. n - 1, shorter[i] = shorter[j]
        PROVE  i = j
    <3> HIDE DEF n
    <3> DEFINE p == IF i < at THEN i ELSE i + 1
               q == IF j < at THEN j ELSE j + 1
    <3>1. n \in Nat /\ at \in 1 .. n /\ i \in 1 .. n - 1 /\ j \in 1 .. n - 1
      BY <1>1, <1>2
    <3>2. p \in 1 .. n /\ q \in 1 .. n /\ (p = q => i = j)
      BY <3>1
    <3>3. list[p] = list[q]
      BY <1>6, <2>1
    <3> HIDE DEF p, q
    <3>4. p = q
      BY <1>1, <3>2, <3>3 DEF NoRepeats
    <3>5. QED
      BY <3>2, <3>4
  <2>2. QED
    BY <1>6, <2>1 DEF HookList, NoRepeats
<1>8. Cardinality(ToSet(shorter)) = n - 1 /\ Cardinality(ToSet(list)) = n
  BY <1>6, <1>7, ListedOnce
<1>9. QED
  BY <1>7, <1>8 DEF shorter, at

-----------------------------------------------------------------------------
(* How often a claim is listed.                                            *)

\* Among the first n.
TimesUpTo(list, n, claim) == Cardinality({i \in 1 .. n : list[i] = claim})

Times(list, claim) == TimesUpTo(list, Len(list), claim)

LEMMA TimesNatural ==
    ASSUME NEW list, NEW n \in Nat, NEW claim
    PROVE  /\ IsFiniteSet({i \in 1 .. n : list[i] = claim})
           /\ TimesUpTo(list, n, claim) \in Nat
<1>1. IsFiniteSet(1 .. n)
  BY FS_Interval
<1>2. IsFiniteSet({i \in 1 .. n : list[i] = claim})
  BY <1>1, FS_Subset
<1>3. QED
  BY <1>2, FS_CardinalityType DEF TimesUpTo

\* The next entry is one claim more, if it is this one.
LEMMA TimesNext ==
    ASSUME NEW list, NEW n \in Nat \ {0}, NEW claim
    PROVE  TimesUpTo(list, n, claim) =
             TimesUpTo(list, n - 1, claim) + (IF list[n] = claim THEN 1 ELSE 0)
<1> DEFINE P(k) == {i \in 1 .. k : list[i] = claim}
<1>1. n - 1 \in Nat
  OBVIOUS
<1>2. IsFiniteSet(P(n - 1)) /\ Cardinality(P(n - 1)) \in Nat
  <2>1. /\ IsFiniteSet({i \in 1 .. n - 1 : list[i] = claim})
        /\ TimesUpTo(list, n - 1, claim) \in Nat
    BY <1>1, TimesNatural
  <2>2. QED
    BY <2>1 DEF TimesUpTo
<1>3. CASE list[n] = claim
  <2>1. P(n) = P(n - 1) \cup {n} /\ n \notin P(n - 1)
    BY <1>3
  <2> HIDE DEF P
  <2>2. Cardinality(P(n)) = Cardinality(P(n - 1)) + 1
    BY <1>2, <2>1, FS_AddElement
  <2>3. QED
    BY <1>3, <2>2 DEF TimesUpTo, P
<1>4. CASE list[n] # claim
  <2>1. P(n) = P(n - 1)
    BY <1>4
  <2>2. Cardinality(P(n)) = Cardinality(P(n - 1)) + 0
    BY <1>2, <2>1
  <2>3. QED
    BY <1>4, <2>2 DEF TimesUpTo
<1>5. QED
  BY <1>3, <1>4

LEMMA TimesNothing == ASSUME NEW list, NEW claim PROVE TimesUpTo(list, 0, claim) = 0
<1>1. {i \in 1 .. 0 : list[i] = claim} = {}
  OBVIOUS
<1>2. QED
  BY <1>1, FS_EmptySet DEF TimesUpTo

\* A claim that is appended is listed once more, every other as often as before.
LEMMA TimesAppended ==
    ASSUME NEW list \in Seq(ClaimSet), NEW added \in ClaimSet, NEW claim
    PROVE  /\ Times(list, claim) \in Nat
           /\ Times(Append(list, added), claim) =
                Times(list, claim) + (IF added = claim THEN 1 ELSE 0)
<1> DEFINE longer == Append(list, added)
           n == Len(longer)
<1>1. longer \in Seq(ClaimSet) /\ n \in Nat \ {0} /\ n - 1 = Len(list) /\ Len(list) \in Nat
  OBVIOUS
<1>2. longer[n] = added /\ \A i \in 1 .. n - 1 : longer[i] = list[i]
  OBVIOUS
<1>3. {i \in 1 .. n - 1 : longer[i] = claim} = {i \in 1 .. n - 1 : list[i] = claim}
  BY <1>2
<1> HIDE DEF longer, n
<1>4. TimesUpTo(longer, n - 1, claim) = Times(list, claim)
  BY <1>1, <1>3 DEF TimesUpTo, Times
<1>5. TimesUpTo(longer, n, claim) =
        TimesUpTo(longer, n - 1, claim) + (IF longer[n] = claim THEN 1 ELSE 0)
  BY <1>1, TimesNext
<1>6. Times(list, claim) \in Nat
  BY <1>1, TimesNatural DEF Times
<1>7. QED
  BY <1>2, <1>4, <1>5, <1>6 DEF Times, longer, n

-----------------------------------------------------------------------------
(* The settlement of claims, one after the other.                          *)

\* What a payment comes to, up to some claim.
Paid == [to_send : 0 .. MaxAmount, waiting : Seq(ClaimSet)]

Paying == Paid \cup {Failed}

LEMMA ClaimsTyped ==
    ASSUME NEW claim \in ClaimSet
    PROVE  /\ claim = Claim(claim.amount, claim.release_at)
           /\ claim.amount \in 0 .. MaxAmount
           /\ claim.release_at \in Releases
BY ControllersAssumption DEF ClaimSet, Claim

\* What a claim does to what is paid and what waits.
LEMMA SettledCases ==
    ASSUME NEW paid \in Paid, paid # Failed, NEW claim \in ClaimSet, NEW blk,
           NEW cap \in Caps, Settled(paid, claim, blk, cap) # Failed
    PROVE  LET next == Settled(paid, claim, blk, cap)
               sum == paid.to_send + claim.amount
           IN  /\ next \in Paid
               /\ \/ /\ is_expired(claim.release_at, blk)
                     /\ cap = None \/ (cap # None /\ sum <= cap)
                     /\ next = [to_send |-> sum, waiting |-> paid.waiting]
                  \/ /\ is_expired(claim.release_at, blk)
                           => ~(cap = None \/ (cap # None /\ sum <= cap))
                     /\ next = [to_send |-> paid.to_send,
                                waiting |-> Append(paid.waiting, claim)]
<1>1. claim.amount \in 0 .. MaxAmount
  BY ClaimsTyped
<1>2. MaxAmount \in Nat /\ (cap # None => cap \in 0 .. MaxAmount)
  BY ControllersAssumption
<1>3. paid.to_send \in 0 .. MaxAmount /\ paid.waiting \in Seq(ClaimSet)
      /\ paid = [to_send |-> paid.to_send, waiting |-> paid.waiting]
  BY DEF Paid
<1>4. Append(paid.waiting, claim) \in Seq(ClaimSet)
  BY <1>3
<1>5. CASE ~is_expired(claim.release_at, blk)
  <2>1. Settled(paid, claim, blk, cap) =
          [to_send |-> paid.to_send, waiting |-> Append(paid.waiting, claim)]
    BY <1>3, <1>5 DEF Settled
  <2>2. QED
    BY <1>3, <1>4, <1>5, <2>1 DEF Paid
<1>6. CASE is_expired(claim.release_at, blk)
  <2>1. paid.to_send + claim.amount \in 0 .. MaxAmount
    BY <1>1, <1>2, <1>3, <1>6 DEF Settled
  <2>2. CASE cap = None \/ (cap # None /\ paid.to_send + claim.amount <= cap)
    <3>1. Settled(paid, claim, blk, cap) =
            [to_send |-> paid.to_send + claim.amount, waiting |-> paid.waiting]
      BY <1>1, <1>2, <1>3, <1>6, <2>1, <2>2 DEF Settled
    <3>2. QED
      BY <1>3, <1>6, <2>1, <2>2, <3>1 DEF Paid
  <2>3. CASE ~(cap = None \/ (cap # None /\ paid.to_send + claim.amount <= cap))
    <3>1. cap # None /\ paid.to_send + claim.amount > cap
          /\ ~(paid.to_send + claim.amount > MaxAmount)
      BY <1>1, <1>2, <1>3, <2>1, <2>3
    <3>2. Settled(paid, claim, blk, cap) = [paid EXCEPT !.waiting = Append(@, claim)]
      BY <1>6, <3>1 DEF Settled
    <3>3. Settled(paid, claim, blk, cap) =
            [to_send |-> paid.to_send, waiting |-> Append(paid.waiting, claim)]
      BY <1>3, <3>2
    <3>4. QED
      BY <1>3, <1>4, <1>6, <2>3, <3>3 DEF Paid
  <2>4. QED
    BY <2>2, <2>3
<1>7. QED
  BY <1>5, <1>6

\* StepsTaken, with payments for values.
LEMMA PayingSteps ==
    ASSUME NEW c \in Paying, NEW m \in Nat, NEW g \in [1 .. m -> [Paying -> Paying]]
    PROVE  \E f \in [0 .. m -> Paying] : f[0] = c /\ \A n \in 1 .. m : f[n] = g[n][f[n-1]]
BY StepsTaken

\* The loop ends after as many steps as there are claims.
LEMMA SettlementSteps ==
    ASSUME NEW list \in Seq(ClaimSet), NEW blk, NEW cap \in Caps
    PROVE  /\ Settlement(list, blk, cap) \in [0 .. Len(list) -> Paying]
           /\ Settlement(list, blk, cap)[0] = [to_send |-> 0, waiting |-> <<>>]
           /\ \A n \in 1 .. Len(list) :
                Settlement(list, blk, cap)[n] =
                  Settled(Settlement(list, blk, cap)[n-1], list[n], blk, cap)
<1> DEFINE m == Len(list)
           start == [to_send |-> 0, waiting |-> <<>>]
           After(p, n) == Settled(p, list[n], blk, cap)
           g == [n \in 1 .. m |-> [p \in Paying |-> After(p, n)]]
<1>1. m \in Nat /\ \A n \in 1 .. m : list[n] \in ClaimSet
  OBVIOUS
<1>2. start \in Paying
  BY ControllersAssumption DEF Paying, Paid
<1>3. \A n \in 1 .. m, p \in Paying : After(p, n) \in Paying
  <2>1. SUFFICES ASSUME NEW n \in 1 .. m, NEW p \in Paying, After(p, n) # Failed
                 PROVE  After(p, n) \in Paid
    BY DEF Paying
  <2>2. p \in Paid /\ p # Failed
    BY <2>1 DEF Settled, Paying
  <2>3. QED
    BY <1>1, <2>1, <2>2, SettledCases
<1> HIDE DEF m, start, After
<1>4. g \in [1 .. m -> [Paying -> Paying]]
  BY <1>3
<1> HIDE DEF g
<1>5. PICK f \in [0 .. m -> Paying] : f[0] = start /\ \A n \in 1 .. m : f[n] = g[n][f[n-1]]
  <2>1. m \in Nat
    BY <1>1
  <2>2. QED
    BY <1>2, <1>4, <2>1, PayingSteps
<1>6. ASSUME NEW n \in 1 .. m
      PROVE  f[n] = After(f[n-1], n)
  <2>1. f[n-1] \in Paying
    BY <1>1, <1>5
  <2>2. QED
    BY <1>5, <2>1 DEF g
<1>7. \A n \in 0 .. m : f[n] = IF n = 0 THEN start ELSE After(f[n-1], n)
  BY <1>1, <1>5, <1>6
<1> DEFINE Solves(h) == h = [n \in 0 .. m |-> IF n = 0 THEN start ELSE After(h[n-1], n)]
<1>8. Solves(f)
  BY <1>5, <1>7
<1> DEFINE d == Settlement(list, blk, cap)
<1>9. d = CHOOSE h : Solves(h)
  BY DEF Settlement, m, start, After
<1> HIDE DEF d
<1>10. Solves(d)
  <2> HIDE DEF Solves
  <2>1. QED
    BY <1>8, <1>9
<1>11. d[0] = start /\ \A n \in 1 .. m : d[n] = After(d[n-1], n)
  BY <1>1, <1>10
<1>12. \A n \in 0 .. m : d[n] \in Paying
  <2> DEFINE T == {n \in Nat : d[n] \in Paying}
  <2>1. 0 \in T
    BY <1>2, <1>11
  <2>2. \A n \in 1 .. m : n - 1 \in T => n \in T
    BY <1>1, <1>3, <1>11
  <2> HIDE DEF T
  <2>3. \A n \in 0 .. m : n \in T
    BY <1>1, <2>1, <2>2, BoundedInduction
  <2>4. QED
    BY <2>3 DEF T
<1>13. d \in [0 .. m -> Paying]
  BY <1>10, <1>12
<1>14. QED
  BY <1>11, <1>13 DEF d, m, start, After

\* What has been taken from the first n claims if the others wait.
Taken(list, n, waiting) ==
    [claim \in ClaimSet |-> TimesUpTo(list, n, claim) - Times(waiting, claim)]

Value(bag) == SumFunction([claim \in ClaimSet |-> bag[claim] * claim.amount])

Under(sum, cap) == cap = None \/ (cap # None /\ sum <= cap)

\* What is paid of the first n claims is mature and fits; what waits is not, or does not.
SettledSoFar(paid, list, n, blk, cap) ==
    LET taken == Taken(list, n, paid.waiting)
    IN  /\ paid \in Paid
        /\ \A claim \in ClaimSet :
             /\ taken[claim] \in Nat
             /\ taken[claim] > 0 => is_expired(claim.release_at, blk)
             /\ is_expired(claim.release_at, blk) /\ Times(paid.waiting, claim) > 0
                  => ~Under(paid.to_send + claim.amount, cap)
        /\ Value(taken) = paid.to_send
        /\ Under(paid.to_send, cap)

\* There are finitely many claims.
LEMMA FiniteClaims == IsFiniteSet(ClaimSet)
<1> DEFINE f == [p \in Amounts \X Releases |-> Claim(p[1], p[2])]
<1>1. IsFiniteSet(0 .. MaxAmount)
  BY ControllersAssumption, FS_Interval
<1>2. IsFiniteSet(Amounts) /\ IsFiniteSet(Releases)
  BY <1>1, ControllersAssumption, FS_Subset
<1>3. IsFiniteSet(Amounts \X Releases)
  BY <1>2, FS_Product
<1>4. f \in Surjection(Amounts \X Releases, ClaimSet)
  <2>1. ASSUME NEW claim \in ClaimSet
        PROVE  \E p \in Amounts \X Releases : f[p] = claim
    <3>1. PICK amount \in Amounts, release_at \in Releases : claim = Claim(amount, release_at)
      BY DEF ClaimSet
    <3>2. f[<<amount, release_at>>] = claim
      BY <3>1
    <3>3. QED
      BY <3>2
  <2>2. \A p \in Amounts \X Releases : f[p] \in ClaimSet
    BY DEF ClaimSet
  <2>3. f \in [Amounts \X Releases -> ClaimSet]
    BY <2>2
  <2> HIDE DEF f
  <2>4. QED
    BY <2>1, <2>3 DEF Surjection
<1> HIDE DEF f
<1>5. QED
  BY <1>3, <1>4, FS_Surjection

\* Taking a claim once more is worth its amount more.
LEMMA ValueOfOneMore ==
    ASSUME NEW bag \in [ClaimSet -> Nat], NEW claim \in ClaimSet
    PROVE  Value([bag EXCEPT ![claim] = @ + 1]) = Value(bag) + claim.amount
<1> DEFINE f == [c \in ClaimSet |-> bag[c] * c.amount]
           more == [bag EXCEPT ![claim] = @ + 1]
           v == (bag[claim] + 1) * claim.amount
<1>1. \A c \in ClaimSet : c.amount \in Nat
  BY ClaimsTyped, ControllersAssumption
<1>2. f \in [ClaimSet -> Int] /\ v \in Int
  BY <1>1
<1>3. [c \in ClaimSet |-> more[c] * c.amount] = [f EXCEPT ![claim] = v]
  OBVIOUS
<1>4. v = f[claim] + claim.amount /\ f[claim] \in Int /\ claim.amount \in Int
  BY <1>1
<1> HIDE DEF f, v
<1>5. SumFunction([f EXCEPT ![claim] = v]) = SumFunction(f) - f[claim] + v
  BY <1>2, FiniteClaims, SumExcept
<1>6. SumFunction(f) \in Int
  BY <1>2, FiniteClaims, SumType DEF SumFunction
<1>7. QED
  BY <1>3, <1>4, <1>5, <1>6 DEF Value, f

\* Before the first claim nothing is taken and nothing waits.
LEMMA NothingSettled ==
    ASSUME NEW list, NEW blk, NEW cap \in Caps
    PROVE  SettledSoFar([to_send |-> 0, waiting |-> <<>>], list, 0, blk, cap)
<1> DEFINE start == [to_send |-> 0, waiting |-> <<>>]
           taken == Taken(list, 0, <<>>)
           worth == [claim \in ClaimSet |-> taken[claim] * claim.amount]
<1>1. start \in Paid
  BY ControllersAssumption DEF Paid
<1>2. \A claim : Times(<<>>, claim) = 0
  BY TimesNothing DEF Times
<1>3. \A claim \in ClaimSet : taken[claim] = 0 /\ claim.amount \in Nat
  BY <1>2, TimesNothing, ClaimsTyped, ControllersAssumption DEF Taken
<1>4. worth = [claim \in ClaimSet |-> 0]
  BY <1>3
<1> HIDE DEF worth
<1>5. SumFunctionOnSet(worth, ClaimSet) = 0
  BY <1>4, FiniteClaims, SumZeros
<1>6. Value(taken) = 0
  BY <1>4, <1>5 DEF Value, SumFunction, worth
<1>7. Under(0, cap)
  BY ControllersAssumption DEF Under
<1> HIDE DEF taken
<1>8. QED
  BY <1>1, <1>2, <1>3, <1>6, <1>7 DEF SettledSoFar, taken

\* The next claim is taken or waits, and what held before still holds.
LEMMA OneMoreSettled ==
    ASSUME NEW list \in Seq(ClaimSet), NEW n \in 1 .. Len(list), NEW blk, NEW cap \in Caps,
           NEW paid, paid # Failed, SettledSoFar(paid, list, n - 1, blk, cap),
           Settled(paid, list[n], blk, cap) # Failed
    PROVE  SettledSoFar(Settled(paid, list[n], blk, cap), list, n, blk, cap)
<1> DEFINE claim == list[n]
           next == Settled(paid, claim, blk, cap)
           sum == paid.to_send + claim.amount
           before == Taken(list, n - 1, paid.waiting)
           taken == Taken(list, n, next.waiting)
<1>1. claim \in ClaimSet /\ n \in Nat \ {0} /\ n - 1 \in Nat
  OBVIOUS
<1>2. paid \in Paid /\ paid.to_send \in 0 .. MaxAmount /\ paid.waiting \in Seq(ClaimSet)
  BY DEF SettledSoFar, Paid
<1>3. MaxAmount \in Nat /\ \A c \in ClaimSet : c.amount \in Nat
  BY ClaimsTyped, ControllersAssumption
<1>4. before \in [ClaimSet -> Nat]
  BY DEF SettledSoFar, Taken
<1>5. ASSUME NEW c \in ClaimSet
      PROVE  /\ TimesUpTo(list, n - 1, c) \in Nat
             /\ Times(paid.waiting, c) \in Nat
             /\ TimesUpTo(list, n, c) = TimesUpTo(list, n - 1, c) + (IF claim = c THEN 1 ELSE 0)
             /\ Times(Append(paid.waiting, claim), c) =
                  Times(paid.waiting, c) + (IF claim = c THEN 1 ELSE 0)
  <2>1. TimesUpTo(list, n - 1, c) \in Nat
    BY <1>1, TimesNatural
  <2>2. TimesUpTo(list, n, c) = TimesUpTo(list, n - 1, c) + (IF claim = c THEN 1 ELSE 0)
    BY <1>1, TimesNext
  <2>3. /\ Times(paid.waiting, c) \in Nat
        /\ Times(Append(paid.waiting, claim), c) =
             Times(paid.waiting, c) + (IF claim = c THEN 1 ELSE 0)
    BY <1>1, <1>2, TimesAppended
  <2>4. QED
    BY <2>1, <2>2, <2>3
<1>6. /\ next \in Paid
      /\ \/ /\ is_expired(claim.release_at, blk)
            /\ Under(sum, cap)
            /\ next = [to_send |-> sum, waiting |-> paid.waiting]
         \/ /\ is_expired(claim.release_at, blk) => ~Under(sum, cap)
            /\ next = [to_send |-> paid.to_send, waiting |-> Append(paid.waiting, claim)]
  BY <1>1, <1>2, SettledCases DEF Under
<1>7. ASSUME is_expired(claim.release_at, blk), Under(sum, cap),
             next = [to_send |-> sum, waiting |-> paid.waiting]
      PROVE  SettledSoFar(next, list, n, blk, cap)
  <2>1. next.to_send = sum /\ next.waiting = paid.waiting
    BY <1>7
  <2>2. taken = [before EXCEPT ![claim] = @ + 1]
    <3>1. ASSUME NEW c \in ClaimSet
          PROVE  taken[c] = before[c] + (IF claim = c THEN 1 ELSE 0)
      <4> DEFINE x == TimesUpTo(list, n, c)
                 y == TimesUpTo(list, n - 1, c)
                 w == Times(paid.waiting, c)
                 more == IF claim = c THEN 1 ELSE 0
      <4>1. taken[c] = x - w /\ before[c] = y - w
        BY <2>1 DEF Taken
      <4>2. x = y + more /\ y \in Nat /\ w \in Nat /\ more \in Nat
        BY <1>5
      <4> HIDE DEF taken, before, x, y, w, more
      <4>3. taken[c] = before[c] + more
        BY <4>1, <4>2
      <4>4. QED
        BY <4>3 DEF more
    <3>2. taken = [c \in ClaimSet |-> taken[c]]
      BY DEF Taken
    <3> HIDE DEF taken, before
    <3>3. \A c \in ClaimSet : before[c] \in Nat
      BY <1>4
    <3>4. ASSUME NEW c \in ClaimSet
          PROVE  taken[c] = [before EXCEPT ![claim] = @ + 1][c]
      <4>1. taken[c] = before[c] + (IF claim = c THEN 1 ELSE 0) /\ before[c] \in Nat
        BY <3>1, <3>3
      <4>2. [before EXCEPT ![claim] = @ + 1][c] = IF claim = c THEN before[c] + 1 ELSE before[c]
        BY <1>1, <1>4
      <4>3. QED
        BY <4>1, <4>2
    <3>5. QED
      BY <1>4, <3>2, <3>4
  <2>3. Value(taken) = Value(before) + claim.amount
    BY <1>1, <1>4, <2>2, ValueOfOneMore
  <2>4. Value(taken) = next.to_send
    BY <2>1, <2>3 DEF SettledSoFar
  <2>5. Under(next.to_send, cap)
    BY <1>7, <2>1
  <2>6. ASSUME NEW c \in ClaimSet
        PROVE  /\ taken[c] \in Nat
               /\ taken[c] > 0 => is_expired(c.release_at, blk)
               /\ is_expired(c.release_at, blk) /\ Times(next.waiting, c) > 0
                    => ~Under(next.to_send + c.amount, cap)
    <3>1. taken[c] = before[c] + (IF c = claim THEN 1 ELSE 0) /\ before[c] \in Nat
      BY <1>4, <2>2
    <3>2. taken[c] \in Nat /\ (taken[c] > 0 => is_expired(c.release_at, blk))
      BY <1>7, <3>1 DEF SettledSoFar
    <3>3. ASSUME is_expired(c.release_at, blk), Times(paid.waiting, c) > 0
          PROVE  ~Under(sum + c.amount, cap)
      <4>1. ~Under(paid.to_send + c.amount, cap)
        BY <3>3 DEF SettledSoFar
      <4>2. cap # None => cap \in Nat
        BY ControllersAssumption
      <4>3. c.amount \in Nat /\ claim.amount \in Nat /\ paid.to_send \in Nat
        BY <1>1, <1>2, <1>3
      <4>4. QED
        BY <4>1, <4>2, <4>3 DEF Under
    <3>4. QED
      BY <2>1, <3>2, <3>3
  <2> HIDE DEF next, taken
  <2>7. QED
    BY <1>6, <2>4, <2>5, <2>6 DEF SettledSoFar, taken
<1>8. ASSUME is_expired(claim.release_at, blk) => ~Under(sum, cap),
             next = [to_send |-> paid.to_send, waiting |-> Append(paid.waiting, claim)]
      PROVE  SettledSoFar(next, list, n, blk, cap)
  <2>1. next.to_send = paid.to_send /\ next.waiting = Append(paid.waiting, claim)
    BY <1>8
  <2>2. taken = before
    <3>1. ASSUME NEW c \in ClaimSet
          PROVE  taken[c] = before[c]
      <4>1. /\ TimesUpTo(list, n - 1, c) \in Nat
            /\ Times(paid.waiting, c) \in Nat
            /\ TimesUpTo(list, n, c) = TimesUpTo(list, n - 1, c) + (IF claim = c THEN 1 ELSE 0)
            /\ Times(next.waiting, c) = Times(paid.waiting, c) + (IF claim = c THEN 1 ELSE 0)
        BY <1>5, <2>1
      <4>2. /\ taken[c] = TimesUpTo(list, n, c) - Times(next.waiting, c)
            /\ before[c] = TimesUpTo(list, n - 1, c) - Times(paid.waiting, c)
        BY DEF Taken
      <4>3. QED
        BY <4>1, <4>2
    <3>2. QED
      BY <3>1 DEF Taken
  <2>3. Value(taken) = next.to_send /\ Under(next.to_send, cap)
    BY <2>1, <2>2 DEF SettledSoFar
  <2>4. ASSUME NEW c \in ClaimSet
        PROVE  /\ taken[c] \in Nat
               /\ taken[c] > 0 => is_expired(c.release_at, blk)
               /\ is_expired(c.release_at, blk) /\ Times(next.waiting, c) > 0
                    => ~Under(next.to_send + c.amount, cap)
    <3>1. taken[c] \in Nat /\ (taken[c] > 0 => is_expired(c.release_at, blk))
      BY <2>2 DEF SettledSoFar
    <3>2. CASE c = claim
      BY <1>8, <2>1, <3>1, <3>2
    <3>3. CASE c # claim
      <4>1. Times(next.waiting, c) = Times(paid.waiting, c)
        BY <1>5, <2>1, <3>3
      <4>2. QED
        BY <2>1, <3>1, <4>1 DEF SettledSoFar
    <3>4. QED
      BY <3>2, <3>3
  <2> HIDE DEF next, taken
  <2>5. QED
    BY <1>6, <2>3, <2>4 DEF SettledSoFar, taken
<1>9. QED
  BY <1>6, <1>7, <1>8

\* A settlement that succeeds is one of all the claims.
LEMMA AllSettled ==
    ASSUME NEW list \in Seq(ClaimSet), NEW blk, NEW cap \in Caps,
           NEW paid, paid = Settlement(list, blk, cap)[Len(list)], paid # Failed
    PROVE  SettledSoFar(paid, list, Len(list), blk, cap)
<1> DEFINE d == Settlement(list, blk, cap)
           m == Len(list)
           T == {n \in Nat : d[n] # Failed => SettledSoFar(d[n], list, n, blk, cap)}
<1>1. m \in Nat
  OBVIOUS
<1>2. /\ d[0] = [to_send |-> 0, waiting |-> <<>>]
      /\ \A n \in 1 .. m : d[n] = Settled(d[n-1], list[n], blk, cap)
  BY SettlementSteps
<1> HIDE DEF d
<1>3. 0 \in T
  BY <1>2, NothingSettled
<1>4. ASSUME NEW n \in 1 .. m, n - 1 \in T
      PROVE  n \in T
  <2>1. SUFFICES ASSUME d[n] # Failed
                 PROVE  SettledSoFar(d[n], list, n, blk, cap)
    OBVIOUS
  <2>2. d[n-1] # Failed
    BY <1>2, <2>1 DEF Settled
  <2>3. SettledSoFar(d[n-1], list, n - 1, blk, cap)
    BY <1>4, <2>2
  <2>4. d[n] = Settled(d[n-1], list[n], blk, cap)
    BY <1>2
  <2>5. QED
    BY <2>1, <2>2, <2>3, <2>4, OneMoreSettled
<1> HIDE DEF T
<1>5. \A n \in 0 .. m : n \in T
  BY <1>1, <1>3, <1>4, BoundedInduction
<1>6. m \in T
  BY <1>1, <1>5
<1>7. QED
  BY <1>6 DEF T, d

-----------------------------------------------------------------------------
(* The claims are a ledger.                                                *)

\* Any part of what is owed is a part that can be paid.
LEMMA PartsArePayable ==
    ASSUME NEW bag \in [ClaimSet -> Nat], NEW part \in [ClaimSet -> Nat],
           \A c \in ClaimSet : part[c] <= bag[c]
    PROVE  part \in Ledger!SubBags(bag)
<1> DEFINE some == {c \in ClaimSet : bag[c] > 0}
           values == UNION {0 .. bag[c] : c \in some}
           Part == {p \in [some -> values] : \A c \in some : p[c] <= bag[c]}
           paid == [c \in some |-> part[c]]
<1>1. \A c \in some : part[c] \in values
  OBVIOUS
<1>2. paid \in Part
  <2> HIDE DEF values
  <2>1. QED
    BY <1>1
<1>3. \A c \in ClaimSet : part[c] = IF c \in some THEN paid[c] ELSE 0
  OBVIOUS
<1>4. part = [c \in ClaimSet |-> IF c \in some THEN paid[c] ELSE 0]
  BY <1>3
<1>5. Ledger!SubBags(bag) = {[c \in ClaimSet |-> IF c \in some THEN p[c] ELSE 0] : p \in Part}
  BY DEF Ledger!SubBags
<1> HIDE DEF some, Part, paid
<1>6. QED
  BY <1>2, <1>4, <1>5

\* The ledger's sum is the sum.
LEMMA LedgerSum == ASSUME NEW bag PROVE Ledger!SumOf(bag) = Value(bag)
<1>1. ASSUME NEW f PROVE Ledger!SumFunction(f) = SumFunction(f)
  BY DEF SumFunction, SumFunctionOnSet, FoldFunctionOnSet, MapThenFoldSet,
         Ledger!SumFunction, Ledger!SumFunctionOnSet, Ledger!FoldFunctionOnSet,
         Ledger!MapThenFoldSet
<1>2. QED
  BY <1>1 DEF Value, Ledger!SumOf

\* How often each claim is listed.
Listed(list) == [claim \in ClaimSet |-> Times(list, claim)]

LEMMA ListedTimes ==
    ASSUME NEW stored \in ClaimList
    PROVE  LET list == query_claims(stored)
           IN  /\ list \in Seq(ClaimSet)
               /\ Listed(list) \in [ClaimSet -> Nat]
               /\ \A claim \in ClaimSet :
                    Cardinality({i \in DOMAIN list : list[i] = claim}) = Times(list, claim)
<1> DEFINE list == query_claims(stored)
<1>1. list \in Seq(ClaimSet)
  BY DEF ClaimList, query_claims, unwrap_or_default
<1>2. DOMAIN list = 1 .. Len(list) /\ Len(list) \in Nat
  BY <1>1
<1> HIDE DEF list
<1>3. \A claim \in ClaimSet : Times(list, claim) \in Nat
  BY <1>2, TimesNatural DEF Times
<1>4. \A claim \in ClaimSet :
        Cardinality({i \in DOMAIN list : list[i] = claim}) = Times(list, claim)
  BY <1>2 DEF Times, TimesUpTo
<1>5. QED
  BY <1>1, <1>3, <1>4 DEF list, Listed

OwedLists(stored) == [a \in Addr |-> Listed(query_claims(stored[a]))]

\* What the ledger sees: what is owed, and the last payment.
Owed == [a \in Addr |-> [claim \in ClaimSet |-> TimesOwed(a, claim)]]

Receipt == IF answer = None \/ "messages" \in DOMAIN answer THEN None ELSE answer

\* What the ledger owes is what is listed.
LEMMA OwedIsListed ==
    /\ Inv => Owed = OwedLists(claims)
    /\ Inv' => Owed' = OwedLists(claims')
<1>1. ASSUME Inv PROVE Owed = OwedLists(claims)
  <2>1. ASSUME NEW a \in Addr
        PROVE  [claim \in ClaimSet |-> TimesOwed(a, claim)] = Listed(query_claims(claims[a]))
    <3>1. claims[a] \in ClaimList
      BY <1>1 DEF Inv
    <3>2. QED
      BY <3>1, ListedTimes DEF TimesOwed, Listed
  <2>2. QED
    BY <2>1 DEF OwedLists, Owed
<1>2. ASSUME Inv' PROVE Owed' = OwedLists(claims')
  <2>1. ASSUME NEW a \in Addr
        PROVE  [claim \in ClaimSet |-> TimesOwed(a, claim)'] = Listed(query_claims(claims'[a]))
    <3>1. claims'[a] \in ClaimList
      BY <1>2 DEF Inv
    <3>2. QED
      BY <3>1, ListedTimes DEF TimesOwed, Listed
  <2>2. QED
    BY <2>1 DEF OwedLists, Owed
<1>3. QED
  BY <1>1, <1>2

\* A list that is saved changes what is owed to its address only.
LEMMA OwedAfterSave ==
    ASSUME Inv, Inv', NEW a \in Addr, NEW list \in Seq(ClaimSet),
           claims' = [claims EXCEPT ![a] = list]
    PROVE  Owed' = [Owed EXCEPT ![a] = Listed(list)]
<1>1. Owed = OwedLists(claims) /\ Owed' = OwedLists(claims')
  BY OwedIsListed
<1>2. claims \in [Addr -> ClaimList]
  BY DEF Inv
<1>3. query_claims(list) = list
  BY ControllersAssumption DEF query_claims, unwrap_or_default
<1>4. QED
  BY <1>1, <1>2, <1>3 DEF OwedLists

\* Taking the settled claims is a payment of the ledger.
LEMMA PaymentIsPaid ==
    ASSUME Inv, Inv', NEW a \in Addr, NEW cap \in Caps, ClaimTokens(a, cap)
    PROVE  Ledger!Pay(a, cap)
<1> DEFINE list == query_claims(claims[a])
           paid == Settlement(list, block, cap)[Len(list)]
           part == Taken(list, Len(list), paid.waiting)
           bag == Listed(list)
<1>1. list \in Seq(ClaimSet) /\ bag \in [ClaimSet -> Nat]
  <2>1. claims[a] \in ClaimList
    BY DEF Inv
  <2>2. QED
    BY <2>1, ListedTimes
<1>2. /\ paid # Failed
      /\ claims' = [claims EXCEPT ![a] = paid.waiting]
      /\ answer' = [addr |-> a, cap |-> cap, sum |-> paid.to_send]
      /\ block' = block
  BY DEF ClaimTokens, claim_tokens, query_claims
<1>3. Owed[a] = bag
  BY OwedIsListed DEF OwedLists
<1> HIDE DEF list, paid
<1>4. SettledSoFar(paid, list, Len(list), block, cap)
  BY <1>1, <1>2, AllSettled DEF paid
<1>5. paid.waiting \in Seq(ClaimSet)
  BY <1>4 DEF SettledSoFar, Paid
<1>6. part \in [ClaimSet -> Nat]
  BY <1>4 DEF SettledSoFar, Taken
<1>7. ASSUME NEW c \in ClaimSet
      PROVE  /\ bag[c] \in Nat /\ part[c] \in Nat
             /\ Times(paid.waiting, c) \in Nat
             /\ part[c] = bag[c] - Times(paid.waiting, c)
  <2>1. Len(paid.waiting) \in Nat
    BY <1>5
  <2>2. Times(paid.waiting, c) \in Nat
    BY <2>1, TimesNatural DEF Times
  <2>3. part[c] = bag[c] - Times(paid.waiting, c)
    BY DEF Listed, Times, Taken
  <2>4. QED
    BY <1>1, <1>6, <2>2, <2>3
<1>8. Value(part) = paid.to_send /\ Under(paid.to_send, cap)
  BY <1>4 DEF SettledSoFar
<1>9. \A c \in ClaimSet :
        /\ part[c] > 0 => is_expired(c.release_at, block)
        /\ is_expired(c.release_at, block) /\ part[c] < bag[c]
             => ~Under(paid.to_send + c.amount, cap)
  <2>1. \A c \in ClaimSet : part[c] < bag[c] => Times(paid.waiting, c) > 0
    BY <1>7
  <2>2. QED
    BY <1>4, <2>1 DEF SettledSoFar
<1> HIDE DEF part, bag
<1>10. part \in Ledger!SubBags(bag)
  <2>1. \A c \in ClaimSet : part[c] <= bag[c]
    BY <1>7
  <2>2. QED
    BY <1>1, <1>6, <2>1, PartsArePayable
<1>11. Owed' = [Owed EXCEPT ![a] = [c \in ClaimSet |-> @[c] - part[c]]]
  <2>1. Owed' = [Owed EXCEPT ![a] = Listed(paid.waiting)]
    BY <1>2, <1>5, OwedAfterSave
  <2>2. Listed(paid.waiting) = [c \in ClaimSet |-> Times(paid.waiting, c)]
    BY DEF Listed
  <2>3. \A c \in ClaimSet : Times(paid.waiting, c) = bag[c] - part[c]
    BY <1>7
  <2>4. Listed(paid.waiting) = [c \in ClaimSet |-> bag[c] - part[c]]
    BY <2>2, <2>3
  <2>5. QED
    BY <1>3, <2>1, <2>4
<1>12. Ledger!SumOf(part) = paid.to_send
  BY <1>8, LedgerSum
<1>13. Receipt' = [addr |-> a, cap |-> cap, sum |-> paid.to_send]
  BY <1>2 DEF Receipt
<1>14. Ledger!Fits(paid.to_send, cap)
  BY <1>8 DEF Under, Ledger!Fits
<1>15. \A c \in ClaimSet : ~Under(paid.to_send + c.amount, cap)
                            => ~Ledger!Fits(paid.to_send + c.amount, cap)
  BY DEF Under, Ledger!Fits
<1> HIDE DEF Owed, Receipt
<1>16. /\ \A c \in ClaimSet : part[c] > 0 => is_expired(c.release_at, block)
       /\ Ledger!Fits(Ledger!SumOf(part), cap)
       /\ \A c \in ClaimSet : is_expired(c.release_at, block) /\ part[c] < Owed[a][c]
                             => ~Ledger!Fits(Ledger!SumOf(part) + c.amount, cap)
       /\ part \in Ledger!SubBags(Owed[a])
  BY <1>3, <1>9, <1>10, <1>12, <1>14, <1>15
<1>17. Receipt' = [addr |-> a, cap |-> cap, sum |-> Ledger!SumOf(part)] /\ UNCHANGED block
  BY <1>2, <1>12, <1>13
<1>18. QED
  BY <1>11, <1>16, <1>17 DEF Ledger!Pay, Owed, Receipt

\* Making a claim is owing it.
LEMMA ClaimIsOwed ==
    ASSUME Inv, Inv', NEW a \in Addr, NEW claim \in ClaimSet, CreateClaim(a, claim)
    PROVE  Ledger!Owe(a, claim)
<1> DEFINE list == query_claims(claims[a])
           longer == Append(list, claim)
<1>1. list \in Seq(ClaimSet)
  <2>1. claims[a] \in ClaimList
    BY DEF Inv
  <2>2. QED
    BY <2>1, ListedTimes
<1>2. claims' = [claims EXCEPT ![a] = longer] /\ answer' = None /\ block' = block
  BY ClaimsTyped DEF CreateClaim, create_claim, query_claims
<1>3. Owed[a] = Listed(list)
  BY OwedIsListed DEF OwedLists
<1> HIDE DEF list
<1>4. Owed' = [Owed EXCEPT ![a] = Listed(longer)]
  <2>1. longer \in Seq(ClaimSet)
    BY <1>1
  <2>2. QED
    BY <1>2, <2>1, OwedAfterSave
<1>5. Listed(longer) = [Listed(list) EXCEPT ![claim] = @ + 1]
  <2>1. ASSUME NEW c \in ClaimSet
        PROVE  Times(longer, c) = Times(list, c) + (IF claim = c THEN 1 ELSE 0)
               /\ Times(list, c) \in Nat
    BY <1>1, TimesAppended
  <2>2. \A c \in ClaimSet :
          Times(longer, c) = IF c = claim THEN Times(list, c) + 1 ELSE Times(list, c)
    BY <2>1
  <2> HIDE DEF longer
  <2>3. QED
    BY <2>2 DEF Listed
<1>6. Owed' = [Owed EXCEPT ![a][claim] = @ + 1]
  BY <1>3, <1>4, <1>5
<1>7. Receipt' = None /\ UNCHANGED block
  BY <1>2 DEF Receipt
<1>8. QED
  BY <1>6, <1>7 DEF Ledger!Owe, Owed, Receipt

\* What is no claim and no payment leaves what is owed.
LEMMA OtherwiseElsewhere ==
    ASSUME UNCHANGED claims, answer' = None \/ answer' = [messages |-> Hooks]
    PROVE  Ledger!Elsewhere
<1>1. Receipt' = None
  BY DEF Receipt
<1>2. UNCHANGED Owed
  BY DEF Owed, TimesOwed
<1>3. QED
  BY <1>1, <1>2 DEF Ledger!Elsewhere, Owed, Receipt

-----------------------------------------------------------------------------
(* The steps.                                                              *)

LEMMA InvInit == Init => Inv
BY DEF Init, Inv, ClaimList

LEMMA InvStep ==
    ASSUME Inv, [Next]_vars
    PROVE  Inv'
<1> USE DEF Inv
<1>1. ASSUME NEW a \in Addr \cup {None}, Instantiate(a)
      PROVE  Inv'
  BY <1>1 DEF Instantiate, set
<1>2. ASSUME NEW sender \in Addr, NEW a \in Addr \cup {None}, execute_update_admin(sender, a)
      PROVE  Inv'
  BY <1>2 DEF execute_update_admin, set
<1>3. ASSUME NEW sender \in Addr, NEW a \in Addr, execute_add_hook(sender, a)
      PROVE  Inv'
  <2>1. Append(Hooks, a) \in HookList
    BY <1>3, HooksListed, HookAdded DEF execute_add_hook, add_hook
  <2>2. QED
    BY <1>3, <2>1 DEF execute_add_hook, add_hook
<1>4. ASSUME NEW sender \in Addr, NEW a \in Addr, execute_remove_hook(sender, a)
      PROVE  Inv'
  <2>1. hooks' \in HookList
    BY <1>4, HookRemoved DEF execute_remove_hook, remove_hook
  <2>2. QED
    BY <1>4, <2>1 DEF execute_remove_hook
<1>5. ASSUME NEW unprepared \in SUBSET Addr, prepare_hooks(unprepared)
      PROVE  Inv'
  BY <1>5 DEF prepare_hooks
<1>6. ASSUME NEW a \in Addr, NEW claim \in ClaimSet, CreateClaim(a, claim)
      PROVE  Inv'
  <2> DEFINE list == query_claims(claims[a])
  <2>1. list \in Seq(ClaimSet)
    <3>1. claims[a] \in ClaimList
      OBVIOUS
    <3>2. QED
      BY <3>1, ListedTimes
  <2>2. claims' = [claims EXCEPT ![a] = Append(list, claim)]
    BY <1>6, ClaimsTyped DEF CreateClaim, create_claim, query_claims
  <2>3. Append(list, claim) \in ClaimList
    BY <2>1 DEF ClaimList
  <2> HIDE DEF list
  <2>4. QED
    BY <1>6, <2>2, <2>3 DEF CreateClaim
<1>7. ASSUME NEW a \in Addr, NEW cap \in Caps, ClaimTokens(a, cap)
      PROVE  Inv'
  <2> DEFINE list == query_claims(claims[a])
             paid == Settlement(list, block, cap)[Len(list)]
  <2>1. list \in Seq(ClaimSet)
    <3>1. claims[a] \in ClaimList
      OBVIOUS
    <3>2. QED
      BY <3>1, ListedTimes
  <2>2. paid # Failed /\ claims' = [claims EXCEPT ![a] = paid.waiting]
    BY <1>7 DEF ClaimTokens, claim_tokens, query_claims
  <2> HIDE DEF list, paid
  <2>3. SettledSoFar(paid, list, Len(list), block, cap)
    BY <2>1, <2>2, AllSettled DEF paid
  <2>4. paid.waiting \in ClaimList
    BY <2>3 DEF SettledSoFar, Paid, ClaimList
  <2>5. QED
    BY <1>7, <2>2, <2>4 DEF ClaimTokens
<1>8. CASE NextBlock
  BY <1>8 DEF NextBlock
<1>9. CASE UNCHANGED vars
  BY <1>9 DEF vars
<1>10. QED
  BY <1>1, <1>2, <1>3, <1>4, <1>5, <1>6, <1>7, <1>8, <1>9 DEF Next, Execute

\* The hooks are addresses, listed once each, and what is stored of claims is a list of
\* claims (hooks.rs, add_hook; claim.rs, create_claim and claim_tokens).
THEOREM ControllersInvariant == Spec => []Inv
<1>1. QED
  BY InvInit, InvStep, PTL DEF Spec

\* Who may change the admin is the admin, of an address.
LEMMA AdminIsAddress ==
    ASSUME NEW sender \in Addr, assert_admin(admin, sender)
    PROVE  sender = admin /\ admin \in Addr /\ admin # None
BY DEF assert_admin, is_admin

\* Every message about the admin and the hooks is the admin's.
LEMMA SenderIsAdmin ==
    ASSUME NEW sender \in Addr, Execute(sender)
    PROVE  sender = admin
BY AdminIsAddress DEF Execute, execute_update_admin, execute_add_hook, execute_remove_hook

Governed ==
    /\ admin = None => admin' = None /\ hooks' = hooks
    /\ hooks' # hooks =>
         /\ admin' = admin /\ admin \in Addr
         /\ Cardinality(ToSet(Hooks)) - Cardinality(ToSet(Hooks)') \in {1, -1}
         /\ Len(Hooks') = Cardinality(ToSet(Hooks)')

LEMMA GovernedStep ==
    ASSUME Inv, [Next]_vars
    PROVE  Governed
<1>1. ASSUME NEW a \in Addr \cup {None}, Instantiate(a)
      PROVE  Governed
  <2>1. admin = Unset /\ Unset # None
    BY <1>1, ControllersAssumption DEF Instantiate
  <2>2. QED
    BY <1>1, <2>1 DEF Instantiate, set, Governed
<1>2. ASSUME NEW sender \in Addr, NEW a \in Addr \cup {None}, execute_update_admin(sender, a)
      PROVE  Governed
  BY <1>2, AdminIsAddress DEF execute_update_admin, set, Governed
<1>3. ASSUME NEW sender \in Addr, NEW a \in Addr, execute_add_hook(sender, a)
      PROVE  Governed
  <2>1. hooks' = Append(Hooks, a) /\ Hooks \in HookList /\ ~Contains(Hooks, a)
    BY <1>3, HooksListed DEF execute_add_hook, add_hook
  <2>2. hooks' \in HookList /\ Cardinality(ToSet(hooks')) = Cardinality(ToSet(Hooks)) + 1
    BY <2>1, HookAdded
  <2>3. hooks' # Unset
    BY <2>2, ControllersAssumption DEF HookList
  <2>4. Hooks' = hooks' /\ ToSet(Hooks)' = ToSet(hooks')
    BY <2>3 DEF Hooks, ToSet
  <2>5. Cardinality(ToSet(hooks')) = Len(hooks') /\ Cardinality(ToSet(Hooks)) = Len(Hooks)
        /\ Len(Hooks) \in Nat
    BY <2>1, <2>2, ListedOnce DEF HookList
  <2>6. admin' = admin /\ admin \in Addr /\ admin # None
    BY <1>3, AdminIsAddress DEF execute_add_hook
  <2>7. QED
    BY <2>2, <2>4, <2>5, <2>6 DEF Governed
<1>4. ASSUME NEW sender \in Addr, NEW a \in Addr, execute_remove_hook(sender, a)
      PROVE  Governed
  <2>1. hooks # Unset /\ hooks \in HookList /\ Contains(hooks, a) /\ Hooks = hooks
    BY <1>4 DEF execute_remove_hook, remove_hook, Inv, Hooks
  <2>2. hooks' = RemoveAt(hooks, SelectInSeq(hooks, LAMBDA h : h = a))
    BY <1>4 DEF execute_remove_hook, remove_hook
  <2>3. hooks' \in HookList /\ Cardinality(ToSet(hooks')) = Cardinality(ToSet(hooks)) - 1
    BY <2>1, <2>2, HookRemoved
  <2>4. hooks' # Unset
    BY <2>3, ControllersAssumption DEF HookList
  <2>5. Hooks' = hooks' /\ ToSet(Hooks)' = ToSet(hooks')
    BY <2>4 DEF Hooks, ToSet
  <2>6. Cardinality(ToSet(hooks')) = Len(hooks') /\ Cardinality(ToSet(hooks)) = Len(hooks)
        /\ Len(hooks) \in Nat
    BY <2>1, <2>3, ListedOnce DEF HookList
  <2>7. admin' = admin /\ admin \in Addr /\ admin # None
    BY <1>4, AdminIsAddress DEF execute_remove_hook
  <2>8. QED
    BY <2>1, <2>3, <2>5, <2>6, <2>7 DEF Governed
<1>5. CASE UNCHANGED <<admin, hooks>>
  BY <1>5 DEF Governed
<1>6. QED
  BY <1>1, <1>2, <1>3, <1>4, <1>5
     DEF Next, Execute, prepare_hooks, CreateClaim, ClaimTokens, NextBlock, vars

\* Who changes the admin or the hooks is the admin; with no admin nobody becomes one and
\* the hooks stay; a step changes the admin or the hooks, the hooks by one address, and no
\* address is listed twice (admin.rs, assert_admin; hooks.rs, add_hook and remove_hook).
THEOREM HooksStayGoverned == Spec => HooksAreGoverned
<1> DEFINE ByAdmin ==
      admin' # admin \/ hooks' # hooks => \A sender \in Addr : Execute(sender) => sender = admin
<1>1. Inv /\ [Next]_vars => [ByAdmin /\ Governed]_vars
  BY GovernedStep, SenderIsAdmin
<1>2. QED
  BY <1>1, ControllersInvariant, PTL DEF Spec, HooksAreGoverned, Governed

LEMMA LedgerStep ==
    ASSUME Inv, Inv', [Next]_vars
    PROVE  [Ledger!LedgerNext]_(Ledger!ledgerVars)
<1>1. ASSUME NEW a \in Addr, NEW claim \in ClaimSet, CreateClaim(a, claim)
      PROVE  Ledger!LedgerNext
  BY <1>1, ClaimIsOwed DEF Ledger!LedgerNext
<1>2. ASSUME NEW a \in Addr, NEW cap \in Caps, ClaimTokens(a, cap)
      PROVE  Ledger!LedgerNext
  BY <1>2, PaymentIsPaid DEF Ledger!LedgerNext
<1>3. ASSUME UNCHANGED claims, answer' = None \/ answer' = [messages |-> Hooks]
      PROVE  Ledger!LedgerNext
  BY <1>3, OtherwiseElsewhere DEF Ledger!LedgerNext
<1>4. CASE UNCHANGED vars
  <2>1. UNCHANGED <<Owed, Receipt, block>>
    BY <1>4 DEF vars, Owed, TimesOwed, Receipt
  <2>2. QED
    BY <2>1 DEF Ledger!ledgerVars, Owed, Receipt
<1>5. QED
  BY <1>1, <1>2, <1>3, <1>4
     DEF Next, Execute, Instantiate, execute_update_admin, execute_add_hook, execute_remove_hook,
         prepare_hooks, NextBlock

\* Claims are a ledger: whatever their amounts and releases, each is paid once, in full,
\* to its address and when it has matured, and a payment leaves no mature claim that
\* would still fit (claim.rs, claim_tokens).
THEOREM LedgerRefinement == Spec => ImplementsClaimLedger
<1>1. Init => Ledger!LedgerInit
  <2>1. SUFFICES ASSUME Init PROVE Ledger!LedgerInit
    OBVIOUS
  <2>2. \A a \in Addr, claim \in ClaimSet : TimesOwed(a, claim) = 0
    <3>1. \A a \in Addr : query_claims(claims[a]) = <<>>
      BY <2>1 DEF Init, query_claims, unwrap_or_default
    <3>2. \A claim : {i \in DOMAIN <<>> : <<>>[i] = claim} = {}
      OBVIOUS
    <3>3. QED
      BY <3>1, <3>2, FS_EmptySet DEF TimesOwed
  <2>3. QED
    BY <2>1, <2>2 DEF Init, Ledger!LedgerInit
<1>2. Inv /\ Inv' /\ [Next]_vars => [Ledger!LedgerNext]_(Ledger!ledgerVars)
  BY LedgerStep
<1>3. QED
  BY <1>1, <1>2, ControllersInvariant, PTL DEF Spec, ImplementsClaimLedger, Ledger!LedgerSpec

=============================================================================
