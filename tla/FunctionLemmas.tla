--------------------------- MODULE FunctionLemmas ---------------------------
(***************************************************************************)
(* Induction over the naturals stated with sets instead of predicates, the *)
(* recursive functions it yields, and sums of a function over finite sets. *)
(* A loop of the source that runs n times is an iterate of the function    *)
(* that one pass computes; the sum of all balances is a sum.               *)
(***************************************************************************)
EXTENDS Integers, Functions, WellFoundedInduction, FiniteSetTheorems, TLAPS

\* A set that holds 0 and is closed under successor holds every natural.
LEMMA SetInduction ==
    ASSUME NEW S, 0 \in S, \A n \in Nat : n \in S => n + 1 \in S
    PROVE  \A n \in Nat : n \in S
<1> DEFINE T == {n \in Nat : n \notin S}
<1> DEFINE R == OpToRel(<, Nat)
<1>1. SUFFICES ASSUME T # {} PROVE FALSE
  OBVIOUS
<1>2. PICK x \in T : \A y \in T : <<y, x>> \notin R
  <2>1. IsWellFoundedOn(R, Nat)
    BY NatLessThanWellFounded
  <2>2. T \subseteq Nat
    OBVIOUS
  <2> HIDE DEF T, R
  <2>3. QED
    BY <1>1, <2>1, <2>2, WFMin
<1>3. x \in Nat /\ x \notin S
  OBVIOUS
<1>4. \A y \in T : ~(y < x)
  BY <1>2, <1>3 DEF OpToRel
<1>5. \A y \in Nat : y < x => y \in S
  BY <1>4
<1> HIDE DEF T, R
<1>6. x # 0
  BY <1>3
<1>7. x - 1 \in Nat /\ x - 1 < x
  BY <1>3, <1>6
<1>8. x - 1 \in S
  BY <1>5, <1>7
<1>9. (x - 1) + 1 \in S
  BY <1>7, <1>8
<1>10. QED
  BY <1>3, <1>9

-----------------------------------------------------------------------------

\* The functions on 0..n that start at c and follow g.
Attempts(S, c, g, n) ==
    {h \in [0..n -> S] : h[0] = c /\ \A i \in 0..(n-1) : h[i+1] = g[h[i]]}

\* Iterating g from c is possible any number of times.
LEMMA AttemptExists ==
    ASSUME NEW S, NEW c \in S, NEW g \in [S -> S]
    PROVE  \A n \in Nat : Attempts(S, c, g, n) # {}
<1> DEFINE T == {n \in Nat : Attempts(S, c, g, n) # {}}
<1>1. 0 \in T
  <2>1. [i \in 0..0 |-> c] \in Attempts(S, c, g, 0)
    BY DEF Attempts
  <2>2. QED
    BY <2>1
<1>2. ASSUME NEW n \in Nat, n \in T
      PROVE  n + 1 \in T
  <2>1. PICK h : h \in Attempts(S, c, g, n)
    BY <1>2
  <2> DEFINE k == [i \in 0..(n+1) |-> IF i <= n THEN h[i] ELSE g[h[n]]]
  <2>2. h \in [0..n -> S] /\ h[0] = c /\ \A i \in 0..(n-1) : h[i+1] = g[h[i]]
    BY <2>1 DEF Attempts
  <2>3. k \in [0..(n+1) -> S] /\ k[0] = c
    BY <2>2
  <2>4. ASSUME NEW i \in 0..n
        PROVE  k[i+1] = g[k[i]]
    <3>1. CASE i = n
      BY <3>1, <2>2
    <3>2. CASE i < n
      BY <3>2, <2>2
    <3>3. QED
      BY <3>1, <3>2
  <2>5. k \in Attempts(S, c, g, n + 1)
    BY <2>3, <2>4 DEF Attempts
  <2>6. QED
    BY <2>5
<1> HIDE DEF T
<1>3. \A n \in Nat : n \in T
  BY <1>1, <1>2, SetInduction
<1>4. QED
  BY <1>3 DEF T

\* Two attempts agree as far as both go.
LEMMA AttemptsAgree ==
    ASSUME NEW S, NEW c \in S, NEW g \in [S -> S]
    PROVE  \A i \in Nat : \A m, n \in Nat :
             \A h \in Attempts(S, c, g, m), k \in Attempts(S, c, g, n) :
               i <= m /\ i <= n => h[i] = k[i]
<1> DEFINE T == {i \in Nat : \A m, n \in Nat :
             \A h \in Attempts(S, c, g, m), k \in Attempts(S, c, g, n) :
               i <= m /\ i <= n => h[i] = k[i]}
<1>1. 0 \in T
  BY DEF Attempts
<1>2. ASSUME NEW i \in Nat, i \in T
      PROVE  i + 1 \in T
  <2>1. SUFFICES ASSUME NEW m \in Nat, NEW n \in Nat,
                        NEW h \in Attempts(S, c, g, m), NEW k \in Attempts(S, c, g, n),
                        i + 1 <= m, i + 1 <= n
                 PROVE  h[i+1] = k[i+1]
    OBVIOUS
  <2>2. h[i] = k[i]
    BY <1>2, <2>1
  <2>3. i \in 0..(m-1) /\ i \in 0..(n-1)
    BY <2>1
  <2>4. h[i+1] = g[h[i]] /\ k[i+1] = g[k[i]]
    BY <2>1, <2>3 DEF Attempts
  <2>5. QED
    BY <2>2, <2>4
<1> HIDE DEF T
<1>3. \A i \in Nat : i \in T
  BY <1>1, <1>2, SetInduction
<1>4. QED
  BY <1>3 DEF T

\* The recursive definition of the iterates of g from c defines them.
LEMMA IteratesDefined ==
    ASSUME NEW S, NEW c \in S, NEW g \in [S -> S]
    PROVE  \E f \in [Nat -> S] : f[0] = c /\ \A n \in Nat : f[n+1] = g[f[n]]
<1> DEFINE A(n) == CHOOSE h : h \in Attempts(S, c, g, n)
<1> DEFINE f == [n \in Nat |-> A(n)[n]]
<1>1. \A n \in Nat : A(n) \in Attempts(S, c, g, n)
  BY AttemptExists
<1> HIDE DEF A
<1>2. \A n \in Nat : A(n) \in [0..n -> S] /\ A(n)[0] = c
  BY <1>1 DEF Attempts
<1>3. f \in [Nat -> S] /\ f[0] = c
  BY <1>2
<1>4. ASSUME NEW n \in Nat
      PROVE  f[n+1] = g[f[n]]
  <2>1. A(n+1)[n+1] = g[A(n+1)[n]]
    <3>1. n \in 0..((n+1)-1)
      OBVIOUS
    <3>2. A(n+1) \in Attempts(S, c, g, n+1)
      BY <1>1
    <3>3. QED
      BY <3>1, <3>2 DEF Attempts
  <2>2. A(n+1)[n] = A(n)[n]
    <3>1. A(n+1) \in Attempts(S, c, g, n+1) /\ A(n) \in Attempts(S, c, g, n)
      BY <1>1
    <3>2. n + 1 \in Nat /\ n <= n + 1 /\ n <= n
      OBVIOUS
    <3>3. QED
      BY <3>1, <3>2, AttemptsAgree
  <2>3. QED
    BY <2>1, <2>2
<1>5. QED
  BY <1>3, <1>4

\* So the recursive definition of a function on the naturals has a solution.
LEMMA RecursionSolved ==
    ASSUME NEW S, NEW c \in S, NEW g \in [S -> S]
    PROVE  \E f : f = [n \in Nat |-> IF n = 0 THEN c ELSE g[f[n-1]]]
<1>1. PICK f \in [Nat -> S] : f[0] = c /\ \A n \in Nat : f[n+1] = g[f[n]]
  BY IteratesDefined
<1>2. ASSUME NEW n \in Nat
      PROVE  f[n] = IF n = 0 THEN c ELSE g[f[n-1]]
  <2>1. CASE n = 0
    BY <2>1, <1>1
  <2>2. CASE n # 0
    <3>1. n - 1 \in Nat /\ (n - 1) + 1 = n
      BY <2>2
    <3>2. QED
      BY <3>1, <1>1, <2>2
  <2>3. QED
    BY <2>1, <2>2
<1>3. f = [n \in Nat |-> IF n = 0 THEN c ELSE g[f[n-1]]]
  BY <1>1, <1>2
<1>4. QED
  BY <1>3

\* And a solution is the sequence of the iterates.
LEMMA SolutionIterates ==
    ASSUME NEW S, NEW c \in S, NEW g \in [S -> S], NEW d,
           d = [n \in Nat |-> IF n = 0 THEN c ELSE g[d[n-1]]]
    PROVE  d \in [Nat -> S] /\ d[0] = c /\ \A n \in Nat : d[n+1] = g[d[n]]
<1>1. \A n \in Nat : d[n] = IF n = 0 THEN c ELSE g[d[n-1]]
  OBVIOUS
<1>2. d[0] = c
  BY <1>1
<1>3. ASSUME NEW n \in Nat
      PROVE  d[n+1] = g[d[n]]
  <2>1. n + 1 \in Nat /\ n + 1 # 0 /\ (n + 1) - 1 = n
    OBVIOUS
  <2>2. d[n+1] = g[d[(n+1)-1]]
    BY <1>1, <2>1
  <2>3. QED
    BY <2>1, <2>2
<1>4. d \in [Nat -> S]
  <2> DEFINE T == {n \in Nat : d[n] \in S}
  <2>1. 0 \in T /\ \A n \in Nat : n \in T => n + 1 \in T
    BY <1>2, <1>3
  <2> HIDE DEF T
  <2>2. \A n \in Nat : n \in T
    BY <2>1, SetInduction
  <2>3. \A n \in Nat : d[n] \in S
    BY <2>2 DEF T
  <2>4. QED
    BY <2>3
<1>5. QED
  BY <1>2, <1>3, <1>4

-----------------------------------------------------------------------------
(* The same up to a bound, with a step of its own for each number.         *)

\* What holds of 0 and passes on from each number to the next holds up to a bound.
LEMMA BoundedInduction ==
    ASSUME NEW m \in Nat, NEW S, 0 \in S, \A n \in 1 .. m : n - 1 \in S => n \in S
    PROVE  \A n \in 0 .. m : n \in S
<1> DEFINE T == {n \in Nat : n <= m => n \in S}
<1>1. 0 \in T
  OBVIOUS
<1>2. ASSUME NEW n \in Nat, n \in T
      PROVE  n + 1 \in T
  <2>1. SUFFICES ASSUME n + 1 <= m PROVE n + 1 \in S
    OBVIOUS
  <2>2. n \in S /\ n + 1 \in 1 .. m /\ (n + 1) - 1 = n
    BY <1>2, <2>1
  <2>3. QED
    BY <2>2
<1> HIDE DEF T
<1>3. \A n \in Nat : n \in T
  BY <1>1, <1>2, SetInduction
<1>4. QED
  BY <1>3 DEF T

\* There is a function that takes m steps, each its own, from a first value.
LEMMA StepsTaken ==
    ASSUME NEW S, NEW c \in S, NEW m \in Nat, NEW g \in [1 .. m -> [S -> S]]
    PROVE  \E f \in [0 .. m -> S] : f[0] = c /\ \A n \in 1 .. m : f[n] = g[n][f[n-1]]
<1> DEFINE Upto(n) ==
      {f \in [0 .. n -> S] : f[0] = c /\ \A k \in 1 .. n : f[k] = g[k][f[k-1]]}
<1> DEFINE T == {n \in Nat : Upto(n) # {}}
<1>1. 0 \in T
  <2>1. [k \in 0 .. 0 |-> c] \in Upto(0)
    OBVIOUS
  <2>2. QED
    BY <2>1
<1>2. ASSUME NEW n \in 1 .. m, n - 1 \in T
      PROVE  n \in T
  <2>1. PICK f : f \in Upto(n - 1)
    BY <1>2
  <2> DEFINE h == [k \in 0 .. n |-> IF k = n THEN g[n][f[n-1]] ELSE f[k]]
  <2>2. f[n-1] \in S /\ g[n] \in [S -> S]
    BY <2>1
  <2>3. h \in [0 .. n -> S]
    BY <2>1, <2>2
  <2>4. h[0] = c
    BY <2>1
  <2>5. ASSUME NEW k \in 1 .. n
        PROVE  h[k] = g[k][h[k-1]]
    <3>1. CASE k = n
      BY <3>1
    <3>2. CASE k # n
      <4>1. k \in 1 .. n - 1 /\ k - 1 \in 0 .. n /\ k - 1 # n
        BY <3>2
      <4>2. h[k] = f[k] /\ h[k-1] = f[k-1]
        BY <4>1, <3>2
      <4>3. QED
        BY <2>1, <4>1, <4>2
    <3>3. QED
      BY <3>1, <3>2
  <2>6. h \in Upto(n)
    BY <2>3, <2>4, <2>5
  <2>7. QED
    BY <2>6
<1> HIDE DEF T
<1>3. \A n \in 0 .. m : n \in T
  BY <1>1, <1>2, BoundedInduction
<1>4. m \in T
  BY <1>3
<1>5. QED
  BY <1>4 DEF T

-----------------------------------------------------------------------------
(* Sums: what SumFunctionOnSet of the community modules adds up to, in     *)
(* whatever order it takes the elements.                                   *)

\* The element a sum over S takes first.
First(S) == CHOOSE x \in S : TRUE

\* A set of subsets of a finite set holds them all when it holds each one all of
\* whose one-element reductions it holds.
LEMMA SubsetInduction ==
    ASSUME NEW S, IsFiniteSet(S), NEW P,
           \A T \in SUBSET S : (\A x \in T : T \ {x} \in P) => T \in P
    PROVE  \A T \in SUBSET S : T \in P
<1> DEFINE N == {n \in Nat : \A T \in SUBSET S : Cardinality(T) = n => T \in P}
<1>1. 0 \in N
  <2>1. ASSUME NEW T \in SUBSET S, Cardinality(T) = 0
        PROVE  T \in P
    <3>1. T = {}
      BY <2>1, FS_Subset, FS_EmptySet
    <3>2. QED
      BY <3>1
  <2>2. QED
    BY <2>1
<1>2. ASSUME NEW n \in Nat, n \in N
      PROVE  n + 1 \in N
  <2>1. ASSUME NEW T \in SUBSET S, Cardinality(T) = n + 1
        PROVE  T \in P
    <3>1. ASSUME NEW x \in T
          PROVE  T \ {x} \in P
      <4>1. IsFiniteSet(T)
        BY FS_Subset
      <4>2. Cardinality(T \ {x}) = Cardinality(T) - 1
        BY <4>1, FS_RemoveElement
      <4>3. Cardinality(T \ {x}) = n
        BY <2>1, <4>2
      <4>4. QED
        BY <1>2, <4>3
    <3>2. QED
      BY <3>1
  <2>2. QED
    BY <2>1
<1>3. \A n \in Nat : n \in N
  <2> HIDE DEF N
  <2>1. QED
    BY <1>1, <1>2, SetInduction
<1>4. ASSUME NEW T \in SUBSET S
      PROVE  T \in P
  <2>1. Cardinality(T) \in Nat
    BY FS_Subset, FS_CardinalityType
  <2>2. QED
    BY <1>3, <2>1
<1>5. QED
  BY <1>4

-----------------------------------------------------------------------------
(* The recursion a sum is defined by has a solution, and only one.         *)

Sums(f, S) ==
    {h \in [SUBSET S -> Int] :
       \A T \in SUBSET S : h[T] = IF T = {} THEN 0 ELSE f[First(T)] + h[T \ {First(T)}]}

\* The partial sums over the subsets of at most n elements.
PartialSums(f, S, n) ==
    LET D == {T \in SUBSET S : Cardinality(T) <= n}
    IN  {h \in [D -> Int] :
           \A T \in D : h[T] = IF T = {} THEN 0 ELSE f[First(T)] + h[T \ {First(T)}]}

\* The recursion can be followed up to any number of elements.
LEMMA PartialSumsExist ==
    ASSUME NEW S, IsFiniteSet(S), NEW f, \A x \in S : f[x] \in Int
    PROVE  \A n \in Nat : PartialSums(f, S, n) # {}
<1> DEFINE N == {n \in Nat : PartialSums(f, S, n) # {}}
           D(n) == {T \in SUBSET S : Cardinality(T) <= n}
<1>0. \A T \in SUBSET S : IsFiniteSet(T) /\ Cardinality(T) \in Nat
  BY FS_Subset, FS_CardinalityType
<1>1. 0 \in N
  <2>1. \A T \in D(0) : T = {}
    BY <1>0, FS_EmptySet
  <2>2. [T \in D(0) |-> 0] \in PartialSums(f, S, 0)
    BY <2>1 DEF PartialSums
  <2>3. QED
    BY <2>2
<1>2. ASSUME NEW n \in Nat, n \in N
      PROVE  n + 1 \in N
  <2>1. PICK h : h \in PartialSums(f, S, n)
    BY <1>2
  <2>2. /\ h \in [D(n) -> Int]
        /\ \A T \in D(n) : h[T] = IF T = {} THEN 0 ELSE f[First(T)] + h[T \ {First(T)}]
    BY <2>1 DEF PartialSums
  <2> DEFINE k == [T \in D(n + 1) |-> IF T = {} THEN 0
                                      ELSE f[First(T)] + h[T \ {First(T)}]]
  <2>3. ASSUME NEW T \in D(n + 1), T # {}
        PROVE  First(T) \in T /\ T \ {First(T)} \in D(n)
    <3>1. First(T) \in T
      BY <2>3 DEF First
    <3>2. IsFiniteSet(T) /\ Cardinality(T) \in Nat /\ Cardinality(T) <= n + 1
      BY <1>0
    <3>3. Cardinality(T \ {First(T)}) = Cardinality(T) - 1
      BY <3>1, <3>2, FS_RemoveElement
    <3>4. QED
      BY <3>1, <3>2, <3>3
  <2>4. k \in [D(n + 1) -> Int]
    <3>1. ASSUME NEW T \in D(n + 1), T # {}
          PROVE  f[First(T)] + h[T \ {First(T)}] \in Int
      <4>1. f[First(T)] \in Int /\ h[T \ {First(T)}] \in Int
        BY <2>2, <2>3, <3>1
      <4>2. QED
        BY <4>1
    <3>2. QED
      BY <3>1
  <2>5. \A T \in D(n) : T \in D(n + 1) /\ k[T] = h[T]
    <3>1. \A T \in D(n) : T \in D(n + 1)
      BY <1>0
    <3>2. QED
      BY <2>2, <3>1
  <2>6. ASSUME NEW T \in D(n + 1)
        PROVE  k[T] = IF T = {} THEN 0 ELSE f[First(T)] + k[T \ {First(T)}]
    BY <2>3, <2>5
  <2> HIDE DEF k
  <2>7. k \in PartialSums(f, S, n + 1)
    BY <2>4, <2>6 DEF PartialSums
  <2>8. QED
    BY <2>7
<1>3. QED
  <2> HIDE DEF N
  <2>1. \A n \in Nat : n \in N
    BY <1>1, <1>2, SetInduction
  <2>2. QED
    BY <2>1 DEF N

\* So it has a solution over all subsets of a finite set.
LEMMA SumsExist ==
    ASSUME NEW S, IsFiniteSet(S), NEW f, \A x \in S : f[x] \in Int
    PROVE  Sums(f, S) # {}
<1>1. Cardinality(S) \in Nat /\ \A T \in SUBSET S : Cardinality(T) <= Cardinality(S)
  BY FS_Subset, FS_CardinalityType
<1>2. PICK h : h \in PartialSums(f, S, Cardinality(S))
  BY <1>1, PartialSumsExist
<1>3. {T \in SUBSET S : Cardinality(T) <= Cardinality(S)} = SUBSET S
  BY <1>1
<1>4. h \in Sums(f, S)
  BY <1>2, <1>3 DEF Sums, PartialSums
<1>5. QED
  BY <1>4

\* Partial sums of functions that agree are the same.
LEMMA SumsAgree ==
    ASSUME NEW S, IsFiniteSet(S), NEW R, IsFiniteSet(R), NEW f, NEW g,
           \A x \in S : f[x] = g[x], S \subseteq R,
           NEW h \in Sums(f, S), NEW k \in Sums(g, R)
    PROVE  h[S] = k[S]
<1> DEFINE P == {T \in SUBSET S : h[T] = k[T]}
<1>1. ASSUME NEW T \in SUBSET S, \A x \in T : T \ {x} \in P
      PROVE  T \in P
  <2>1. /\ h[T] = IF T = {} THEN 0 ELSE f[First(T)] + h[T \ {First(T)}]
        /\ k[T] = IF T = {} THEN 0 ELSE g[First(T)] + k[T \ {First(T)}]
    BY DEF Sums
  <2>2. CASE T = {}
    BY <2>1, <2>2
  <2>3. CASE T # {}
    <3>1. First(T) \in T
      BY <2>3 DEF First
    <3>2. h[T \ {First(T)}] = k[T \ {First(T)}] /\ f[First(T)] = g[First(T)]
      BY <1>1, <3>1
    <3>3. QED
      BY <2>1, <3>2
  <2>4. QED
    BY <2>2, <2>3
<1>2. \A T \in SUBSET S : T \in P
  <2> HIDE DEF P
  <2>1. QED
    BY <1>1, SubsetInduction
<1>3. QED
  BY <1>2

\* The library's sum is the value of a solution.
LEMMA SumIsSolution ==
    ASSUME NEW S, IsFiniteSet(S), NEW f, \A x \in S : f[x] \in Int
    PROVE  \E h \in Sums(f, S) : SumFunctionOnSet(f, S) = h[S]
<1> DEFINE Next(h) == [T \in SUBSET S |->
                         IF T = {} THEN 0 ELSE f[First(T)] + h[T \ {First(T)}]]
           iter == CHOOSE h : h = Next(h)
<1>1. SumFunctionOnSet(f, S) = iter[S]
  BY DEF SumFunctionOnSet, FoldFunctionOnSet, MapThenFoldSet, First
<1>2. PICK h : h \in Sums(f, S)
  BY SumsExist
<1>3. h = Next(h)
  BY <1>2 DEF Sums
<1>4. iter = Next(iter)
  BY <1>3
<1> HIDE DEF iter
<1>5. \A T \in SUBSET S : iter[T] = IF T = {} THEN 0 ELSE f[First(T)] + iter[T \ {First(T)}]
  BY <1>4
<1> DEFINE P == {T \in SUBSET S : iter[T] \in Int}
<1>6. ASSUME NEW T \in SUBSET S, \A x \in T : T \ {x} \in P
      PROVE  T \in P
  <2>1. CASE T = {}
    <3>1. iter[T] = 0
      BY <1>5, <2>1
    <3>2. QED
      BY <3>1
  <2>2. CASE T # {}
    <3>1. First(T) \in T
      BY <2>2 DEF First
    <3>2. iter[T \ {First(T)}] \in Int /\ f[First(T)] \in Int
      BY <1>6, <3>1
    <3>3. iter[T] = f[First(T)] + iter[T \ {First(T)}]
      BY <1>5, <2>2
    <3>4. QED
      BY <3>2, <3>3
  <2>3. QED
    BY <2>1, <2>2
<1>7. \A T \in SUBSET S : T \in P
  <2> HIDE DEF P
  <2>1. QED
    BY <1>6, SubsetInduction
<1>8. iter \in [SUBSET S -> Int]
  <2>1. iter = [T \in SUBSET S |-> iter[T]]
    BY <1>4
  <2>2. QED
    BY <1>7, <2>1
<1>9. iter \in Sums(f, S)
  BY <1>5, <1>8 DEF Sums
<1>10. QED
  BY <1>1, <1>9

-----------------------------------------------------------------------------
(* Facts about sums.                                                       *)

\* A sum over a finite set is an integer.
LEMMA SumType ==
    ASSUME NEW S, IsFiniteSet(S), NEW f, \A x \in S : f[x] \in Int
    PROVE  SumFunctionOnSet(f, S) \in Int
<1>1. PICK h \in Sums(f, S) : SumFunctionOnSet(f, S) = h[S]
  BY SumIsSolution
<1>2. h \in [SUBSET S -> Int]
  BY <1>1 DEF Sums
<1>3. QED
  BY <1>1, <1>2

\* Nothing adds up to 0.
LEMMA SumEmpty == ASSUME NEW f PROVE SumFunctionOnSet(f, {}) = 0
<1>1. IsFiniteSet({})
  BY FS_EmptySet
<1>2. PICK h \in Sums(f, {}) : SumFunctionOnSet(f, {}) = h[{}]
  BY <1>1, SumIsSolution
<1>3. QED
  BY <1>2 DEF Sums

\* Functions that agree on a set have the same sum over it.
LEMMA SumAgree ==
    ASSUME NEW S, IsFiniteSet(S), NEW f, \A x \in S : f[x] \in Int,
           NEW g, \A x \in S : f[x] = g[x]
    PROVE  SumFunctionOnSet(f, S) = SumFunctionOnSet(g, S)
<1>1. PICK h \in Sums(f, S) : SumFunctionOnSet(f, S) = h[S]
  BY SumIsSolution
<1>2. PICK k \in Sums(g, S) : SumFunctionOnSet(g, S) = k[S]
  BY SumIsSolution
<1>3. QED
  BY <1>1, <1>2, SumsAgree

\* The element taken first contributes its value.
LEMMA SumFirst ==
    ASSUME NEW S, IsFiniteSet(S), S # {}, NEW f, \A x \in S : f[x] \in Int
    PROVE  SumFunctionOnSet(f, S) = f[First(S)] + SumFunctionOnSet(f, S \ {First(S)})
<1> DEFINE R == S \ {First(S)}
<1>1. PICK h \in Sums(f, S) : SumFunctionOnSet(f, S) = h[S]
  BY SumIsSolution
<1>2. IsFiniteSet(R)
  BY FS_Subset
<1>3. PICK k \in Sums(f, R) : SumFunctionOnSet(f, R) = k[R]
  BY <1>2, SumIsSolution
<1>4. h[S] = f[First(S)] + h[R]
  BY <1>1 DEF Sums
<1>5. k[R] = h[R]
  BY <1>1, <1>2, <1>3, SumsAgree
<1>6. QED
  BY <1>1, <1>3, <1>4, <1>5

\* So does every other: the order makes no difference.
LEMMA SumTakeOut ==
    ASSUME NEW S, IsFiniteSet(S), NEW f, \A x \in S : f[x] \in Int
    PROVE  \A a \in S : SumFunctionOnSet(f, S) = f[a] + SumFunctionOnSet(f, S \ {a})
<1> DEFINE sum(T) == SumFunctionOnSet(f, T)
           P == {T \in SUBSET S : \A a \in T : sum(T) = f[a] + sum(T \ {a})}
<1>1. \A T \in SUBSET S : IsFiniteSet(T) /\ sum(T) \in Int
  BY FS_Subset, SumType
<1>2. \A T \in SUBSET S : T # {} => sum(T) = f[First(T)] + sum(T \ {First(T)})
  BY <1>1, SumFirst
<1> HIDE DEF sum
<1>3. ASSUME NEW T \in SUBSET S, \A x \in T : T \ {x} \in P
      PROVE  T \in P
  <2>1. SUFFICES ASSUME NEW a \in T
                 PROVE  sum(T) = f[a] + sum(T \ {a})
    OBVIOUS
  <2> DEFINE c == First(T)
  <2>2. c \in T
    BY DEF First
  <2>3. CASE c = a
    BY <1>2, <2>3
  <2>4. CASE c # a
    <3> DEFINE rest == (T \ {c}) \ {a}
    <3>1. sum(T) = f[c] + sum(T \ {c})
      BY <1>2
    <3>2. sum(T \ {c}) = f[a] + sum(rest)
      BY <1>3, <2>2, <2>4
    <3>3. sum(T \ {a}) = f[c] + sum(rest)
      <4>1. sum(T \ {a}) = f[c] + sum((T \ {a}) \ {c})
        BY <1>3, <2>2, <2>4
      <4>2. (T \ {a}) \ {c} = rest
        OBVIOUS
      <4>3. QED
        BY <4>1, <4>2
    <3>4. f[c] \in Int /\ f[a] \in Int /\ sum(rest) \in Int
      BY <1>1, <2>2
    <3>5. QED
      BY <3>1, <3>2, <3>3, <3>4
  <2>5. QED
    BY <2>3, <2>4
<1>4. \A T \in SUBSET S : T \in P
  <2> HIDE DEF P
  <2>1. QED
    BY <1>3, SubsetInduction
<1>5. QED
  BY <1>4 DEF sum

\* A sum of naturals is a natural.
LEMMA SumNatural ==
    ASSUME NEW S, IsFiniteSet(S), NEW f, \A x \in S : f[x] \in Nat
    PROVE  SumFunctionOnSet(f, S) \in Nat
<1> DEFINE sum(T) == SumFunctionOnSet(f, T)
           P == {T \in SUBSET S : sum(T) \in Nat}
<1>1. sum({}) = 0
  BY SumEmpty
<1>2. ASSUME NEW T \in SUBSET S
      PROVE  \A a \in T : sum(T) = f[a] + sum(T \ {a})
  <2>1. IsFiniteSet(T) /\ \A x \in T : f[x] \in Int
    BY FS_Subset
  <2>2. QED
    BY <2>1, SumTakeOut
<1> HIDE DEF sum
<1>3. ASSUME NEW T \in SUBSET S, \A x \in T : T \ {x} \in P
      PROVE  T \in P
  <2>1. CASE T = {}
    BY <1>1, <2>1
  <2>2. ASSUME NEW a \in T PROVE T \in P
    <3>1. sum(T) = f[a] + sum(T \ {a}) /\ sum(T \ {a}) \in Nat /\ f[a] \in Nat
      BY <1>2, <1>3
    <3>2. QED
      BY <3>1
  <2>3. QED
    BY <2>1, <2>2
<1>4. \A T \in SUBSET S : T \in P
  <2> HIDE DEF P
  <2>1. QED
    BY <1>3, SubsetInduction
<1>5. QED
  BY <1>4 DEF sum

\* Nothing but zeros adds up to 0.
LEMMA SumZeros ==
    ASSUME NEW S, IsFiniteSet(S), NEW f, \A x \in S : f[x] = 0
    PROVE  SumFunctionOnSet(f, S) = 0
<1> DEFINE sum(T) == SumFunctionOnSet(f, T)
           P == {T \in SUBSET S : sum(T) = 0}
<1>1. sum({}) = 0
  BY SumEmpty
<1>2. ASSUME NEW T \in SUBSET S
      PROVE  \A a \in T : sum(T) = f[a] + sum(T \ {a})
  <2>1. IsFiniteSet(T) /\ \A x \in T : f[x] \in Int
    BY FS_Subset
  <2>2. QED
    BY <2>1, SumTakeOut
<1> HIDE DEF sum
<1>3. ASSUME NEW T \in SUBSET S, \A x \in T : T \ {x} \in P
      PROVE  T \in P
  <2>1. CASE T = {}
    BY <1>1, <2>1
  <2>2. ASSUME NEW a \in T PROVE T \in P
    <3>1. sum(T) = f[a] + sum(T \ {a}) /\ sum(T \ {a}) = 0 /\ f[a] = 0
      BY <1>2, <1>3
    <3>2. QED
      BY <3>1
  <2>3. QED
    BY <2>1, <2>2
<1>4. \A T \in SUBSET S : T \in P
  <2> HIDE DEF P
  <2>1. QED
    BY <1>3, SubsetInduction
<1>5. QED
  BY <1>4 DEF sum

\* The sum of the first n values.
SumUpTo(f, n) == SumFunctionOnSet(f, 1 .. n)

LEMMA SumUpToZero == ASSUME NEW f PROVE SumUpTo(f, 0) = 0
<1>1. 1 .. 0 = {}
  OBVIOUS
<1>2. QED
  BY <1>1, SumEmpty DEF SumUpTo

LEMMA SumUpToNatural ==
    ASSUME NEW n \in Nat, NEW f, \A i \in 1 .. n : f[i] \in Nat
    PROVE  SumUpTo(f, n) \in Nat
<1>1. IsFiniteSet(1 .. n)
  BY FS_Interval
<1>2. QED
  BY <1>1, SumNatural DEF SumUpTo

\* The last value adds to the sum before it.
LEMMA SumUpToNext ==
    ASSUME NEW n \in Nat \ {0}, NEW f, \A i \in 1 .. n : f[i] \in Nat
    PROVE  SumUpTo(f, n) = SumUpTo(f, n - 1) + f[n]
<1>1. IsFiniteSet(1 .. n) /\ n \in 1 .. n /\ \A i \in 1 .. n : f[i] \in Int
  BY FS_Interval
<1>2. SumFunctionOnSet(f, 1 .. n) = f[n] + SumFunctionOnSet(f, (1 .. n) \ {n})
  BY <1>1, SumTakeOut
<1>3. (1 .. n) \ {n} = 1 .. n - 1
  OBVIOUS
<1>4. n - 1 \in Nat /\ \A i \in 1 .. n - 1 : f[i] \in Nat
  OBVIOUS
<1>5. SumUpTo(f, n - 1) \in Nat /\ f[n] \in Nat
  BY <1>1, <1>4, SumUpToNatural
<1>6. SumUpTo(f, n) = f[n] + SumUpTo(f, n - 1)
  BY <1>2, <1>3 DEF SumUpTo
<1>7. QED
  BY <1>5, <1>6

LEMMA SumUpToAgree ==
    ASSUME NEW n \in Nat, NEW f, NEW g, \A i \in 1 .. n : f[i] \in Nat /\ f[i] = g[i]
    PROVE  SumUpTo(f, n) = SumUpTo(g, n)
<1>1. IsFiniteSet(1 .. n) /\ \A i \in 1 .. n : f[i] \in Int
  BY FS_Interval
<1>2. QED
  BY <1>1, SumAgree DEF SumUpTo

\* Changing one value changes the sum by the difference.
LEMMA SumExcept ==
    ASSUME NEW S, IsFiniteSet(S), NEW f \in [S -> Int], NEW a \in S, NEW v \in Int
    PROVE  SumFunction([f EXCEPT ![a] = v]) = SumFunction(f) - f[a] + v
<1> DEFINE g == [f EXCEPT ![a] = v]
           R == S \ {a}
<1>1. IsFiniteSet(R)
  BY FS_Subset
<1>2. SumFunctionOnSet(f, S) = f[a] + SumFunctionOnSet(f, R)
  BY SumTakeOut
<1>3. SumFunctionOnSet(g, S) = g[a] + SumFunctionOnSet(g, R)
  <2>1. \A x \in S : g[x] \in Int
    OBVIOUS
  <2> HIDE DEF g
  <2>2. QED
    BY <2>1, SumTakeOut
<1>4. SumFunctionOnSet(f, R) = SumFunctionOnSet(g, R)
  <2>1. \A x \in R : f[x] \in Int /\ f[x] = g[x]
    OBVIOUS
  <2> HIDE DEF g, R
  <2>2. QED
    BY <1>1, <2>1, SumAgree
<1>5. SumFunctionOnSet(f, R) \in Int
  BY <1>1, SumType
<1>6. g[a] = v /\ f[a] \in Int /\ DOMAIN g = S /\ DOMAIN f = S
  OBVIOUS
<1> HIDE DEF g
<1>7. SumFunction(f) = SumFunctionOnSet(f, S) /\ SumFunction(g) = SumFunctionOnSet(g, S)
  BY <1>6 DEF SumFunction
<1>8. QED
  BY <1>2, <1>3, <1>4, <1>5, <1>6, <1>7 DEF g

\* The same of two functions that differ at one value only.
LEMMA SumDiffers ==
    ASSUME NEW S, IsFiniteSet(S), NEW f \in [S -> Int], NEW g \in [S -> Int], NEW a \in S,
           \A x \in S \ {a} : g[x] = f[x]
    PROVE  SumFunction(g) = SumFunction(f) - f[a] + g[a]
<1> DEFINE v == g[a]
<1>1. v \in Int
  OBVIOUS
<1>2. g = [f EXCEPT ![a] = v]
  OBVIOUS
<1> HIDE DEF v
<1>3. SumFunction([f EXCEPT ![a] = v]) = SumFunction(f) - f[a] + v
  BY <1>1, SumExcept
<1>4. QED
  BY <1>2, <1>3 DEF v

\* Values that an injection carries along add up to the same, if nothing is
\* added elsewhere.
LEMMA SumReindex ==
    ASSUME NEW I, IsFiniteSet(I), NEW A, IsFiniteSet(A),
           NEW f \in [I -> Int], NEW g \in [A -> Int], NEW e \in [I -> A],
           \A i, j \in I : e[i] = e[j] => i = j,
           \A i \in I : g[e[i]] = f[i],
           \A a \in A : (\A i \in I : e[i] # a) => g[a] = 0
    PROVE  SumFunction(f) = SumFunction(g)
<1> DEFINE image(J) == {e[i] : i \in J}
           sumf(J) == SumFunctionOnSet(f, J)
           sumg(B) == SumFunctionOnSet(g, B)
           P == {J \in SUBSET I : sumf(J) = sumg(image(J))}
           Q == {B \in SUBSET A : sumg(B) = sumg(B \cap image(I))}
<1>1. \A J \in SUBSET I : image(J) \subseteq A
  OBVIOUS
<1>2. \A J \in SUBSET I : sumf(J) \in Int /\ \A i \in J : sumf(J) = f[i] + sumf(J \ {i})
  BY FS_Subset, SumType, SumTakeOut
<1>3. \A B \in SUBSET A : sumg(B) \in Int /\ \A a \in B : sumg(B) = g[a] + sumg(B \ {a})
  BY FS_Subset, SumType, SumTakeOut
<1>4. sumf({}) = 0 /\ sumg({}) = 0
  BY SumEmpty
<1> HIDE DEF sumf, sumg
<1>5. ASSUME NEW J \in SUBSET I, \A i \in J : J \ {i} \in P
      PROVE  J \in P
  <2>1. CASE J = {}
    <3>1. image(J) = {}
      BY <2>1
    <3>2. QED
      BY <1>4, <2>1, <3>1
  <2>2. ASSUME NEW i \in J
        PROVE  J \in P
    <3>1. image(J \ {i}) = image(J) \ {e[i]} /\ e[i] \in image(J)
      OBVIOUS
    <3>2. sumg(image(J)) = g[e[i]] + sumg(image(J \ {i}))
      BY <1>1, <1>3, <3>1
    <3>3. sumf(J) = f[i] + sumf(J \ {i})
      BY <1>2
    <3>4. sumf(J \ {i}) = sumg(image(J \ {i}))
      BY <1>5
    <3>5. QED
      BY <3>2, <3>3, <3>4
  <2>3. QED
    BY <2>1, <2>2
<1>6. \A J \in SUBSET I : J \in P
  <2> HIDE DEF P
  <2>1. QED
    BY <1>5, SubsetInduction
<1>7. ASSUME NEW B \in SUBSET A, \A a \in B : B \ {a} \in Q
      PROVE  B \in Q
  <2>1. CASE B \subseteq image(I)
    <3>1. B \cap image(I) = B
      BY <2>1
    <3>2. QED
      BY <3>1
  <2>2. ASSUME NEW a \in B, a \notin image(I)
        PROVE  B \in Q
    <3>1. g[a] = 0
      BY <2>2
    <3>2. (B \ {a}) \cap image(I) = B \cap image(I)
      BY <2>2
    <3>3. sumg(B) = g[a] + sumg(B \ {a}) /\ sumg(B \ {a}) \in Int
      BY <1>3
    <3>4. sumg(B \ {a}) = sumg((B \ {a}) \cap image(I))
      BY <1>7
    <3>5. sumg(B) = sumg(B \ {a})
      BY <3>1, <3>3
    <3> HIDE DEF image
    <3>6. QED
      BY <3>2, <3>4, <3>5
  <2>3. QED
    BY <2>1, <2>2
<1>8. \A B \in SUBSET A : B \in Q
  <2> HIDE DEF Q
  <2>1. QED
    BY <1>7, SubsetInduction
<1>9. sumf(I) = sumg(image(I)) /\ sumg(A) = sumg(A \cap image(I))
  BY <1>6, <1>8
<1>10. A \cap image(I) = image(I)
  BY <1>1
<1>11. QED
  <2>1. sumf(I) = sumg(A)
    BY <1>9, <1>10
  <2>2. DOMAIN f = I /\ DOMAIN g = A
    OBVIOUS
  <2>3. QED
    BY <2>1, <2>2 DEF sumf, sumg, SumFunction

=============================================================================
