----------------------------- MODULE StoreLemmas -----------------------------
(***************************************************************************)
(* What holds of the bytes of keys and of any storage of them: the order   *)
(* of byte strings, what the parts of a key are read back as, which keys   *)
(* begin with a prefix, what a range over a prefix finds and in which      *)
(* order, and what is read after a write.                                  *)
(***************************************************************************)
EXTENDS Snapshots, FunctionLemmas, SequenceTheorems

Bytes == Seq(Byte)

LEMMA BytesType ==
    ASSUME NEW a \in Bytes
    PROVE  Len(a) \in Nat /\ \A i \in 1 .. Len(a) : a[i] \in Nat /\ a[i] <= 255
<1>1. \A i \in 1 .. Len(a) : a[i] \in Byte
  BY DEF Bytes
<1>2. Len(a) \in Nat
  BY DEF Bytes
<1>3. \A i \in 1 .. Len(a) : a[i] \in 0 .. 255
  BY <1>1 DEF Byte
<1>4. \A x \in 0 .. 255 : x \in Nat /\ x <= 255
  OBVIOUS
<1>5. QED
  BY ONLY <1>2, <1>3, <1>4

\* Sequences of the same items are the same.
LEMMA SameSeq ==
    ASSUME NEW S, NEW s \in Seq(S), NEW t \in Seq(S), Len(s) = Len(t),
           \A i \in 1 .. Len(s) : s[i] = t[i]
    PROVE  s = t
  BY SeqEqual

LEMMA SameStart ==
    ASSUME NEW S, NEW a \in Seq(S), NEW b \in Seq(S), NEW n \in Nat, n <= Len(a), n <= Len(b)
    PROVE  SubSeq(a, 1, n) = SubSeq(b, 1, n) <=> \A j \in 1 .. n : a[j] = b[j]
<1>1. /\ SubSeq(a, 1, n) \in Seq(S) /\ Len(SubSeq(a, 1, n)) = n
      /\ \A j \in 1 .. n : SubSeq(a, 1, n)[j] = a[j]
  OBVIOUS
<1>2. /\ SubSeq(b, 1, n) \in Seq(S) /\ Len(SubSeq(b, 1, n)) = n
      /\ \A j \in 1 .. n : SubSeq(b, 1, n)[j] = b[j]
  OBVIOUS
<1>3. ASSUME \A j \in 1 .. n : a[j] = b[j]
      PROVE  SubSeq(a, 1, n) = SubSeq(b, 1, n)
  BY <1>1, <1>2, <1>3, SameSeq
<1>4. QED
  BY <1>1, <1>2, <1>3

\* Up to i the strings agree; there the first ends or has the smaller byte.
Below(a, b, i) ==
    /\ i \in 1 .. Len(b) /\ i <= Len(a) + 1
    /\ \A j \in 1 .. i - 1 : a[j] = b[j]
    /\ i <= Len(a) => a[i] < b[i]

LEMMA BeforeAt ==
    ASSUME NEW a \in Bytes, NEW b \in Bytes
    PROVE  BytesBefore(a, b) <=> \E i \in 1 .. Len(b) : Below(a, b, i)
<1>1. Len(a) \in Nat /\ Len(b) \in Nat
  BY DEF Bytes
<1>2. \A n \in Nat : n <= Len(a) /\ n <= Len(b) =>
        (SubSeq(a, 1, n) = SubSeq(b, 1, n) <=> \A j \in 1 .. n : a[j] = b[j])
  BY SameStart DEF Bytes
<1>3. SubSeq(a, 1, Len(a)) = a
  BY DEF Bytes
<1>4. ASSUME IsStrictPrefix(a, b)
      PROVE  \E i \in 1 .. Len(b) : Below(a, b, i)
  <2>1. Len(a) <= Len(b) /\ SubSeq(a, 1, Len(a)) = SubSeq(b, 1, Len(a)) /\ a # b
    BY <1>4 DEF IsStrictPrefix, IsPrefix
  <2>2. \A j \in 1 .. Len(a) : a[j] = b[j]
    BY <1>1, <1>2, <2>1
  <2>3. Len(a) # Len(b)
    BY <2>1, <2>2, SameSeq DEF Bytes
  <2>4. Len(a) + 1 \in 1 .. Len(b) /\ (Len(a) + 1) - 1 = Len(a)
    BY <1>1, <2>1, <2>3
  <2>5. Below(a, b, Len(a) + 1)
    BY <1>1, <2>2, <2>4 DEF Below
  <2>6. QED
    BY <2>4, <2>5
<1>5. ASSUME NEW i \in 1 .. Len(a), i <= Len(b), a[i] < b[i],
             SubSeq(a, 1, i - 1) = SubSeq(b, 1, i - 1)
      PROVE  \E j \in 1 .. Len(b) : Below(a, b, j)
  <2>1. i - 1 \in Nat /\ i - 1 <= Len(a) /\ i - 1 <= Len(b) /\ i \in 1 .. Len(b)
    BY <1>1, <1>5
  <2>2. \A j \in 1 .. i - 1 : a[j] = b[j]
    BY <1>2, <1>5, <2>1
  <2>3. Below(a, b, i)
    BY <1>1, <1>5, <2>1, <2>2 DEF Below
  <2>4. QED
    BY <2>1, <2>3
<1>6. ASSUME NEW i \in 1 .. Len(b), Below(a, b, i)
      PROVE  BytesBefore(a, b)
  <2>1. i \in Nat /\ i >= 1 /\ i - 1 <= Len(a) /\ i - 1 <= Len(b) /\ i - 1 \in Nat
    BY <1>1, <1>6 DEF Below
  <2>2. SubSeq(a, 1, i - 1) = SubSeq(b, 1, i - 1)
    BY <1>2, <1>6, <2>1 DEF Below
  <2>3. CASE i <= Len(a)
    <3>1. i \in 1 .. Len(a) /\ i <= Len(b) /\ a[i] < b[i]
      BY <1>1, <1>6, <2>3 DEF Below
    <3>2. QED
      BY <2>2, <3>1 DEF BytesBefore
  <2>4. CASE i = Len(a) + 1
    <3>1. i - 1 = Len(a) /\ Len(a) < Len(b)
      BY <1>1, <2>4
    <3>2. IsStrictPrefix(a, b)
      BY <1>1, <2>2, <3>1 DEF IsStrictPrefix, IsPrefix
    <3>3. QED
      BY <3>2 DEF BytesBefore
  <2>5. QED
    BY <1>1, <1>6, <2>1, <2>3, <2>4
<1>7. QED
  BY <1>4, <1>5, <1>6 DEF BytesBefore

\* There is a first place where two strings differ.
LEMMA FirstDifference ==
    ASSUME NEW a \in Bytes, NEW b \in Bytes, a # b
    PROVE  \E i \in 1 .. Len(a) + 1 : Below(a, b, i) \/ Below(b, a, i)
<1> DEFINE Agree(n) == n <= Len(a) /\ n <= Len(b) /\ \A j \in 1 .. n : a[j] = b[j]
           T == {n \in Nat : Agree(n)}
<1>1. Len(a) \in Nat /\ Len(b) \in Nat /\ (\A i \in 1 .. Len(a) : a[i] \in Nat)
      /\ (\A i \in 1 .. Len(b) : b[i] \in Nat)
  BY BytesType
<1>2. PICK n \in Nat : Agree(n) /\ ~Agree(n + 1)
  <2>1. SUFFICES ASSUME \A n \in Nat : n \in T => n + 1 \in T PROVE FALSE
    OBVIOUS
  <2>2. 0 \in T
    BY <1>1
  <2> HIDE DEF T
  <2>3. \A n \in Nat : n \in T
    BY <2>1, <2>2, SetInduction
  <2>4. Len(a) + 1 \in T
    BY <1>1, <2>3
  <2>5. QED
    BY <1>1, <2>4 DEF T
<1> DEFINE i == n + 1
<1>3. i - 1 = n /\ i >= 1 /\ i \in Nat /\ i <= Len(a) + 1 /\ i <= Len(b) + 1
  BY <1>1, <1>2
<1>4. \A j \in 1 .. i - 1 : a[j] = b[j] /\ b[j] = a[j]
  BY <1>2, <1>3
<1>5. CASE i > Len(a) /\ i <= Len(b)
  BY <1>1, <1>3, <1>4, <1>5 DEF Below
<1>6. CASE i > Len(b) /\ i <= Len(a)
  BY <1>1, <1>3, <1>4, <1>6 DEF Below
<1>7. CASE i > Len(a) /\ i > Len(b)
  <2>1. Len(a) = Len(b) /\ Len(a) = n
    BY <1>1, <1>3, <1>7
  <2>2. \A j \in 1 .. Len(a) : a[j] = b[j]
    BY <1>2, <2>1
  <2>3. a = b
    BY <2>1, <2>2, SameSeq DEF Bytes
  <2>4. QED
    BY <2>3
<1>8. CASE i <= Len(a) /\ i <= Len(b)
  <2>1. a[i] # b[i]
    BY <1>1, <1>2, <1>3, <1>8
  <2>2. a[i] < b[i] \/ b[i] < a[i]
    BY <1>1, <1>3, <1>8, <2>1
  <2>3. QED
    BY <1>1, <1>3, <1>4, <1>8, <2>2 DEF Below
<1>9. QED
  BY <1>1, <1>3, <1>5, <1>6, <1>7, <1>8

\* The order is total and strict.
LEMMA BytesOrder ==
    ASSUME NEW a \in Bytes, NEW b \in Bytes
    PROVE  /\ ~BytesBefore(a, a)
           /\ BytesBefore(a, b) \/ a = b \/ BytesBefore(b, a)
           /\ BytesBefore(a, b) => a # b /\ ~BytesBefore(b, a)
<1>1. Len(a) \in Nat /\ Len(b) \in Nat /\ (\A i \in 1 .. Len(a) : a[i] \in Nat)
      /\ (\A i \in 1 .. Len(b) : b[i] \in Nat)
  BY BytesType
<1>2. ~BytesBefore(a, a)
  <2>1. ASSUME NEW i \in 1 .. Len(a), Below(a, a, i) PROVE FALSE
    BY <1>1, <2>1 DEF Below
  <2>2. QED
    BY <2>1, BeforeAt
<1>3. BytesBefore(a, b) \/ a = b \/ BytesBefore(b, a)
  <2>1. \A i : Below(a, b, i) => i \in 1 .. Len(b)
    BY DEF Below
  <2>2. \A i : Below(b, a, i) => i \in 1 .. Len(a)
    BY DEF Below
  <2>3. QED
    BY <2>1, <2>2, FirstDifference, BeforeAt
<1>4. BytesBefore(a, b) => ~BytesBefore(b, a)
  <2>1. SUFFICES ASSUME NEW i \in 1 .. Len(b), Below(a, b, i),
                        NEW j \in 1 .. Len(a), Below(b, a, j)
                 PROVE  FALSE
    BY BeforeAt
  <2>2. i \in Nat /\ j \in Nat /\ (i < j \/ i = j \/ j < i)
    BY <1>1
  <2>3. CASE i < j
    <3>1. i \in 1 .. j - 1 /\ i <= Len(a)
      BY <1>1, <2>2, <2>3
    <3>2. a[i] < b[i] /\ b[i] = a[i] /\ a[i] \in Nat
      BY <1>1, <2>1, <3>1 DEF Below
    <3>3. QED
      BY <3>2
  <2>4. CASE j < i
    <3>1. j \in 1 .. i - 1 /\ j <= Len(b)
      BY <1>1, <2>2, <2>4
    <3>2. b[j] < a[j] /\ b[j] = a[j] /\ a[j] \in Nat
      BY <1>1, <2>1, <3>1 DEF Below
    <3>3. QED
      BY <3>2
  <2>5. CASE i = j
    <3>1. a[i] < b[i] /\ b[i] < a[i] /\ a[i] \in Nat /\ b[i] \in Nat
      BY <1>1, <2>1, <2>5 DEF Below
    <3>2. QED
      BY <3>1
  <2>6. QED
    BY <2>2, <2>3, <2>4, <2>5
<1>5. QED
  BY <1>2, <1>3, <1>4

LEMMA BytesTransitive ==
    ASSUME NEW a \in Bytes, NEW b \in Bytes, NEW c \in Bytes,
           BytesBefore(a, b), BytesBefore(b, c)
    PROVE  BytesBefore(a, c)
<1>1. /\ Len(a) \in Nat /\ Len(b) \in Nat /\ Len(c) \in Nat
      /\ (\A i \in 1 .. Len(a) : a[i] \in Nat) /\ (\A i \in 1 .. Len(b) : b[i] \in Nat)
      /\ (\A i \in 1 .. Len(c) : c[i] \in Nat)
  BY BytesType
<1>2. PICK i \in 1 .. Len(b) : Below(a, b, i)
  BY BeforeAt
<1>3. PICK j \in 1 .. Len(c) : Below(b, c, j)
  BY BeforeAt
<1>4. i \in Nat /\ j \in Nat /\ (i < j \/ i = j \/ j < i)
  BY <1>1
<1>5. CASE i < j
  <2>1. /\ i \in 1 .. Len(c) /\ i \in 1 .. j - 1 /\ b[i] = c[i]
        /\ \A k \in 1 .. i - 1 : k \in 1 .. j - 1
    BY <1>1, <1>3, <1>4, <1>5 DEF Below
  <2>2. Below(a, c, i)
    BY <1>1, <1>2, <1>3, <2>1 DEF Below
  <2>3. QED
    BY <2>1, <2>2, BeforeAt
<1>6. CASE j < i
  <2>1. /\ j \in 1 .. i - 1 /\ a[j] = b[j] /\ j <= Len(a) /\ j <= Len(b)
        /\ \A k \in 1 .. j - 1 : k \in 1 .. i - 1
    BY <1>1, <1>2, <1>4, <1>6 DEF Below
  <2>2. Below(a, c, j)
    BY <1>1, <1>2, <1>3, <2>1 DEF Below
  <2>3. QED
    BY <2>2, BeforeAt
<1>7. CASE i = j
  <2>1. i <= Len(b) /\ b[i] < c[i]
    BY <1>1, <1>3, <1>7 DEF Below
  <2>2. i <= Len(a) => a[i] < b[i] /\ a[i] \in Nat /\ b[i] \in Nat /\ c[i] \in Nat
    BY <1>1, <1>2, <1>3, <1>7 DEF Below
  <2>3. Below(a, c, i)
    BY <1>1, <1>2, <1>3, <1>7, <2>1, <2>2 DEF Below
  <2>4. QED
    BY <1>7, <2>3, BeforeAt
<1>8. QED
  BY <1>4, <1>5, <1>6, <1>7

-----------------------------------------------------------------------------
(* The order of strings with a common beginning.                           *)
LEMMA Concat ==
    ASSUME NEW S, NEW a \in Seq(S), NEW b \in Seq(S)
    PROVE  /\ a \o b \in Seq(S)
           /\ Len(a \o b) = Len(a) + Len(b)
           /\ \A i \in 1 .. Len(a) : (a \o b)[i] = a[i]
           /\ \A i \in 1 .. Len(b) : (a \o b)[Len(a) + i] = b[i]
<1>1. Len(a) \in Nat /\ Len(b) \in Nat
  OBVIOUS
<1>2. /\ a \o b \in Seq(S) /\ Len(a \o b) = Len(a) + Len(b)
      /\ \A i \in 1 .. Len(a) + Len(b) : (a \o b)[i] = IF i <= Len(a) THEN a[i] ELSE b[i - Len(a)]
  BY ConcatProperties
<1>3. \A i \in 1 .. Len(a) : i \in 1 .. Len(a) + Len(b) /\ i <= Len(a)
  BY <1>1
<1>4. \A i \in 1 .. Len(b) : /\ Len(a) + i \in 1 .. Len(a) + Len(b) /\ ~(Len(a) + i <= Len(a))
                             /\ Len(a) + i - Len(a) = i
  BY <1>1
<1>5. QED
  BY <1>2, <1>3, <1>4

LEMMA BytesConcat ==
    ASSUME NEW a \in Bytes, NEW b \in Bytes
    PROVE  /\ a \o b \in Bytes
           /\ Len(a \o b) = Len(a) + Len(b)
           /\ \A i \in 1 .. Len(a) : (a \o b)[i] = a[i]
           /\ \A i \in 1 .. Len(b) : (a \o b)[Len(a) + i] = b[i]
  BY Concat DEF Bytes

\* What strings begin with in common makes no difference.
LEMMA BeforeConcat ==
    ASSUME NEW p \in Bytes, NEW a \in Bytes, NEW b \in Bytes
    PROVE  BytesBefore(p \o a, p \o b) <=> BytesBefore(a, b)
<1> DEFINE pa == p \o a
           pb == p \o b
           n == Len(p)
<1>1. /\ pa \in Bytes /\ Len(pa) = n + Len(a)
      /\ \A i \in 1 .. n : pa[i] = p[i]
      /\ \A i \in 1 .. Len(a) : pa[n + i] = a[i]
  BY BytesConcat
<1>2. /\ pb \in Bytes /\ Len(pb) = n + Len(b)
      /\ \A i \in 1 .. n : pb[i] = p[i]
      /\ \A i \in 1 .. Len(b) : pb[n + i] = b[i]
  BY BytesConcat
<1>3. /\ n \in Nat /\ Len(a) \in Nat /\ Len(b) \in Nat
      /\ \A i \in 1 .. n : p[i] \in Nat
  BY BytesType
<1> HIDE DEF pa, pb, n
<1>4. ASSUME NEW i \in 1 .. Len(b), Below(a, b, i)
      PROVE  BytesBefore(pa, pb)
  <2> DEFINE j == n + i
  <2>1. i \in Nat /\ 1 <= i /\ i <= Len(b) /\ i <= Len(a) + 1
    BY <1>3, <1>4 DEF Below
  <2>2. j \in 1 .. Len(pb) /\ j <= Len(pa) + 1
    BY <1>1, <1>2, <1>3, <2>1
  <2>3. ASSUME NEW k \in 1 .. j - 1
        PROVE  pa[k] = pb[k]
    <3>1. CASE k <= n
      <4>1. k \in 1 .. n
        BY <1>3, <2>1, <3>1
      <4>2. QED
        BY <1>1, <1>2, <4>1
    <3>2. CASE k > n
      <4> DEFINE l == k - n
      <4>1. l \in 1 .. i - 1 /\ l \in 1 .. Len(a) /\ l \in 1 .. Len(b) /\ k = n + l
        BY <1>3, <2>1, <3>2
      <4> HIDE DEF l
      <4>2. a[l] = b[l] /\ pa[k] = a[l] /\ pb[k] = b[l]
        BY <1>1, <1>2, <1>4, <4>1 DEF Below
      <4>3. QED
        BY <4>2
    <3>3. QED
      BY <1>3, <2>1, <3>1, <3>2
  <2>4. j <= Len(pa) => pa[j] < pb[j]
    <3>1. SUFFICES ASSUME j <= Len(pa) PROVE pa[j] < pb[j]
      OBVIOUS
    <3>2. i \in 1 .. Len(a) /\ i <= Len(a)
      BY <1>1, <1>3, <2>1, <3>1
    <3>3. a[i] < b[i]
      BY <1>4, <3>2 DEF Below
    <3>4. QED
      BY <1>1, <1>2, <3>2, <3>3
  <2> HIDE DEF j
  <2>5. Below(pa, pb, j)
    BY <2>2, <2>3, <2>4 DEF Below
  <2>6. QED
    BY <1>1, <1>2, <2>2, <2>5, BeforeAt
<1>5. ASSUME NEW j \in 1 .. Len(pb), Below(pa, pb, j)
      PROVE  BytesBefore(a, b)
  <2>1. j \in Nat /\ 1 <= j /\ j <= Len(pb) /\ j <= Len(pa) + 1
    BY <1>1, <1>2, <1>3, <1>5 DEF Below
  <2>2. j > n
    <3>1. SUFFICES ASSUME j <= n PROVE FALSE
      BY <1>3, <2>1
    <3>2. j \in 1 .. n /\ j <= Len(pa)
      BY <1>1, <1>3, <2>1, <3>1
    <3>3. pa[j] = p[j] /\ pb[j] = p[j] /\ p[j] \in Nat /\ pa[j] < pb[j]
      BY <1>1, <1>2, <1>3, <1>5, <3>2 DEF Below
    <3>4. QED
      BY <3>3
  <2> DEFINE i == j - n
  <2>3. i \in 1 .. Len(b) /\ i <= Len(a) + 1 /\ j = n + i
    BY <1>1, <1>2, <1>3, <2>1, <2>2
  <2>4. \A k \in 1 .. i - 1 : /\ n + k \in 1 .. j - 1 /\ k \in 1 .. Len(a) /\ k \in 1 .. Len(b)
    BY <1>3, <2>3
  <2>5. \A k \in 1 .. i - 1 : a[k] = b[k]
    BY <1>1, <1>2, <1>5, <2>4 DEF Below
  <2>6. i <= Len(a) => i \in 1 .. Len(a) /\ j <= Len(pa)
    BY <1>1, <1>3, <2>3
  <2>7. i <= Len(a) => a[i] < b[i]
    BY <1>1, <1>2, <1>5, <2>3, <2>6 DEF Below
  <2> HIDE DEF i
  <2>8. Below(a, b, i)
    BY <2>3, <2>5, <2>7 DEF Below
  <2>9. QED
    BY <2>3, <2>8, BeforeAt
<1>6. BytesBefore(pa, pb) => BytesBefore(a, b)
  BY <1>1, <1>2, <1>5, BeforeAt
<1>7. BytesBefore(a, b) => BytesBefore(pa, pb)
  BY <1>4, BeforeAt
<1>8. QED
  BY <1>6, <1>7 DEF pa, pb

\* Nothing comes before what it begins with.
LEMMA NotBeforeStart ==
    ASSUME NEW p \in Bytes, NEW a \in Bytes
    PROVE  ~BytesBefore(p \o a, p)
<1> DEFINE pa == p \o a
<1>1. /\ pa \in Bytes /\ Len(pa) = Len(p) + Len(a)
      /\ \A i \in 1 .. Len(p) : pa[i] = p[i] /\ p[i] \in Nat
  BY BytesConcat, BytesType
<1>2. Len(p) \in Nat /\ Len(a) \in Nat
  BY BytesType
<1> HIDE DEF pa
<1>3. SUFFICES ASSUME NEW i \in 1 .. Len(p), Below(pa, p, i) PROVE FALSE
  BY <1>1, BeforeAt DEF pa
<1>4. i <= Len(pa)
  BY <1>1, <1>2
<1>5. pa[i] < p[i] /\ pa[i] = p[i] /\ p[i] \in Nat
  BY <1>1, <1>3, <1>4 DEF Below
<1>6. QED
  BY <1>5

\* Nothing comes between a string and the string with one more zero.
LEMMA FirstExtension ==
    ASSUME NEW x \in Bytes, NEW y \in Bytes
    PROVE  BytesBefore(y, Append(x, 0)) <=> y = x \/ BytesBefore(y, x)
<1> DEFINE x0 == Append(x, 0)
           n == Len(x)
<1>1. n \in Nat /\ Len(y) \in Nat /\ \A i \in 1 .. Len(y) : y[i] \in Nat
  BY BytesType
<1>2. 0 \in Byte
  BY DEF Byte
<1>3. /\ x0 \in Bytes /\ Len(x0) = n + 1 /\ x0[n + 1] = 0
      /\ \A i \in 1 .. n : x0[i] = x[i]
  BY <1>1, <1>2 DEF Bytes
<1> HIDE DEF x0, n
<1>4. ASSUME NEW i \in 1 .. Len(x0), Below(y, x0, i)
      PROVE  y = x \/ BytesBefore(y, x)
  <2>1. i \in Nat /\ 1 <= i /\ i <= n + 1 /\ i <= Len(y) + 1
    BY <1>1, <1>3, <1>4 DEF Below
  <2>2. CASE i <= n
    <3>1. i \in 1 .. n /\ \A j \in 1 .. i - 1 : j \in 1 .. n
      BY <1>1, <2>1, <2>2
    <3>2. Below(y, x, i)
      BY <1>3, <1>4, <3>1 DEF Below, n
    <3>3. QED
      BY <3>1, <3>2, BeforeAt DEF n
  <2>3. CASE i = n + 1
    <3>1. i - 1 = n /\ \A j \in 1 .. n : y[j] = x0[j]
      BY <1>1, <1>4, <2>3 DEF Below
    <3>2. ~(i <= Len(y))
      <4>1. SUFFICES ASSUME i <= Len(y) PROVE FALSE
        OBVIOUS
      <4>2. y[i] < 0 /\ y[i] \in Nat
        BY <1>1, <1>3, <1>4, <2>1, <2>3, <4>1 DEF Below
      <4>3. QED
        BY <4>2
    <3>3. Len(y) = n
      BY <1>1, <2>1, <2>3, <3>2
    <3>4. y = x
      BY <1>3, <3>1, <3>3, SameSeq DEF n, Bytes
    <3>5. QED
      BY <3>4
  <2>4. QED
    BY <1>1, <2>1, <2>2, <2>3
<1>5. ASSUME y = x
      PROVE  BytesBefore(y, x0)
  <2>1. n + 1 \in 1 .. Len(x0) /\ (n + 1) - 1 = n /\ ~(n + 1 <= n)
    BY <1>1, <1>3
  <2>2. Below(x, x0, n + 1)
    BY <1>1, <1>3, <2>1 DEF Below, n
  <2>3. QED
    BY <1>3, <1>5, <2>1, <2>2, BeforeAt
<1>6. ASSUME BytesBefore(y, x)
      PROVE  BytesBefore(y, x0)
  <2>1. PICK i \in 1 .. n : Below(y, x, i)
    BY <1>6, BeforeAt DEF n
  <2>2. i \in 1 .. Len(x0) /\ \A j \in 1 .. i - 1 : j \in 1 .. n
    BY <1>1, <1>3
  <2>3. Below(y, x0, i)
    BY <1>3, <2>1, <2>2 DEF Below, n
  <2>4. QED
    BY <1>3, <2>2, <2>3, BeforeAt
<1>7. QED
  BY <1>3, <1>4, <1>5, <1>6, BeforeAt DEF x0

-----------------------------------------------------------------------------
(* Keys: parts one after another, all but the last behind its length.      *)
\* A solution of the recursion by which the library joins sequences.
Joins(l, f) == f = [i \in 1 .. Len(l) |-> IF i = 1 THEN l[i] ELSE f[i - 1] \o l[i]]

LEMMA BytesEmpty ==
    <<>> \in Bytes /\ Len(<<>>) = 0 /\ \A a \in Bytes : <<>> \o a = a /\ a \o <<>> = a
  BY ConcatEmptySeq DEF Bytes

\* As many steps as there are sequences.
LEMMA JoiningSteps ==
    ASSUME NEW x \in Bytes, NEW m \in Nat, NEW g \in [1 .. m -> [Bytes -> Bytes]]
    PROVE  \E f \in [0 .. m -> Bytes] : f[0] = x /\ \A n \in 1 .. m : f[n] = g[n][f[n-1]]
  BY StepsTaken, SMTT(60)

LEMMA JoinsExist ==
    ASSUME NEW l \in Seq(Bytes)
    PROVE  \E f : Joins(l, f)
<1> DEFINE m == Len(l)
           g == [n \in 1 .. m |-> [x \in Bytes |-> x \o l[n]]]
           none == <<>>
<1>1. m \in Nat /\ \A n \in 1 .. m : l[n] \in Bytes
  OBVIOUS
<1>2. \A n \in 1 .. m : g[n] \in [Bytes -> Bytes]
  BY <1>1, BytesConcat
<1>3. g \in [1 .. m -> [Bytes -> Bytes]] /\ none \in Bytes
  BY <1>2, BytesEmpty
<1> HIDE DEF m, g, none
<1>4. PICK h \in [0 .. m -> Bytes] : h[0] = none /\ \A n \in 1 .. m : h[n] = g[n][h[n-1]]
  <2>1. m \in Nat
    BY <1>1
  <2>2. g \in [1 .. m -> [Bytes -> Bytes]]
    BY <1>3
  <2>3. none \in Bytes
    BY <1>3
  <2>4. QED
    BY ONLY <2>1, <2>2, <2>3, JoiningSteps
<1>5. ASSUME NEW n \in 1 .. m
      PROVE  h[n] = h[n-1] \o l[n]
  <2>1. n - 1 \in 0 .. m
    BY <1>1
  <2>2. QED
    BY <1>4, <2>1 DEF g
<1> DEFINE f == [n \in 1 .. m |-> h[n]]
<1>6. ASSUME NEW n \in 1 .. m
      PROVE  f[n] = IF n = 1 THEN l[n] ELSE f[n - 1] \o l[n]
  <2>1. CASE n = 1
    <3>1. h[n-1] = <<>>
      BY <1>4, <2>1 DEF none
    <3>2. h[n] = l[n]
      BY <1>1, <1>5, <3>1, BytesEmpty
    <3>3. QED
      BY <2>1, <3>2
  <2>2. CASE n # 1
    <3>1. n - 1 \in 1 .. m
      BY <1>1, <2>2
    <3>2. QED
      BY <1>5, <2>2, <3>1
  <2>3. QED
    BY <2>1, <2>2
<1>7. f = [n \in 1 .. m |-> IF n = 1 THEN l[n] ELSE f[n - 1] \o l[n]]
  BY <1>6
<1> HIDE DEF f
<1>8. Joins(l, f)
  BY <1>7 DEF Joins, m
<1>9. QED
  BY <1>8

LEMMA JoinsValues ==
    ASSUME NEW l \in Seq(Bytes), NEW f, Joins(l, f)
    PROVE  \A i \in 1 .. Len(l) : /\ f[i] \in Bytes
                                  /\ f[i] = IF i = 1 THEN l[i] ELSE f[i - 1] \o l[i]
<1> DEFINE m == Len(l)
           T == {i \in 0 .. m : i # 0 => f[i] \in Bytes}
<1>1. m \in Nat /\ \A n \in 1 .. m : l[n] \in Bytes
  OBVIOUS
<1>2. \A i \in 1 .. m : f[i] = IF i = 1 THEN l[i] ELSE f[i - 1] \o l[i]
  BY DEF Joins
<1>3. 0 \in T
  BY <1>1
<1>4. ASSUME NEW n \in 1 .. m, n - 1 \in T
      PROVE  n \in T
  <2>1. CASE n = 1
    BY <1>1, <1>2, <2>1
  <2>2. CASE n # 1
    <3>1. f[n-1] \in Bytes
      BY <1>1, <1>4, <2>2
    <3>2. f[n-1] \o l[n] \in Bytes
      BY <1>1, <3>1, BytesConcat
    <3>3. QED
      BY <1>1, <1>2, <2>2, <3>2
  <2>3. QED
    BY <2>1, <2>2
<1> HIDE DEF T
<1>5. \A n \in 0 .. m : n \in T
  BY <1>1, <1>3, <1>4, BoundedInduction
<1>6. ASSUME NEW i \in 1 .. m PROVE f[i] \in Bytes
  <2>1. i \in 0 .. m /\ i # 0
    BY <1>1
  <2>2. QED
    BY <1>5, <2>1 DEF T
<1>7. QED
  BY <1>2, <1>6

LEMMA FlattenJoins ==
    ASSUME NEW l \in Seq(Bytes), l # <<>>
    PROVE  \E f : Joins(l, f) /\ FlattenSeq(l) = f[Len(l)]
<1> DEFINE f == CHOOSE h : h = [i \in 1 .. Len(l) |-> IF i = 1 THEN l[i] ELSE h[i - 1] \o l[i]]
<1>1. \E h : h = [i \in 1 .. Len(l) |-> IF i = 1 THEN l[i] ELSE h[i - 1] \o l[i]]
  BY JoinsExist DEF Joins
<1>2. f = [i \in 1 .. Len(l) |-> IF i = 1 THEN l[i] ELSE f[i - 1] \o l[i]]
  BY <1>1
<1>3. Len(l) # 0
  BY EmptySeq
<1>4. FlattenSeq(l) = f[Len(l)]
  BY <1>3 DEF FlattenSeq
<1> HIDE DEF f
<1>5. Joins(l, f)
  BY <1>2 DEF Joins
<1>6. QED
  BY <1>4, <1>5

LEMMA FlattenAppend ==
    ASSUME NEW l \in Seq(Bytes), NEW e \in Bytes
    PROVE  /\ FlattenSeq(<<>>) = <<>>
           /\ FlattenSeq(l) \in Bytes
           /\ FlattenSeq(Append(l, e)) = FlattenSeq(l) \o e
<1> DEFINE le == Append(l, e)
           m == Len(l)
<1>1. FlattenSeq(<<>>) = <<>>
  BY DEF FlattenSeq
<1>2. m \in Nat /\ le \in Seq(Bytes) /\ Len(le) = m + 1 /\ le # <<>> /\ le[m + 1] = e
      /\ \A i \in 1 .. m : le[i] = l[i]
  OBVIOUS
<1> HIDE DEF le
<1>3. PICK f : Joins(le, f) /\ FlattenSeq(le) = f[m + 1]
  BY <1>2, FlattenJoins
<1>4. \A i \in 1 .. m + 1 : f[i] \in Bytes /\ f[i] = IF i = 1 THEN le[i] ELSE f[i - 1] \o le[i]
  BY <1>2, <1>3, JoinsValues
<1>5. CASE l = <<>>
  <2>1. m = 0
    BY <1>5, BytesEmpty
  <2>2. FlattenSeq(le) = e
    BY <1>2, <1>3, <1>4, <2>1
  <2>3. QED
    BY <1>1, <1>5, <2>2, BytesEmpty DEF le
<1>6. CASE l # <<>>
  <2>1. PICK h : Joins(l, h) /\ FlattenSeq(l) = h[m]
    BY <1>6, FlattenJoins
  <2>2. \A i \in 1 .. m : h[i] \in Bytes /\ h[i] = IF i = 1 THEN l[i] ELSE h[i - 1] \o l[i]
    BY <2>1, JoinsValues
  <2>3. m # 0
    BY <1>6, EmptySeq
  <2> DEFINE T == {i \in 0 .. m : i # 0 => f[i] = h[i]}
  <2>4. 0 \in T
    BY <1>2
  <2>5. ASSUME NEW n \in 1 .. m, n - 1 \in T
        PROVE  n \in T
    <3>1. n \in 1 .. m + 1 /\ n \in 0 .. m
      BY <1>2
    <3>2. CASE n = 1
      BY <1>2, <1>4, <2>2, <3>1, <3>2
    <3>3. CASE n # 1
      <4>1. n - 1 # 0
        BY <1>2, <3>3
      <4>2. f[n-1] = h[n-1]
        BY <2>5, <4>1
      <4>3. QED
        BY <1>2, <1>4, <2>2, <3>1, <3>3, <4>2
    <3>4. QED
      BY <3>2, <3>3
  <2> HIDE DEF T
  <2>6. \A n \in 0 .. m : n \in T
    BY <1>2, <2>4, <2>5, BoundedInduction
  <2>7. m \in 0 .. m /\ m \in 1 .. m /\ m + 1 \in 1 .. m + 1 /\ m + 1 # 1 /\ (m + 1) - 1 = m
    BY <1>2, <2>3
  <2>8. f[m] = h[m]
    BY <2>3, <2>6, <2>7 DEF T
  <2>9. f[m + 1] = f[m] \o e
    BY <1>2, <1>4, <2>7
  <2>10. QED
    BY <1>1, <1>3, <2>1, <2>2, <2>7, <2>8, <2>9 DEF le
<1>7. QED
  BY <1>5, <1>6

LEMMA SeqFirst ==
    ASSUME NEW S, NEW x \in S, NEW t \in Seq(S)
    PROVE  /\ <<x>> \o t \in Seq(S) /\ Len(<<x>> \o t) = Len(t) + 1
           /\ (<<x>> \o t)[1] = x
           /\ \A i \in 1 .. Len(t) : (<<x>> \o t)[i + 1] = t[i]
<1>1. <<x>> \in Seq(S) /\ Len(<<x>>) = 1 /\ <<x>>[1] = x /\ Len(t) \in Nat
  OBVIOUS
<1>2. /\ <<x>> \o t \in Seq(S) /\ Len(<<x>> \o t) = 1 + Len(t)
      /\ \A i \in 1 .. 1 : (<<x>> \o t)[i] = <<x>>[i]
      /\ \A i \in 1 .. Len(t) : (<<x>> \o t)[1 + i] = t[i]
  BY <1>1, Concat
<1>3. 1 \in 1 .. 1 /\ 1 + Len(t) = Len(t) + 1 /\ \A i \in 1 .. Len(t) : 1 + i = i + 1
  BY <1>1
<1>4. QED
  BY <1>1, <1>2, <1>3

\* A sequence that is not empty has a first item and the rest.
LEMMA SeqSplit ==
    ASSUME NEW S, NEW s \in Seq(S), s # <<>>
    PROVE  \E x \in S, t \in Seq(S) : s = <<x>> \o t /\ Len(t) = Len(s) - 1
<1>1. /\ Head(s) \in S /\ Tail(s) \in Seq(S) /\ Len(Tail(s)) = Len(s) - 1
      /\ \A i \in 1 .. Len(Tail(s)) : Tail(s)[i] = s[i + 1]
  BY HeadTailProperties
<1>2. Head(s) = s[1] /\ Len(s) \in Nat /\ Len(s) # 0
  BY EmptySeq
<1> DEFINE x == Head(s)
           t == Tail(s)
           xt == <<x>> \o t
<1>3. /\ xt \in Seq(S) /\ Len(xt) = Len(t) + 1 /\ xt[1] = x
      /\ \A i \in 1 .. Len(t) : xt[i + 1] = t[i]
  BY <1>1, SeqFirst
<1> HIDE DEF x, t, xt
<1>4. Len(xt) = Len(s)
  BY <1>1, <1>2, <1>3 DEF t
<1>5. ASSUME NEW i \in 1 .. Len(s)
      PROVE  xt[i] = s[i]
  <2>1. CASE i = 1
    BY <1>2, <1>3, <2>1 DEF x
  <2>2. CASE i # 1
    <3>1. i - 1 \in 1 .. Len(t) /\ (i - 1) + 1 = i
      BY <1>1, <1>2, <2>2 DEF t
    <3>2. QED
      BY <1>1, <1>3, <3>1 DEF t
  <2>3. QED
    BY <2>1, <2>2
<1>6. xt = s
  BY <1>3, <1>4, <1>5, SameSeq
<1>7. QED
  BY <1>1, <1>6 DEF xt, x, t

LEMMA SeqSplitLast ==
    ASSUME NEW S, NEW s \in Seq(S), s # <<>>
    PROVE  \E x \in S, t \in Seq(S) : s = Append(t, x) /\ Len(t) = Len(s) - 1
<1>1. Len(s) \in Nat /\ Len(s) # 0
  BY EmptySeq
<1> DEFINE t == SubSeq(s, 1, Len(s) - 1)
           x == s[Len(s)]
<1>2. t \in Seq(S) /\ Len(t) = Len(s) - 1 /\ x \in S
  <2>1. \A i \in 1 .. Len(s) - 1 : s[i] \in S
    BY <1>1
  <2>2. t \in Seq(S) /\ Len(t) = IF 1 <= Len(s) - 1 THEN Len(s) - 1 - 1 + 1 ELSE 0
    BY <1>1, <2>1, SubSeqProperties
  <2>3. Len(s) \in 1 .. Len(s)
    BY <1>1
  <2>4. x \in S
    BY <2>3
  <2> DEFINE n == Len(s)
             k == Len(t)
  <2>5. n \in Nat /\ n # 0 /\ k = IF 1 <= n - 1 THEN n - 1 - 1 + 1 ELSE 0
    BY <1>1, <2>2
  <2> HIDE DEF n, k
  <2>7. k = n - 1
    BY ONLY <2>5
  <2>6. QED
    BY <2>2, <2>4, <2>7 DEF n, k
<1>3. s = Append(t, x)
  BY <1>1
<1>4. QED
  BY <1>2, <1>3

LEMMA FlattenFirst ==
    ASSUME NEW h \in Bytes, NEW t \in Seq(Bytes)
    PROVE  FlattenSeq(<<h>> \o t) = h \o FlattenSeq(t)
<1> DEFINE T == {n \in Nat : \A u \in Seq(Bytes) : Len(u) = n =>
                   FlattenSeq(<<h>> \o u) = h \o FlattenSeq(u)}
<1>1. 0 \in T
  <2>1. SUFFICES ASSUME NEW u \in Seq(Bytes), Len(u) = 0
                 PROVE  FlattenSeq(<<h>> \o u) = h \o FlattenSeq(u)
    OBVIOUS
  <2>2. u = <<>> /\ <<h>> \o u = <<h>> /\ <<h>> = Append(<<>>, h) /\ <<>> \in Seq(Bytes)
    BY <2>1, EmptySeq
  <2>3. FlattenSeq(<<>>) = <<>> /\ FlattenSeq(Append(<<>>, h)) = FlattenSeq(<<>>) \o h
    BY <2>2, FlattenAppend
  <2>4. <<>> \o h = h /\ h \o <<>> = h
    BY BytesEmpty
  <2>5. QED
    BY <2>2, <2>3, <2>4
<1>2. ASSUME NEW n \in Nat, n \in T
      PROVE  n + 1 \in T
  <2>1. SUFFICES ASSUME NEW u \in Seq(Bytes), Len(u) = n + 1
                 PROVE  FlattenSeq(<<h>> \o u) = h \o FlattenSeq(u)
    OBVIOUS
  <2>2. u # <<>>
    BY <2>1, EmptySeq
  <2>3. PICK x \in Bytes, v \in Seq(Bytes) : u = Append(v, x) /\ Len(v) = Len(u) - 1
    BY <2>2, SeqSplitLast
  <2>4. Len(v) = n
    BY <2>1, <2>3
  <2>5. FlattenSeq(<<h>> \o v) = h \o FlattenSeq(v)
    BY <1>2, <2>4
  <2>6. <<h>> \in Seq(Bytes) /\ <<h>> \o v \in Seq(Bytes)
    BY ConcatProperties
  <2>7. <<h>> \o Append(v, x) = Append(<<h>> \o v, x)
    <3>1. Append(v, x) = v \o <<x>> /\ Append(<<h>> \o v, x) = (<<h>> \o v) \o <<x>>
      BY <2>6, AppendIsConcat
    <3>2. (<<h>> \o v) \o <<x>> = <<h>> \o (v \o <<x>>)
      BY <2>6, ConcatAssociative
    <3>3. QED
      BY <3>1, <3>2
  <2>8. FlattenSeq(<<h>> \o u) = FlattenSeq(<<h>> \o v) \o x
    BY <2>3, <2>6, <2>7, FlattenAppend
  <2>9. FlattenSeq(u) = FlattenSeq(v) \o x /\ FlattenSeq(v) \in Bytes
    BY <2>3, FlattenAppend
  <2>10. (h \o FlattenSeq(v)) \o x = h \o (FlattenSeq(v) \o x)
    BY <2>9, ConcatAssociative, SMTT(30) DEF Bytes
  <2>11. QED
    BY <2>5, <2>8, <2>9, <2>10
<1> HIDE DEF T
<1>3. \A n \in Nat : n \in T
  BY <1>1, <1>2, SetInduction
<1>4. Len(t) \in T
  BY <1>3
<1>5. QED
  BY <1>4 DEF T

-----------------------------------------------------------------------------
(* Lengths before parts.                                                   *)
Short == {x \in Bytes : Len(x) < 65535}

LEMMA EncodedLength ==
    ASSUME NEW a \in Short
    PROVE  /\ encode_length(a) \in Bytes /\ Len(encode_length(a)) = 2
           /\ encode_length(a)[1] = Len(a) \div 256 /\ encode_length(a)[2] = Len(a) % 256
<1>1. Len(a) \in Nat /\ Len(a) < 65535
  BY DEF Short, Bytes
<1> DEFINE n == Len(a)
           h == n \div 256
           l == n % 256
<1>2. h \in 0 .. 255 /\ l \in 0 .. 255
  <2>1. n \in Nat /\ n < 65535
    BY <1>1
  <2> HIDE DEF n
  <2>2. QED
    BY ONLY <2>1
<1> HIDE DEF h, l
<1>3. <<h, l>> \in Seq(0 .. 255) /\ Len(<<h, l>>) = 2 /\ <<h, l>>[1] = h /\ <<h, l>>[2] = l
  BY <1>2
<1>4. encode_length(a) = <<h, l>>
  BY DEF encode_length, h, l
<1>5. QED
  BY <1>3, <1>4 DEF h, l, Bytes, Byte

LEMMA PrefixedType ==
    ASSUME NEW a \in Short
    PROVE  to_length_prefixed(a) \in Bytes /\ Len(to_length_prefixed(a)) = Len(a) + 2
<1>1. a \in Bytes /\ Len(a) \in Nat
  BY DEF Short, Bytes
<1> DEFINE e == encode_length(a)
<1>2. e \in Bytes /\ Len(e) = 2
  BY EncodedLength
<1> HIDE DEF e
<1>3. e \o a \in Bytes /\ Len(e \o a) = Len(e) + Len(a)
  BY ONLY <1>1, <1>2, BytesConcat
<1>4. Len(e \o a) = Len(a) + 2
  BY ONLY <1>1, <1>2, <1>3
<1>5. QED
  BY <1>3, <1>4 DEF to_length_prefixed, e

\* Strings whose first parts are equally long.
LEMMA SameLength ==
    ASSUME NEW a \in Bytes, NEW b \in Bytes, NEW x \in Bytes, NEW y \in Bytes, Len(a) = Len(b)
    PROVE  /\ a \o x = b \o y => a = b /\ x = y
           /\ BytesBefore(a \o x, b \o y) <=> BytesBefore(a, b) \/ (a = b /\ BytesBefore(x, y))
<1> DEFINE ax == a \o x
           by == b \o y
           n == Len(a)
<1>1. /\ ax \in Bytes /\ Len(ax) = n + Len(x) /\ \A i \in 1 .. n : ax[i] = a[i]
      /\ by \in Bytes /\ Len(by) = n + Len(y) /\ \A i \in 1 .. n : by[i] = b[i]
  <2>1. ax \in Bytes /\ Len(ax) = n + Len(x) /\ \A i \in 1 .. n : ax[i] = a[i]
    BY BytesConcat
  <2>2. by \in Bytes /\ Len(by) = n + Len(y) /\ \A i \in 1 .. n : by[i] = b[i]
    BY BytesConcat
  <2>3. QED
    BY <2>1, <2>2
<1>2. n \in Nat /\ Len(x) \in Nat /\ Len(y) \in Nat /\ n = Len(b)
  BY DEF Bytes
<1>3. a = b => (ax = by => x = y)
  BY ConcatSimplifications DEF Bytes
<1> HIDE DEF ax, by, n
<1>4. ax = by => a = b
  <2>1. SUFFICES ASSUME ax = by PROVE a = b
    OBVIOUS
  <2>2. \A i \in 1 .. n : a[i] = b[i]
    BY <1>1, <2>1
  <2>3. QED
    BY <1>2, <2>2, SameSeq DEF n, Bytes
<1>5. CASE a = b
  <2>1. BytesBefore(ax, by) <=> BytesBefore(x, y)
    BY <1>5, BeforeConcat DEF ax, by
  <2>2. ~BytesBefore(a, b)
    BY <1>5, BytesOrder
  <2>3. QED
    BY <1>3, <1>4, <1>5, <2>1, <2>2 DEF ax, by
<1>6. CASE a # b
  <2>1. ASSUME NEW i \in 1 .. n, Below(a, b, i) PROVE Below(ax, by, i)
    <3>1. /\ i \in 1 .. Len(by) /\ i <= Len(ax) + 1 /\ i <= n
          /\ \A j \in 1 .. i - 1 : j \in 1 .. n
      BY <1>1, <1>2
    <3>2. \A j \in 1 .. i - 1 : ax[j] = by[j]
      BY <1>1, <2>1, <3>1 DEF Below
    <3>3. a[i] < b[i]
      BY <2>1, <3>1 DEF Below, n
    <3>4. ax[i] < by[i]
      BY <1>1, <3>3
    <3>5. QED
      BY <3>1, <3>2, <3>4 DEF Below
  <2>2. ASSUME NEW i \in 1 .. n, Below(b, a, i) PROVE Below(by, ax, i)
    <3>1. /\ i \in 1 .. Len(ax) /\ i <= Len(by) + 1 /\ i <= n
          /\ \A j \in 1 .. i - 1 : j \in 1 .. n
      BY <1>1, <1>2
    <3>2. \A j \in 1 .. i - 1 : by[j] = ax[j]
      BY <1>1, <2>2, <3>1 DEF Below
    <3>3. b[i] < a[i]
      BY <1>2, <2>2, <3>1 DEF Below
    <3>4. by[i] < ax[i]
      BY <1>1, <3>3
    <3>5. QED
      BY <3>1, <3>2, <3>4 DEF Below
  <2>3. \A i \in 1 .. n : i \in 1 .. Len(ax) /\ i \in 1 .. Len(by)
    BY <1>1, <1>2
  <2>4. BytesBefore(a, b) => BytesBefore(ax, by)
    BY <1>1, <1>2, <2>1, <2>3, BeforeAt
  <2>5. BytesBefore(b, a) => BytesBefore(by, ax)
    BY <1>1, <1>2, <2>2, <2>3, BeforeAt DEF n
  <2>6. BytesBefore(a, b) \/ BytesBefore(b, a)
    BY <1>6, BytesOrder
  <2>7. ~(BytesBefore(ax, by) /\ BytesBefore(by, ax))
    BY <1>1, BytesOrder
  <2>8. QED
    BY <1>4, <1>6, <2>4, <2>5, <2>6, <2>7 DEF ax, by
<1>7. QED
  BY <1>5, <1>6

LEMMA PrefixedSplits ==
    ASSUME NEW a \in Short, NEW x \in Bytes
    PROVE  to_length_prefixed(a) \o x = encode_length(a) \o (a \o x) /\ a \o x \in Bytes
<1>1. a \in Bytes /\ encode_length(a) \in Bytes
  BY EncodedLength DEF Short
<1>2. (encode_length(a) \o a) \o x = encode_length(a) \o (a \o x)
  BY <1>1, ConcatAssociative DEF Bytes
<1>3. QED
  BY <1>1, <1>2, BytesConcat DEF to_length_prefixed

\* A shorter part comes first.
LEMMA ShorterFirst ==
    ASSUME NEW a \in Short, NEW b \in Short, NEW x \in Bytes, NEW y \in Bytes, Len(a) < Len(b)
    PROVE  BytesBefore(to_length_prefixed(a) \o x, to_length_prefixed(b) \o y)
<1> DEFINE e == encode_length(a)
           f == encode_length(b)
           s == e \o (a \o x)
           t == f \o (b \o y)
<1>1. /\ e \in Bytes /\ Len(e) = 2 /\ e[1] = Len(a) \div 256 /\ e[2] = Len(a) % 256
      /\ f \in Bytes /\ Len(f) = 2 /\ f[1] = Len(b) \div 256 /\ f[2] = Len(b) % 256
  BY EncodedLength
<1>2. Len(a) \in Nat /\ Len(b) \in Nat /\ Len(a) < 65535 /\ Len(b) < 65535
  BY DEF Short, Bytes
<1>3. e[1] < f[1] \/ (e[1] = f[1] /\ e[2] < f[2])
  <2> DEFINE m == Len(a)
             n == Len(b)
  <2> HIDE DEF m, n
  <2>1. m \div 256 < n \div 256 \/ (m \div 256 = n \div 256 /\ m % 256 < n % 256)
    BY <1>2 DEF m, n
  <2>2. QED
    BY <1>1, <2>1 DEF m, n
<1>4. Below(e, f, 1) \/ Below(e, f, 2)
  <2>1. 1 \in 1 .. Len(f) /\ 2 \in 1 .. Len(f) /\ 1 <= Len(e) + 1 /\ 2 <= Len(e) + 1
        /\ (\A j \in 1 .. 1 - 1 : e[j] = f[j])
        /\ \A j \in 1 .. 2 - 1 : j = 1
    BY <1>1
  <2> HIDE DEF e, f
  <2>2. QED
    BY <1>3, <2>1 DEF Below
<1>5. BytesBefore(e, f)
  <2> HIDE DEF e, f
  <2>1. QED
    BY <1>1, <1>4, BeforeAt DEF Below
<1>6. a \o x \in Bytes /\ b \o y \in Bytes
  BY PrefixedSplits
<1>7. BytesBefore(s, t)
  <2> DEFINE u == a \o x
             w == b \o y
  <2>1. e \in Bytes /\ f \in Bytes /\ u \in Bytes /\ w \in Bytes /\ Len(e) = Len(f)
    BY <1>1, <1>6
  <2> HIDE DEF e, f, u, w
  <2>2. BytesBefore(e \o u, f \o w)
    BY <1>5, <2>1, SameLength
  <2>3. QED
    BY <2>2 DEF u, w
<1>8. QED
  BY <1>7, PrefixedSplits

\* What begins with a length and a part can be taken apart, and is in the order of the
\* parts first.
LEMMA PrefixedOrder ==
    ASSUME NEW a \in Short, NEW b \in Short, NEW x \in Bytes, NEW y \in Bytes
    PROVE  /\ length_prefixed_with_key(a, x) \in Bytes
           /\ length_prefixed_with_key(a, x) = length_prefixed_with_key(b, y) => a = b /\ x = y
           /\ BytesBefore(length_prefixed_with_key(a, x), length_prefixed_with_key(b, y))
                <=> PartBefore(a, b) \/ (a = b /\ BytesBefore(x, y))
<1> DEFINE s == to_length_prefixed(a) \o x
           t == to_length_prefixed(b) \o y
<1> SUFFICES /\ s \in Bytes
             /\ s = t => a = b /\ x = y
             /\ BytesBefore(s, t) <=> PartBefore(a, b) \/ (a = b /\ BytesBefore(x, y))
  <2> HIDE DEF s, t
  <2>1. length_prefixed_with_key(a, x) = s /\ length_prefixed_with_key(b, y) = t
    BY DEF length_prefixed_with_key, s, t
  <2>2. QED
    BY <2>1
<1>1. a \in Bytes /\ b \in Bytes /\ Len(a) \in Nat /\ Len(b) \in Nat
  BY DEF Short, Bytes
<1>2. s \in Bytes /\ t \in Bytes
  BY PrefixedType, BytesConcat
<1>3. CASE Len(a) = Len(b)
  <2> DEFINE e == encode_length(a)
  <2>1. e = encode_length(b)
    BY <1>3 DEF encode_length
  <2>2. s = e \o (a \o x) /\ t = e \o (b \o y) /\ a \o x \in Bytes /\ b \o y \in Bytes
        /\ e \in Bytes
    BY <2>1, PrefixedSplits, EncodedLength
  <2> HIDE DEF e, s, t
  <2>3. s = t => a \o x = b \o y
    <3> DEFINE u == a \o x
               w == b \o y
    <3>1. u \in Bytes /\ w \in Bytes /\ s = e \o u /\ t = e \o w
      BY <2>2
    <3> HIDE DEF u, w
    <3>2. e \o u = e \o w => u = w
      BY <2>2, <3>1, ConcatSimplifications DEF Bytes
    <3>3. QED
      BY <3>1, <3>2 DEF u, w
  <2>4. a \o x = b \o y => a = b /\ x = y
    BY <1>1, <1>3, SameLength
  <2>5. BytesBefore(s, t) <=> BytesBefore(a \o x, b \o y)
    BY <2>2, BeforeConcat
  <2>6. BytesBefore(a \o x, b \o y) <=> BytesBefore(a, b) \/ (a = b /\ BytesBefore(x, y))
    BY <1>1, <1>3, SameLength
  <2>7. PartBefore(a, b) <=> BytesBefore(a, b)
    BY <1>1, <1>3 DEF PartBefore
  <2>8. QED
    BY <1>2, <2>3, <2>4, <2>5, <2>6, <2>7 DEF s, t
<1>4. CASE Len(a) < Len(b)
  <2>1. BytesBefore(s, t)
    BY <1>4, ShorterFirst
  <2>2. s # t
    BY <1>2, <2>1, BytesOrder
  <2>3. PartBefore(a, b)
    BY <1>4 DEF PartBefore
  <2>4. QED
    BY <1>2, <2>1, <2>2, <2>3
<1>5. CASE Len(b) < Len(a)
  <2>1. BytesBefore(t, s)
    BY <1>5, ShorterFirst
  <2>2. s # t /\ ~BytesBefore(s, t)
    BY <1>2, <2>1, BytesOrder
  <2>3. ~PartBefore(a, b) /\ a # b
    BY <1>1, <1>5 DEF PartBefore
  <2>4. QED
    BY <1>2, <2>2, <2>3
<1>6. QED
  BY <1>1, <1>3, <1>4, <1>5, SMTT(30)

-----------------------------------------------------------------------------
(* The parts of keys, the first and the rest.                              *)
LEMMA BytesAssociative ==
    ASSUME NEW a \in Bytes, NEW b \in Bytes, NEW c \in Bytes
    PROVE  (a \o b) \o c = a \o (b \o c)
  BY ConcatAssociative DEF Bytes

LEMMA NestedFirst ==
    ASSUME NEW x \in Short, NEW t \in Seq(Short)
    PROVE  /\ to_length_prefixed_nested(<<>>) = <<>>
           /\ to_length_prefixed_nested(t) \in Bytes
           /\ to_length_prefixed_nested(<<x>> \o t)
                = to_length_prefixed(x) \o to_length_prefixed_nested(t)
<1> DEFINE Each(s) == [i \in 1 .. Len(s) |-> to_length_prefixed(s[i])]
           xt == <<x>> \o t
<1>1. ASSUME NEW s \in Seq(Short)
      PROVE  /\ Each(s) \in Seq(Bytes) /\ Len(Each(s)) = Len(s)
             /\ \A i \in 1 .. Len(s) : Each(s)[i] = to_length_prefixed(s[i])
  <2>1. Len(s) \in Nat /\ \A i \in 1 .. Len(s) : s[i] \in Short
    OBVIOUS
  <2>2. \A i \in 1 .. Len(s) : to_length_prefixed(s[i]) \in Bytes
    BY <2>1, PrefixedType
  <2>3. Each(s) \in [1 .. Len(s) -> Bytes]
    BY <2>2
  <2>4. QED
    BY <2>1, <2>3
<1>2. \A s : to_length_prefixed_nested(s) = FlattenSeq(Each(s))
  BY DEF to_length_prefixed_nested
<1>3. /\ xt \in Seq(Short) /\ Len(xt) = Len(t) + 1 /\ xt[1] = x
      /\ \A i \in 1 .. Len(t) : xt[i + 1] = t[i]
  BY SeqFirst
<1>4. to_length_prefixed(x) \in Bytes /\ Len(t) \in Nat
  BY PrefixedType
<1>5. <<>> \in Seq(Short) /\ Len(<<>>) = 0
  BY EmptySeq
<1> HIDE DEF Each, xt
<1>6. Each(<<>>) = <<>>
  <2>1. Each(<<>>) \in Seq(Bytes) /\ Len(Each(<<>>)) = 0
    BY <1>1, <1>5
  <2>2. QED
    BY <2>1, EmptySeq
<1> DEFINE h == to_length_prefixed(x)
           et == Each(t)
           hx == <<h>> \o et
<1>7. et \in Seq(Bytes) /\ Len(et) = Len(t) /\ \A i \in 1 .. Len(t) : et[i] = to_length_prefixed(t[i])
  BY <1>1
<1>8. /\ hx \in Seq(Bytes) /\ Len(hx) = Len(et) + 1 /\ hx[1] = h
      /\ \A i \in 1 .. Len(et) : hx[i + 1] = et[i]
  BY <1>4, <1>7, SeqFirst
<1>9. /\ Each(xt) \in Seq(Bytes) /\ Len(Each(xt)) = Len(xt)
      /\ \A i \in 1 .. Len(xt) : Each(xt)[i] = to_length_prefixed(xt[i])
  BY <1>1, <1>3
<1>10. h = to_length_prefixed(x)
  OBVIOUS
<1> HIDE DEF h, et, hx
<1>11. ASSUME NEW i \in 1 .. Len(xt)
       PROVE  Each(xt)[i] = hx[i]
  <2>1. CASE i = 1
    BY <1>3, <1>8, <1>9, <1>10, <2>1
  <2>2. CASE i # 1
    <3> DEFINE j == i - 1
    <3>1. j \in 1 .. Len(t) /\ j + 1 = i
      BY <1>3, <1>4, <2>2
    <3> HIDE DEF j
    <3>2. hx[i] = to_length_prefixed(t[j]) /\ xt[i] = t[j]
      BY <1>3, <1>7, <1>8, <3>1
    <3>3. QED
      BY <1>9, <3>2
  <2>3. QED
    BY <2>1, <2>2
<1>12. Each(xt) = hx
  BY <1>3, <1>7, <1>8, <1>9, <1>11, SameSeq
<1>13. FlattenSeq(hx) = h \o FlattenSeq(et)
  BY <1>4, <1>7, <1>10, FlattenFirst DEF hx
<1>14. FlattenSeq(et) \in Bytes /\ FlattenSeq(<<>>) = <<>>
  BY <1>4, <1>7, FlattenAppend
<1>15. to_length_prefixed_nested(<<>>) = <<>>
  BY <1>2, <1>6, <1>14
<1>16. to_length_prefixed_nested(t) = FlattenSeq(et)
  BY <1>2 DEF et
<1>17. to_length_prefixed_nested(xt) = h \o FlattenSeq(et)
  BY <1>2, <1>12, <1>13
<1>18. QED
  BY <1>14, <1>15, <1>16, <1>17 DEF xt, h

\* A key, its first part apart.
LEMMA KeyType ==
    ASSUME NEW m \in Nat, m >= 1, NEW k \in KeysOfParts(m)
    PROVE  /\ k \in Seq(Bytes) /\ Len(k) = m /\ k # <<>>
           /\ Front(k) \in Seq(Short) /\ Len(Front(k)) = m - 1
           /\ \A i \in 1 .. m - 1 : Front(k)[i] = k[i]
           /\ Last(k) \in Bytes /\ Last(k) = k[m]
<1>1. k \in Seq(Bytes) /\ Len(k) = m /\ \A i \in 1 .. m - 1 : Len(k[i]) < 65535
  BY DEF KeysOfParts, Bytes
<1>2. \A i \in 1 .. m : k[i] \in Bytes
  BY <1>1
<1>3. \A i \in 1 .. m - 1 : i \in 1 .. m
  OBVIOUS
<1>4. \A i \in 1 .. m - 1 : k[i] \in Short
  BY <1>1, <1>2, <1>3 DEF Short
<1> DEFINE f == SubSeq(k, 1, m - 1)
<1>5. m - 1 \in Int /\ 1 \in Int
  OBVIOUS
<1>6. /\ f \in Seq(Short) /\ Len(f) = IF 1 <= m - 1 THEN m - 1 - 1 + 1 ELSE 0
      /\ \A i \in 1 .. m - 1 - 1 + 1 : f[i] = k[1 + i - 1]
  BY <1>4, <1>5, SubSeqProperties
<1>7. m - 1 - 1 + 1 = m - 1 /\ (\A i \in 1 .. m - 1 : 1 + i - 1 = i)
      /\ (1 <= m - 1 \/ m - 1 = 0)
  OBVIOUS
<1>8. Front(k) = f
  BY <1>1 DEF Front
<1> HIDE DEF f
<1>9. Len(f) = m - 1 /\ \A i \in 1 .. m - 1 : f[i] = k[i]
  BY ONLY <1>6, <1>7, m \in Nat
<1>10. Last(k) = k[m] /\ m \in 1 .. m /\ k # <<>>
  BY <1>1 DEF Last
<1>11. QED
  BY <1>1, <1>2, <1>6, <1>8, <1>9, <1>10

LEMMA KeyOfParts ==
    ASSUME NEW m \in Nat, NEW k \in Seq(Bytes), Len(k) = m,
           \A i \in 1 .. m - 1 : Len(k[i]) < 65535
    PROVE  k \in KeysOfParts(m)
  BY DEF KeysOfParts, Bytes

LEMMA KeySplits ==
    ASSUME NEW m \in Nat, m >= 1, NEW k \in KeysOfParts(m + 1)
    PROVE  \E x \in Short, t \in KeysOfParts(m) : k = <<x>> \o t
<1>1. m + 1 \in Nat /\ m + 1 >= 1 /\ (m + 1) - 1 = m
  OBVIOUS
<1>2. k \in Seq(Bytes) /\ Len(k) = m + 1 /\ k # <<>>
      /\ \A i \in 1 .. m : Len(k[i]) < 65535
  BY <1>1, KeyType DEF KeysOfParts
<1>3. PICK x \in Bytes, t \in Seq(Bytes) : k = <<x>> \o t /\ Len(t) = Len(k) - 1
  <2>1. k \in Seq(Bytes) /\ k # <<>>
    BY <1>2
  <2>2. QED
    BY <2>1, SeqSplit, Zenon
<1>4. Len(t) = m /\ k[1] = x /\ \A i \in 1 .. Len(t) : k[i + 1] = t[i]
  BY <1>2, <1>3, SeqFirst
<1>5. x \in Short
  BY <1>2, <1>4 DEF Short
<1>6. \A i \in 1 .. m - 1 : Len(t[i]) < 65535
  <2>1. \A i \in 1 .. m - 1 : i + 1 \in 1 .. m /\ i \in 1 .. Len(t)
    BY <1>4
  <2>2. QED
    BY <1>2, <1>4, <2>1
<1>7. t \in KeysOfParts(m)
  BY <1>4, <1>6, KeyOfParts
<1>8. QED
  BY <1>3, <1>5, <1>7

LEMMA KeyFirst ==
    ASSUME NEW m \in Nat, m >= 1, NEW x \in Short, NEW t \in KeysOfParts(m)
    PROVE  /\ <<x>> \o t \in KeysOfParts(m + 1)
           /\ (<<x>> \o t)[1] = x /\ \A i \in 1 .. m : (<<x>> \o t)[i + 1] = t[i]
           /\ Front(<<x>> \o t) = <<x>> \o Front(t)
           /\ Last(<<x>> \o t) = Last(t)
<1> DEFINE k == <<x>> \o t
<1>1. x \in Bytes /\ Len(x) < 65535
  BY DEF Short
<1>2. /\ t \in Seq(Bytes) /\ Len(t) = m /\ Front(t) \in Seq(Short) /\ Len(Front(t)) = m - 1
      /\ \A i \in 1 .. m - 1 : Front(t)[i] = t[i]
      /\ Last(t) = t[m]
  BY KeyType
<1>3. \A i \in 1 .. m - 1 : Len(t[i]) < 65535
  BY <1>2 DEF KeysOfParts
<1>4. /\ k \in Seq(Bytes) /\ Len(k) = Len(t) + 1 /\ k[1] = x
      /\ \A i \in 1 .. Len(t) : k[i + 1] = t[i]
  BY <1>1, <1>2, SeqFirst
<1> HIDE DEF k
<1>5. m + 1 \in Nat /\ Len(k) = m + 1 /\ (m + 1) - 1 = m /\ m + 1 >= 1
  BY <1>2, <1>4
<1>6. ASSUME NEW i \in 1 .. m PROVE Len(k[i]) < 65535
  <2>1. CASE i = 1
    BY <1>1, <1>4, <2>1
  <2>2. CASE i # 1
    <3> DEFINE j == i - 1
    <3>1. j \in 1 .. m - 1 /\ j \in 1 .. Len(t) /\ j + 1 = i
      BY <1>2, <2>2
    <3> HIDE DEF j
    <3>2. QED
      BY <1>3, <1>4, <3>1
  <2>3. QED
    BY <2>1, <2>2
<1>7. k \in KeysOfParts(m + 1)
  BY <1>4, <1>5, <1>6, KeyOfParts
<1>8. /\ Front(k) \in Seq(Short) /\ Len(Front(k)) = m
      /\ \A i \in 1 .. m : Front(k)[i] = k[i]
      /\ Last(k) = k[m + 1]
  BY <1>5, <1>7, KeyType
<1> DEFINE xf == <<x>> \o Front(t)
<1>9. /\ xf \in Seq(Short) /\ Len(xf) = Len(Front(t)) + 1 /\ xf[1] = x
      /\ \A i \in 1 .. Len(Front(t)) : xf[i + 1] = Front(t)[i]
  BY <1>2, SeqFirst
<1> HIDE DEF xf
<1>10. ASSUME NEW i \in 1 .. m PROVE Front(k)[i] = xf[i]
  <2>1. Front(k)[i] = k[i]
    BY <1>8
  <2>2. CASE i = 1
    BY <1>4, <1>9, <2>1, <2>2
  <2>3. CASE i # 1
    <3> DEFINE j == i - 1
    <3>1. j \in 1 .. m - 1 /\ j \in 1 .. Len(t) /\ j + 1 = i /\ j \in 1 .. Len(Front(t))
      BY <1>2, <2>3
    <3> HIDE DEF j
    <3>2. xf[i] = t[j] /\ k[i] = t[j]
      BY <1>2, <1>4, <1>9, <3>1
    <3>3. QED
      BY <2>1, <3>2
  <2>4. QED
    BY <2>2, <2>3
<1>11. Len(xf) = m
  BY <1>2, <1>9
<1>12. Front(k) = xf
  BY <1>8, <1>9, <1>10, <1>11, SameSeq
<1>13. k[m + 1] = t[m]
  BY <1>2, <1>4
<1>14. QED
  BY <1>2, <1>4, <1>7, <1>8, <1>12, <1>13 DEF k, xf

\* The bytes of a key.
LEMMA JoinedType ==
    ASSUME NEW m \in Nat, m >= 1, NEW k \in KeysOfParts(m)
    PROVE  joined_key(k) \in Bytes
<1> DEFINE n == to_length_prefixed_nested(Front(k))
<1>1. Front(k) \in Seq(Short) /\ Last(k) \in Bytes
  BY KeyType
<1>2. <<>> \in Short
  BY BytesEmpty DEF Short
<1>3. n \in Bytes
  BY <1>1, <1>2, NestedFirst
<1> HIDE DEF n
<1>4. n \o Last(k) \in Bytes
  BY <1>1, <1>3, BytesConcat
<1>5. QED
  BY <1>4 DEF joined_key, namespaces_with_key, n

LEMMA JoinedOne ==
    ASSUME NEW k \in KeysOfParts(1)
    PROVE  k[1] \in Bytes /\ k = <<k[1]>> /\ joined_key(k) = k[1]
<1> DEFINE m == 1
<1>0. m \in Nat /\ m >= 1 /\ k \in KeysOfParts(m)
  OBVIOUS
<1> HIDE DEF m
<1>a. /\ k \in Seq(Bytes) /\ Len(k) = m
      /\ Front(k) \in Seq(Short) /\ Len(Front(k)) = m - 1
      /\ Last(k) \in Bytes /\ Last(k) = k[m]
  BY <1>0, KeyType
<1>1. /\ k \in Seq(Bytes) /\ Len(k) = 1
      /\ Front(k) \in Seq(Short) /\ Len(Front(k)) = 0
      /\ Last(k) \in Bytes /\ Last(k) = k[1]
  BY <1>a DEF m
<1>2. Front(k) = <<>>
  BY <1>1, EmptySeq
<1>3. <<>> \in Short /\ <<>> \in Seq(Short)
  BY BytesEmpty, EmptySeq DEF Short
<1>4. to_length_prefixed_nested(<<>>) = <<>>
  BY <1>3, NestedFirst
<1>5. <<>> \o k[1] = k[1]
  BY <1>1, BytesEmpty
<1>6. joined_key(k) = k[1]
  BY <1>1, <1>2, <1>4, <1>5 DEF joined_key, namespaces_with_key
<1>7. QED
  BY <1>1, <1>6

LEMMA JoinedFirst ==
    ASSUME NEW m \in Nat, m >= 1, NEW x \in Short, NEW t \in KeysOfParts(m)
    PROVE  joined_key(<<x>> \o t) = length_prefixed_with_key(x, joined_key(t))
<1> DEFINE k == <<x>> \o t
           n == to_length_prefixed_nested(Front(t))
           h == to_length_prefixed(x)
           l == Last(t)
<1>1. Front(k) = <<x>> \o Front(t) /\ Last(k) = Last(t)
  BY KeyFirst
<1>2. Front(t) \in Seq(Short) /\ l \in Bytes
  BY KeyType
<1>3. n \in Bytes /\ h \in Bytes /\ to_length_prefixed_nested(<<x>> \o Front(t)) = h \o n
  BY <1>2, NestedFirst, PrefixedType
<1>4. joined_key(k) = to_length_prefixed_nested(Front(k)) \o Last(k)
  BY DEF joined_key, namespaces_with_key
<1>5. joined_key(t) = n \o l
  BY DEF joined_key, namespaces_with_key
<1> HIDE DEF k, n, h, l
<1>6. (h \o n) \o l = h \o (n \o l)
  BY <1>2, <1>3, ConcatAssociative DEF Bytes
<1>7. joined_key(k) = h \o joined_key(t)
  BY <1>1, <1>3, <1>4, <1>5, <1>6 DEF l
<1>8. QED
  BY <1>7 DEF k, h, length_prefixed_with_key

\* Where the key of a map is in the storage.
LEMMA PathIs ==
    ASSUME NEW m \in Nat, m >= 1, NEW ns \in Short, NEW k \in KeysOfParts(m)
    PROVE  Path(ns, k) = length_prefixed_with_key(ns, joined_key(k))
<1> DEFINE n == to_length_prefixed_nested(Front(k))
           h == to_length_prefixed(ns)
           l == Last(k)
<1>1. Front(k) \in Seq(Short) /\ l \in Bytes
  BY KeyType
<1>2. n \in Bytes /\ h \in Bytes /\ to_length_prefixed_nested(<<ns>> \o Front(k)) = h \o n
  BY <1>1, NestedFirst, PrefixedType
<1>3. Path(ns, k) = to_length_prefixed_nested(<<ns>> \o Front(k)) \o l
  BY DEF Path, nested_namespaces_with_key, namespaces_with_key
<1>4. joined_key(k) = n \o l
  BY DEF joined_key, namespaces_with_key
<1> HIDE DEF n, h, l
<1>5. (h \o n) \o l = h \o (n \o l)
  BY <1>1, <1>2, ConcatAssociative DEF Bytes
<1>6. QED
  BY <1>2, <1>3, <1>4, <1>5 DEF h, length_prefixed_with_key

\* Parts before a key are parts of a longer key.
LEMMA JoinedConcat ==
    ASSUME NEW m \in Nat, m >= 1, NEW j \in Seq(Short), NEW k \in KeysOfParts(m)
    PROVE  /\ j \o k \in KeysOfParts(Len(j) + m)
           /\ to_length_prefixed_nested(j) \o joined_key(k) = joined_key(j \o k)
<1> DEFINE Holds(u) == /\ u \o k \in KeysOfParts(Len(u) + m)
                       /\ to_length_prefixed_nested(u) \o joined_key(k) = joined_key(u \o k)
           T == {n \in Nat : \A u \in Seq(Short) : Len(u) = n => Holds(u)}
<1>0. k \in Seq(Bytes) /\ joined_key(k) \in Bytes /\ \A x \in Short : x \in Bytes
  <2>1. k \in Seq(Bytes)
    BY KeyType
  <2>2. joined_key(k) \in Bytes
    BY JoinedType
  <2>3. QED
    BY <2>1, <2>2 DEF Short
<1>1. 0 \in T
  <2>1. SUFFICES ASSUME NEW u \in Seq(Short), Len(u) = 0 PROVE Holds(u)
    OBVIOUS
  <2>2. u = <<>> /\ Len(u) + m = m
    BY <2>1, EmptySeq
  <2>3. u \o k = k
    BY <1>0, <2>2, ConcatEmptySeq
  <2>4. <<>> \in Short /\ <<>> \in Seq(Short)
    BY BytesEmpty, EmptySeq DEF Short
  <2>5. to_length_prefixed_nested(u) = <<>>
    BY <2>2, <2>4, NestedFirst
  <2>6. <<>> \o joined_key(k) = joined_key(k)
    BY <1>0, BytesEmpty
  <2>7. QED
    BY <2>2, <2>3, <2>5, <2>6
<1>2. ASSUME NEW n \in Nat, n \in T
      PROVE  n + 1 \in T
  <2>1. SUFFICES ASSUME NEW u \in Seq(Short), Len(u) = n + 1 PROVE Holds(u)
    OBVIOUS
  <2>2. u # <<>>
    BY <2>1, EmptySeq
  <2>3. PICK x \in Short, v \in Seq(Short) : u = <<x>> \o v /\ Len(v) = Len(u) - 1
    BY <2>2, SeqSplit
  <2>4. Len(v) = n
    BY <2>1, <2>3
  <2>5. Holds(v)
    BY <1>2, <2>4
  <2> DEFINE vk == v \o k
             p == n + m
  <2>6. vk \in KeysOfParts(p) /\ p \in Nat /\ p >= 1
    BY <2>4, <2>5
  <2>7. u \o k = <<x>> \o vk
    <3>1. <<x>> \in Seq(Bytes) /\ v \in Seq(Bytes)
      BY <1>0, SeqMonotonic
    <3>2. QED
      BY <1>0, <2>3, <3>1, ConcatAssociative
  <2>8. to_length_prefixed_nested(v) \in Bytes /\ to_length_prefixed(x) \in Bytes
        /\ to_length_prefixed_nested(u) = to_length_prefixed(x) \o to_length_prefixed_nested(v)
    BY <2>3, NestedFirst, PrefixedType
  <2>9. to_length_prefixed_nested(v) \o joined_key(k) = joined_key(vk)
    BY <2>5
  <2> HIDE DEF vk, p
  <2>10. <<x>> \o vk \in KeysOfParts(p + 1)
         /\ joined_key(<<x>> \o vk) = to_length_prefixed(x) \o joined_key(vk)
    BY <2>6, KeyFirst, JoinedFirst DEF length_prefixed_with_key
  <2>11. to_length_prefixed_nested(u) \o joined_key(k)
           = to_length_prefixed(x) \o (to_length_prefixed_nested(v) \o joined_key(k))
    <3> DEFINE a == to_length_prefixed(x)
               b == to_length_prefixed_nested(v)
               c == joined_key(k)
    <3>1. a \in Bytes /\ b \in Bytes /\ c \in Bytes
      BY <1>0, <2>8
    <3>2. to_length_prefixed_nested(u) = a \o b
      BY <2>8
    <3> HIDE DEF a, b, c
    <3>3. (a \o b) \o c = a \o (b \o c)
      BY <3>1, BytesAssociative
    <3>4. QED
      BY <3>2, <3>3 DEF a, b, c
  <2>12. p + 1 = Len(u) + m
    BY <2>1 DEF p
  <2>13. QED
    BY <2>7, <2>9, <2>10, <2>11, <2>12
<1> HIDE DEF T
<1>3. \A n \in Nat : n \in T
  BY <1>1, <1>2, SetInduction
<1>4. Len(j) \in T
  BY <1>3
<1>5. QED
  BY <1>4 DEF T

-----------------------------------------------------------------------------
(* The order of keys is the order of their bytes.                          *)
\* The keys have the same parts up to the i-th, which makes the difference.
KeyAt(j, k, i) ==
    /\ \A n \in 1 .. i - 1 : j[n] = k[n]
    /\ IF i = Len(j) THEN BytesBefore(j[i], k[i]) ELSE PartBefore(j[i], k[i])

LEMMA KeyBeforeAt ==
    ASSUME NEW m \in Nat, m >= 1, NEW j \in KeysOfParts(m), NEW k \in KeysOfParts(m)
    PROVE  KeyBefore(j, k) <=> \E i \in 1 .. m : KeyAt(j, k, i)
<1>1. j \in Seq(Bytes) /\ Len(j) = m /\ k \in Seq(Bytes) /\ Len(k) = m
  BY DEF KeysOfParts, Bytes
<1>2. ASSUME NEW i \in 1 .. m
      PROVE  SubSeq(j, 1, i - 1) = SubSeq(k, 1, i - 1) <=> \A n \in 1 .. i - 1 : j[n] = k[n]
  <2>1. i - 1 \in Nat /\ i - 1 <= Len(j) /\ i - 1 <= Len(k)
    BY <1>1
  <2>2. QED
    BY <1>1, <2>1, SameStart
<1>3. QED
  BY <1>1, <1>2 DEF KeyBefore, KeyAt

LEMMA KeyBeforeOne ==
    ASSUME NEW j \in KeysOfParts(1), NEW k \in KeysOfParts(1)
    PROVE  KeyBefore(j, k) <=> BytesBefore(j[1], k[1])
<1> DEFINE m == 1
<1>1. m \in Nat /\ m >= 1 /\ j \in KeysOfParts(m) /\ k \in KeysOfParts(m) /\ m = 1
  OBVIOUS
<1> HIDE DEF m
<1>2. KeyBefore(j, k) <=> \E i \in 1 .. m : KeyAt(j, k, i)
  BY <1>1, KeyBeforeAt
<1>3. Len(j) = 1 /\ (\A i \in 1 .. m : i = 1) /\ 1 \in 1 .. m /\ \A n \in 1 .. 1 - 1 : FALSE
  BY <1>1 DEF KeysOfParts
<1>4. KeyAt(j, k, 1) <=> BytesBefore(j[1], k[1])
  BY <1>3 DEF KeyAt
<1>5. QED
  BY <1>2, <1>3, <1>4

LEMMA KeyBeforeFirst ==
    ASSUME NEW m \in Nat, m >= 1, NEW x \in Short, NEW y \in Short,
           NEW s \in KeysOfParts(m), NEW t \in KeysOfParts(m)
    PROVE  KeyBefore(<<x>> \o s, <<y>> \o t) <=> PartBefore(x, y) \/ (x = y /\ KeyBefore(s, t))
<1> DEFINE j == <<x>> \o s
           k == <<y>> \o t
<1>1. /\ j \in KeysOfParts(m + 1) /\ j[1] = x /\ \A i \in 1 .. m : j[i + 1] = s[i]
      /\ k \in KeysOfParts(m + 1) /\ k[1] = y /\ \A i \in 1 .. m : k[i + 1] = t[i]
  BY KeyFirst
<1> HIDE DEF j, k
<1>2. Len(s) = m /\ Len(j) = m + 1 /\ m + 1 \in Nat /\ m + 1 >= 1
  BY <1>1 DEF KeysOfParts
<1>3. KeyBefore(j, k) <=> \E i \in 1 .. m + 1 : KeyAt(j, k, i)
  BY <1>1, <1>2, KeyBeforeAt
<1>4. KeyBefore(s, t) <=> \E i \in 1 .. m : KeyAt(s, t, i)
  BY KeyBeforeAt
<1>5. KeyAt(j, k, 1) <=> PartBefore(x, y)
  <2>1. 1 # m + 1 /\ \A n \in 1 .. 1 - 1 : FALSE
    OBVIOUS
  <2>2. QED
    BY <1>1, <1>2, <2>1 DEF KeyAt
<1>6. ASSUME NEW i \in 1 .. m
      PROVE  KeyAt(j, k, i + 1) <=> x = y /\ KeyAt(s, t, i)
  <2> DEFINE Same == \A n \in 1 .. i - 1 : s[n] = t[n]
  <2>1. (\A n \in 1 .. (i + 1) - 1 : j[n] = k[n]) <=> x = y /\ Same
    <3>1. ASSUME \A n \in 1 .. (i + 1) - 1 : j[n] = k[n]
          PROVE  x = y /\ Same
      <4>1. 1 \in 1 .. (i + 1) - 1
        OBVIOUS
      <4>2. \A n \in 1 .. i - 1 : n \in 1 .. m /\ n + 1 \in 1 .. (i + 1) - 1
        OBVIOUS
      <4>3. QED
        BY <1>1, <3>1, <4>1, <4>2
    <3>2. ASSUME x = y, Same, NEW n \in 1 .. (i + 1) - 1
          PROVE  j[n] = k[n]
      <4>1. CASE n = 1
        BY <1>1, <3>2, <4>1
      <4>2. CASE n # 1
        <5>1. n - 1 \in 1 .. i - 1 /\ n - 1 \in 1 .. m /\ (n - 1) + 1 = n
          BY <4>2
        <5>2. j[n] = s[n - 1] /\ k[n] = t[n - 1] /\ s[n - 1] = t[n - 1]
          BY <1>1, <3>2, <5>1
        <5>3. QED
          BY <5>2
      <4>3. QED
        BY <4>1, <4>2
    <3>3. QED
      BY <3>1, <3>2
  <2>2. (i + 1 = Len(j)) <=> (i = Len(s))
    BY <1>2
  <2>3. j[i + 1] = s[i] /\ k[i + 1] = t[i]
    BY <1>1
  <2> DEFINE Differ == IF i = Len(s) THEN BytesBefore(s[i], t[i]) ELSE PartBefore(s[i], t[i])
  <2>4. KeyAt(s, t, i) <=> Same /\ Differ
    BY DEF KeyAt
  <2>5. KeyAt(j, k, i + 1) <=> (\A n \in 1 .. (i + 1) - 1 : j[n] = k[n]) /\ Differ
    BY <2>2, <2>3 DEF KeyAt
  <2> HIDE DEF Same, Differ
  <2>6. QED
    BY <2>1, <2>4, <2>5
<1>7. (\E i \in 1 .. m + 1 : KeyAt(j, k, i))
        <=> KeyAt(j, k, 1) \/ \E i \in 1 .. m : KeyAt(j, k, i + 1)
  <2>1. ASSUME NEW i \in 1 .. m + 1, KeyAt(j, k, i)
        PROVE  KeyAt(j, k, 1) \/ \E n \in 1 .. m : KeyAt(j, k, n + 1)
    <3>1. CASE i = 1
      BY <2>1, <3>1
    <3>2. CASE i # 1
      <4>1. i - 1 \in 1 .. m /\ (i - 1) + 1 = i
        BY <3>2
      <4>2. QED
        BY <2>1, <4>1
    <3>3. QED
      BY <3>1, <3>2
  <2>2. 1 \in 1 .. m + 1 /\ \A i \in 1 .. m : i + 1 \in 1 .. m + 1
    OBVIOUS
  <2>3. QED
    BY <2>1, <2>2
<1>8. QED
  BY <1>3, <1>4, <1>5, <1>6, <1>7 DEF j, k

\* Keys of as many parts order as their bytes do, and have different bytes.
LEMMA JoinedOrder ==
    ASSUME NEW m \in Nat, m >= 1, NEW j \in KeysOfParts(m), NEW k \in KeysOfParts(m)
    PROVE  /\ joined_key(j) = joined_key(k) => j = k
           /\ BytesBefore(joined_key(j), joined_key(k)) <=> KeyBefore(j, k)
<1> DEFINE Holds(s, t) == /\ joined_key(s) = joined_key(t) => s = t
                          /\ BytesBefore(joined_key(s), joined_key(t)) <=> KeyBefore(s, t)
           T == {n \in Nat : \A s, t \in KeysOfParts(n + 1) : Holds(s, t)}
<1>1. 0 \in T
  <2>1. SUFFICES ASSUME NEW s \in KeysOfParts(1), NEW t \in KeysOfParts(1) PROVE Holds(s, t)
    OBVIOUS
  <2>2. s = <<s[1]>> /\ joined_key(s) = s[1] /\ t = <<t[1]>> /\ joined_key(t) = t[1]
    BY JoinedOne
  <2>3. KeyBefore(s, t) <=> BytesBefore(s[1], t[1])
    BY KeyBeforeOne
  <2>4. QED
    BY <2>2, <2>3
<1>2. ASSUME NEW n \in Nat, n \in T
      PROVE  n + 1 \in T
  <2> DEFINE p == n + 1
  <2>1. SUFFICES ASSUME NEW s \in KeysOfParts(p + 1), NEW t \in KeysOfParts(p + 1)
                 PROVE  Holds(s, t)
    OBVIOUS
  <2>2. p \in Nat /\ p >= 1 /\ \A u, v \in KeysOfParts(p) : Holds(u, v)
    BY <1>2
  <2> HIDE DEF p, Holds
  <2>3. PICK x \in Short, u \in KeysOfParts(p) : s = <<x>> \o u
    BY <2>2, KeySplits
  <2>4. PICK y \in Short, v \in KeysOfParts(p) : t = <<y>> \o v
    BY <2>2, KeySplits
  <2>5. /\ joined_key(s) = length_prefixed_with_key(x, joined_key(u))
        /\ joined_key(t) = length_prefixed_with_key(y, joined_key(v))
    BY <2>2, <2>3, <2>4, JoinedFirst
  <2>6. joined_key(u) \in Bytes /\ joined_key(v) \in Bytes
    BY <2>2, JoinedType
  <2>7. KeyBefore(s, t) <=> PartBefore(x, y) \/ (x = y /\ KeyBefore(u, v))
    BY <2>2, <2>3, <2>4, KeyBeforeFirst
  <2>8. Holds(u, v)
    BY <2>2
  <2>9. joined_key(u) = joined_key(v) => u = v
    BY <2>8 DEF Holds
  <2>10. BytesBefore(joined_key(u), joined_key(v)) <=> KeyBefore(u, v)
    BY <2>8 DEF Holds
  <2>11. joined_key(s) = joined_key(t) => x = y /\ joined_key(u) = joined_key(v)
    <3> DEFINE a == joined_key(u)
               b == joined_key(v)
    <3>1. a \in Bytes /\ b \in Bytes
      BY <2>6
    <3> HIDE DEF a, b
    <3>2. length_prefixed_with_key(x, a) = length_prefixed_with_key(y, b) => x = y /\ a = b
      BY ONLY <3>1, x \in Short, y \in Short, PrefixedOrder
    <3>3. QED
      BY <2>5, <3>2 DEF a, b
  <2>12. BytesBefore(joined_key(s), joined_key(t))
           <=> PartBefore(x, y) \/ (x = y /\ BytesBefore(joined_key(u), joined_key(v)))
    BY <2>5, <2>6, PrefixedOrder
  <2>13. joined_key(s) = joined_key(t) => s = t
    BY <2>3, <2>4, <2>9, <2>11
  <2>14. BytesBefore(joined_key(s), joined_key(t)) <=> KeyBefore(s, t)
    BY <2>7, <2>10, <2>12
  <2>15. QED
    BY <2>13, <2>14 DEF Holds
<1> HIDE DEF T, Holds
<1>3. \A n \in Nat : n \in T
  BY <1>1, <1>2, SetInduction
<1>4. m - 1 \in T /\ (m - 1) + 1 = m
  BY <1>3
<1>5. Holds(j, k)
  BY <1>4 DEF T
<1>6. QED
  BY <1>5 DEF Holds

-----------------------------------------------------------------------------
(* Reading after writing.                                                  *)
\* A storage holds finitely many records, and nothing is no value.
Storage(s) ==
    /\ s = [x \in DOMAIN s |-> s[x]]
    /\ IsFiniteSet(DOMAIN s)
    /\ \A x \in DOMAIN s : s[x] # None

\* One path reads differently.
Differs(s, t, path, value) ==
    /\ Storage(t)
    /\ DOMAIN t \subseteq DOMAIN s \cup {path}
    /\ \A x : get(t, x) = IF x = path THEN value ELSE get(s, x)

LEMMA SetReads ==
    ASSUME NEW s, Storage(s), NEW path, NEW value, value # None
    PROVE  Differs(s, set(s, path, value), path, value)
<1> DEFINE t == set(s, path, value)
<1>1. t = [x \in DOMAIN s \cup {path} |-> IF x = path THEN value ELSE s[x]]
  BY DEF set
<1>2. DOMAIN t = DOMAIN s \cup {path} /\ t = [x \in DOMAIN t |-> t[x]]
      /\ \A x \in DOMAIN t : t[x] = IF x = path THEN value ELSE s[x]
  BY <1>1
<1> HIDE DEF t
<1>3. IsFiniteSet(DOMAIN t)
  <2>1. IsFiniteSet(DOMAIN s)
    BY DEF Storage
  <2>2. IsFiniteSet(DOMAIN s \cup {path})
    BY <2>1, FS_AddElement
  <2>3. DOMAIN t = DOMAIN s \cup {path}
    BY <1>2
  <2>4. QED
    BY <2>2, <2>3
<1>4. Storage(t)
  BY <1>2, <1>3 DEF Storage
<1>5. \A x : get(t, x) = IF x = path THEN value ELSE get(s, x)
  BY <1>2 DEF get
<1>6. QED
  BY <1>2, <1>4, <1>5 DEF Differs, t

LEMMA RemoveReads ==
    ASSUME NEW s, Storage(s), NEW path
    PROVE  Differs(s, remove(s, path), path, None)
<1> DEFINE t == remove(s, path)
<1>1. t = [x \in DOMAIN s \ {path} |-> s[x]]
  BY DEF remove
<1>2. DOMAIN t = DOMAIN s \ {path} /\ t = [x \in DOMAIN t |-> t[x]]
      /\ \A x \in DOMAIN t : t[x] = s[x]
  BY <1>1
<1> HIDE DEF t
<1>3. IsFiniteSet(DOMAIN t)
  BY <1>2, FS_Subset DEF Storage
<1>4. Storage(t)
  BY <1>2, <1>3 DEF Storage
<1>5. \A x : get(t, x) = IF x = path THEN None ELSE get(s, x)
  BY <1>2 DEF get
<1>6. QED
  BY <1>2, <1>4, <1>5 DEF Differs, t

LEMMA HasIs ==
    ASSUME NEW s, Storage(s), NEW path
    PROVE  has(s, path) <=> get(s, path) # None
  BY DEF Storage, has, get

-----------------------------------------------------------------------------
(* The members of a finite set one after another.                          *)
\* A strict total order, as the set of its pairs.
TotalOn(S, R) ==
    /\ \A x \in S : <<x, x>> \notin R
    /\ \A x, y \in S : x = y \/ <<x, y>> \in R \/ <<y, x>> \in R
    /\ \A x, y, z \in S : <<x, y>> \in R /\ <<y, z>> \in R => <<x, z>> \in R

LowerIn(S, R, x) == {y \in S : <<y, x>> \in R}

\* InOrder, of an order that is a set of pairs.
Ranked(S, R) ==
    [i \in 1 .. Cardinality(S) |-> CHOOSE x \in S : Cardinality(LowerIn(S, R, x)) = i - 1]

\* Each member has a rank of its own, and each rank a member.
LEMMA RankOf ==
    ASSUME NEW S, IsFiniteSet(S), NEW R, TotalOn(S, R)
    PROVE  /\ Cardinality(S) \in Nat
           /\ \A x \in S : Cardinality(LowerIn(S, R, x)) \in 0 .. Cardinality(S) - 1
           /\ \A x, y \in S : <<x, y>> \in R =>
                Cardinality(LowerIn(S, R, x)) < Cardinality(LowerIn(S, R, y))
           /\ \A i \in 1 .. Cardinality(S) : \E x \in S : Cardinality(LowerIn(S, R, x)) = i - 1
<1> DEFINE n == Cardinality(S)
           L(x) == LowerIn(S, R, x)
           r(x) == Cardinality(L(x))
<1>1. n \in Nat
  BY FS_CardinalityType
<1>2. ASSUME NEW x \in S
      PROVE  /\ L(x) \subseteq S /\ x \notin L(x)
             /\ IsFiniteSet(L(x)) /\ r(x) \in Nat
             /\ IsFiniteSet(L(x) \cup {x}) /\ Cardinality(L(x) \cup {x}) = r(x) + 1
  <2>1. L(x) \in SUBSET S /\ x \notin L(x)
    BY DEF LowerIn, TotalOn
  <2>2. IsFiniteSet(L(x))
    BY <2>1, FS_Subset
  <2>3. r(x) \in Nat
    BY <2>2, FS_CardinalityType
  <2>4. IsFiniteSet(L(x) \cup {x}) /\ Cardinality(L(x) \cup {x}) = r(x) + 1
    <3> HIDE DEF L
    <3>1. QED
      BY <2>1, <2>2, FS_AddElement
  <2>5. QED
    BY <2>1, <2>2, <2>3, <2>4
<1>3. ASSUME NEW x \in S
      PROVE  r(x) \in 0 .. n - 1
  <2>1. L(x) \cup {x} \in SUBSET S
    BY <1>2
  <2>2. Cardinality(L(x) \cup {x}) <= n
    <3> HIDE DEF L
    <3>1. QED
      BY <2>1, FS_Subset
  <2>3. r(x) \in Nat /\ Cardinality(L(x) \cup {x}) = r(x) + 1
    BY <1>2
  <2> HIDE DEF r, n
  <2>4. QED
    BY <1>1, <2>2, <2>3
<1>4. ASSUME NEW x \in S, NEW y \in S, <<x, y>> \in R
      PROVE  r(x) < r(y)
  <2>1. L(x) \cup {x} \in SUBSET L(y)
    BY <1>4 DEF LowerIn, TotalOn
  <2>2. IsFiniteSet(L(y)) /\ r(x) \in Nat /\ r(y) \in Nat /\ Cardinality(L(x) \cup {x}) = r(x) + 1
    BY <1>2
  <2>3. Cardinality(L(x) \cup {x}) <= r(y)
    <3> HIDE DEF L
    <3>1. QED
      BY <2>1, <2>2, FS_Subset
  <2> HIDE DEF r
  <2>4. QED
    BY <2>2, <2>3
<1> DEFINE f == [x \in S |-> r(x) + 1]
<1>5. \A x \in S : f[x] = r(x) + 1
  OBVIOUS
<1> HIDE DEF r, n
<1>6. f \in [S -> 1 .. n]
  <2>1. \A x \in S : r(x) + 1 \in 1 .. n
    BY <1>1, <1>3
  <2>2. QED
    BY <2>1
<1>7. \A x, y \in S : f[x] = f[y] => x = y
  <2>1. ASSUME NEW x \in S, NEW y \in S, f[x] = f[y], x # y
        PROVE  FALSE
    <3>1. r(x) < r(y) \/ r(y) < r(x)
      BY <1>4, <2>1 DEF TotalOn
    <3>2. r(x) \in Nat /\ r(y) \in Nat /\ r(x) + 1 = r(y) + 1
      BY <1>3, <1>5, <2>1
    <3>3. QED
      BY <3>1, <3>2
  <2>2. QED
    BY <2>1
<1> HIDE DEF f
<1>8. f \in Injection(S, 1 .. n)
  BY <1>6, <1>7 DEF Injection, IsInjective
<1>9. IsFiniteSet(1 .. n) /\ Cardinality(1 .. n) = n
  BY <1>1, FS_Interval
<1>10. f \in Surjection(S, 1 .. n)
  BY <1>8, <1>9, FS_Injection DEF n
<1>11. \A i \in 1 .. n : \E x \in S : r(x) = i - 1
  <2>1. ASSUME NEW i \in 1 .. n
        PROVE  \E x \in S : r(x) = i - 1
    <3>1. PICK x \in S : f[x] = i
      BY <1>10 DEF Surjection
    <3>2. r(x) \in Nat /\ r(x) + 1 = i /\ i \in Nat
      BY <1>1, <1>3, <1>5, <3>1
    <3>3. QED
      BY <3>2
  <2>2. QED
    BY <2>1
<1>12. QED
  BY <1>1, <1>3, <1>4, <1>11 DEF r, n

\* The list has every member once, the lesser first.
LEMMA RankedList ==
    ASSUME NEW S, IsFiniteSet(S), NEW R, TotalOn(S, R)
    PROVE  /\ Cardinality(S) \in Nat
           /\ Ranked(S, R) \in [1 .. Cardinality(S) -> S]
           /\ \A x \in S : \E i \in 1 .. Cardinality(S) : Ranked(S, R)[i] = x
           /\ \A i, j \in 1 .. Cardinality(S) : i < j <=> <<Ranked(S, R)[i], Ranked(S, R)[j]>> \in R
           /\ \A i \in 1 .. Cardinality(S), x \in S :
                Cardinality(LowerIn(S, R, x)) = i - 1 => Ranked(S, R)[i] = x
<1> DEFINE n == Cardinality(S)
           r(x) == Cardinality(LowerIn(S, R, x))
           l == Ranked(S, R)
<1>1. /\ n \in Nat
      /\ \A x \in S : r(x) \in 0 .. n - 1
      /\ \A x, y \in S : <<x, y>> \in R => r(x) < r(y)
      /\ \A i \in 1 .. n : \E x \in S : r(x) = i - 1
  BY RankOf
<1>2. l = [i \in 1 .. n |-> CHOOSE x \in S : r(x) = i - 1]
  BY DEF Ranked
<1> HIDE DEF n, r, l
<1>3. \A i \in 1 .. n : l[i] \in S /\ r(l[i]) = i - 1
  BY <1>1, <1>2
<1>4. l \in [1 .. n -> S]
  BY <1>2, <1>3
<1>5. \A x, y \in S : r(x) = r(y) => x = y
  <2>1. ASSUME NEW x \in S, NEW y \in S, r(x) = r(y), x # y
        PROVE  FALSE
    <3>1. r(x) < r(y) \/ r(y) < r(x)
      BY <1>1, <2>1 DEF TotalOn
    <3>2. r(x) \in Nat /\ r(y) \in Nat
      BY <1>1
    <3>3. QED
      BY <2>1, <3>1, <3>2
  <2>2. QED
    BY <2>1
<1>6. \A i \in 1 .. n, x \in S : r(x) = i - 1 => l[i] = x
  BY <1>3, <1>5
<1>7. \A x \in S : \E i \in 1 .. n : l[i] = x
  <2>1. ASSUME NEW x \in S
        PROVE  \E i \in 1 .. n : l[i] = x
    <3>1. r(x) + 1 \in 1 .. n /\ r(x) = (r(x) + 1) - 1
      BY <1>1
    <3>2. QED
      BY <1>6, <3>1
  <2>2. QED
    BY <2>1
<1>8. \A i, j \in 1 .. n : i < j <=> <<l[i], l[j]>> \in R
  <2>1. ASSUME NEW i \in 1 .. n, NEW j \in 1 .. n
        PROVE  i < j <=> <<l[i], l[j]>> \in R
    <3>1. l[i] \in S /\ l[j] \in S /\ r(l[i]) = i - 1 /\ r(l[j]) = j - 1
      BY <1>3
    <3>2. <<l[i], l[j]>> \in R => i < j
      BY <1>1, <3>1
    <3>3. <<l[j], l[i]>> \in R => j < i
      BY <1>1, <3>1
    <3>4. i < j => l[i] # l[j]
      <4>1. SUFFICES ASSUME i < j, l[i] = l[j] PROVE FALSE
        OBVIOUS
      <4>2. i - 1 = j - 1
        BY <3>1, <4>1
      <4>3. QED
        BY <1>1, <4>1, <4>2
    <3>5. QED
      BY <1>1, <3>1, <3>2, <3>3, <3>4 DEF TotalOn
  <2>2. QED
    BY <2>1
<1>9. QED
  BY <1>1, <1>4, <1>6, <1>7, <1>8 DEF n, r, l

\* The image of a set under a function that keeps the order is listed as the set is.
LEMMA RankedImage ==
    ASSUME NEW S, IsFiniteSet(S), NEW R, TotalOn(S, R), NEW T, NEW Q, TotalOn(T, Q),
           NEW f \in [S -> T], \A y \in T : \E x \in S : f[x] = y,
           \A x, y \in S : <<x, y>> \in R <=> <<f[x], f[y]>> \in Q
    PROVE  /\ IsFiniteSet(T) /\ Cardinality(T) = Cardinality(S)
           /\ Ranked(T, Q) = [i \in 1 .. Cardinality(S) |-> f[Ranked(S, R)[i]]]
<1>1. \A x, y \in S : f[x] = f[y] => x = y
  BY DEF TotalOn
<1>2. f \in Bijection(S, T)
  BY <1>1 DEF Bijection, Injection, IsInjective, Surjection
<1>3. ExistsBijection(S, T)
  BY <1>2 DEF ExistsBijection
<1>4. IsFiniteSet(T) /\ Cardinality(T) = Cardinality(S)
  BY <1>3, FS_Bijection
<1> DEFINE n == Cardinality(S)
           l == Ranked(S, R)
           m == Ranked(T, Q)
<1>5. ASSUME NEW x \in S
      PROVE  Cardinality(LowerIn(T, Q, f[x])) = Cardinality(LowerIn(S, R, x))
  <2> DEFINE A == LowerIn(S, R, x)
             B == LowerIn(T, Q, f[x])
             g == [y \in A |-> f[y]]
  <2>1. \A y \in S : y \in A <=> <<y, x>> \in R
    BY DEF LowerIn
  <2>2. \A y \in T : y \in B <=> <<y, f[x]>> \in Q
    BY DEF LowerIn
  <2>3. A \in SUBSET S /\ B \subseteq T
    BY DEF LowerIn
  <2> HIDE DEF A, B
  <2>4. g \in [A -> B]
    BY <2>1, <2>2, <2>3
  <2>5. \A y, z \in A : g[y] = g[z] => y = z
    BY <1>1, <2>3
  <2>6. \A z \in B : \E y \in A : g[y] = z
    BY <2>1, <2>2, <2>3
  <2>7. g \in Bijection(A, B)
    <3> HIDE DEF g
    <3>1. QED
      BY <2>4, <2>5, <2>6 DEF Bijection, Injection, IsInjective, Surjection
  <2>8. ExistsBijection(A, B)
    BY <2>7 DEF ExistsBijection
  <2>9. IsFiniteSet(A)
    BY <2>3, FS_Subset
  <2>10. Cardinality(B) = Cardinality(A)
    BY <2>8, <2>9, FS_Bijection
  <2>11. QED
    BY <2>10 DEF A, B
<1>6. /\ n \in Nat
      /\ \A x \in S : Cardinality(LowerIn(S, R, x)) \in 0 .. n - 1
      /\ \A i \in 1 .. n : \E x \in S : Cardinality(LowerIn(S, R, x)) = i - 1
  BY RankOf
<1>7. \A i \in 1 .. n, x \in S : Cardinality(LowerIn(S, R, x)) = i - 1 => l[i] = x
  BY RankedList
<1>8. /\ m \in [1 .. n -> T]
      /\ \A i \in 1 .. n, y \in T : Cardinality(LowerIn(T, Q, y)) = i - 1 => m[i] = y
  BY <1>4, RankedList
<1> HIDE DEF n, l, m
<1>9. \A i \in 1 .. n : m[i] = f[l[i]]
  <2>1. ASSUME NEW i \in 1 .. n
        PROVE  m[i] = f[l[i]]
    <3>1. PICK x \in S : Cardinality(LowerIn(S, R, x)) = i - 1
      BY <1>6
    <3>2. l[i] = x
      BY <1>7, <3>1
    <3>3. m[i] = f[x]
      BY <1>5, <1>8, <3>1
    <3>4. QED
      BY <3>2, <3>3
  <2>2. QED
    BY <2>1
<1>10. m = [i \in 1 .. n |-> f[l[i]]]
  BY <1>8, <1>9
<1>11. QED
  BY <1>4, <1>10 DEF n, l, m

-----------------------------------------------------------------------------
(* Incrementing the last byte that can be.                                 *)
\* Where a byte string is incremented: behind it there are only bytes 255.
CarriedAt(e, i) == /\ i \in 1 .. Len(e) /\ e[i] # 255
                   /\ \A j \in i + 1 .. Len(e) : e[j] = 255

LEMMA CarriedExists ==
    ASSUME NEW e \in Bytes, \E i \in 1 .. Len(e) : e[i] # 255
    PROVE  \E i \in 1 .. Len(e) : CarriedAt(e, i)
<1> DEFINE T == {n \in Nat : n <= Len(e) /\ \A j \in Len(e) - n + 1 .. Len(e) : e[j] = 255}
<1>1. Len(e) \in Nat
  BY BytesType
<1>2. PICK n \in Nat : n \in T /\ n + 1 \notin T
  <2>1. SUFFICES ASSUME \A n \in Nat : n \in T => n + 1 \in T PROVE FALSE
    OBVIOUS
  <2>2. 0 \in T
    BY <1>1
  <2> HIDE DEF T
  <2>3. \A n \in Nat : n \in T
    BY <2>1, <2>2, SetInduction
  <2>4. Len(e) \in T
    BY <1>1, <2>3
  <2>5. QED
    BY <1>1, <2>4 DEF T
<1>3. n <= Len(e) /\ \A j \in Len(e) - n + 1 .. Len(e) : e[j] = 255
  BY <1>2
<1>4. n < Len(e)
  <2>1. SUFFICES ASSUME n = Len(e) PROVE FALSE
    BY <1>1, <1>3
  <2>2. QED
    BY <1>1, <1>3, <2>1
<1> DEFINE i == Len(e) - n
<1>5. i \in 1 .. Len(e) /\ n + 1 <= Len(e)
  BY <1>1, <1>4
<1>6. \E j \in Len(e) - (n + 1) + 1 .. Len(e) : e[j] # 255
  BY <1>2, <1>5
<1>7. PICK j \in i .. Len(e) : e[j] # 255
  BY <1>1, <1>6
<1>8. j = i
  BY <1>1, <1>3, <1>7
<1>9. CarriedAt(e, i)
  BY <1>1, <1>3, <1>5, <1>7, <1>8 DEF CarriedAt
<1>10. QED
  BY <1>5, <1>9

LEMMA IncrementIs ==
    ASSUME NEW e \in Bytes, NEW i, CarriedAt(e, i)
    PROVE  /\ increment_last_byte(e) \in Bytes /\ Len(increment_last_byte(e)) = Len(e)
           /\ \A j \in 1 .. Len(e) : increment_last_byte(e)[j] =
                IF j < i THEN e[j] ELSE IF j = i THEN e[i] + 1 ELSE 0
<1> DEFINE C == {j \in 1 .. Len(e) : e[j] # 255}
           n == Len(e)
           h(j) == IF j < i THEN e[j] ELSE IF j = i THEN e[i] + 1 ELSE 0
<1>1. n \in Nat /\ \A j \in 1 .. n : e[j] \in Nat /\ e[j] <= 255
  BY BytesType
<1>2. i \in 1 .. n /\ e[i] # 255 /\ \A j \in i + 1 .. n : e[j] = 255
  BY DEF CarriedAt
<1>3. i \in C /\ \A j \in C : j \in Int /\ i >= j
  BY <1>1, <1>2
<1>4. C # {}
  BY <1>3
<1>5. Max(C) = i
  <2> HIDE DEF C
  <2>1. \A x \in C : (\A y \in C : x >= y) => x = i
    BY <1>1, <1>2, <1>3
  <2>2. QED
    BY <1>3, <2>1 DEF Max
<1>6. increment_last_byte(e) = [j \in 1 .. n |-> h(j)]
  <2>1. increment_last_byte(e) = [j \in 1 .. n |-> IF j < Max(C) THEN e[j] ELSE IF j = Max(C) THEN e[j] + 1 ELSE 0]
    BY <1>4 DEF increment_last_byte
  <2> HIDE DEF C
  <2>2. \A j \in 1 .. n : (IF j < Max(C) THEN e[j] ELSE IF j = Max(C) THEN e[j] + 1 ELSE 0) = h(j)
    BY <1>5
  <2>3. QED
    BY <2>1, <2>2
<1>7. \A j \in 1 .. n : h(j) \in Byte
  <2>1. ASSUME NEW j \in 1 .. n
        PROVE  h(j) \in Byte
    <3>1. e[j] \in 0 .. 255 /\ e[i] + 1 \in 0 .. 255
      <4>1. e[i] \in Nat /\ e[i] <= 255 /\ e[i] # 255
        BY <1>1, <1>2
      <4>2. e[j] \in Nat /\ e[j] <= 255
        BY <1>1
      <4>3. \A a, b \in Nat : a <= 255 /\ a # 255 /\ b <= 255 => b \in 0 .. 255 /\ a + 1 \in 0 .. 255
        OBVIOUS
      <4>4. QED
        BY <4>1, <4>2, <4>3
    <3>2. 0 \in 0 .. 255
      OBVIOUS
    <3>3. QED
      BY <3>1, <3>2 DEF Byte
  <2>2. QED
    BY <2>1
<1>8. \A j \in 1 .. n : increment_last_byte(e)[j] = h(j)
  BY <1>6
<1>9. increment_last_byte(e) \in Bytes /\ Len(increment_last_byte(e)) = n
  <2> HIDE DEF h, n
  <2>1. [j \in 1 .. n |-> h(j)] \in [1 .. n -> Byte]
    BY <1>7
  <2>2. [j \in 1 .. n |-> h(j)] \in Seq(Byte) /\ Len([j \in 1 .. n |-> h(j)]) = n
    BY <1>1, <2>1
  <2>3. QED
    BY <1>6, <2>2 DEF Bytes
<1>10. QED
  BY <1>8, <1>9

\* A byte string that is not shorter comes before the increment when it begins with
\* the string or comes before it.
LEMMA IncrementBound ==
    ASSUME NEW e \in Bytes, NEW i, CarriedAt(e, i), NEW y \in Bytes, NEW x \in Bytes,
           Len(y) = Len(e)
    PROVE  BytesBefore(y \o x, increment_last_byte(e)) <=> y = e \/ BytesBefore(y, e)
<1> DEFINE n == Len(e)
           d == increment_last_byte(e)
           r == y \o x
<1>1. n \in Nat /\ (\A j \in 1 .. n : e[j] \in Nat /\ e[j] <= 255) /\ Len(y) = n /\ Len(x) \in Nat
      /\ (\A j \in 1 .. n : y[j] \in Nat /\ y[j] <= 255)
  BY BytesType
<1>2. i \in 1 .. n /\ e[i] # 255 /\ \A j \in i + 1 .. n : e[j] = 255
  BY DEF CarriedAt
<1>3. d \in Bytes /\ Len(d) = n
      /\ \A j \in 1 .. n : d[j] = IF j < i THEN e[j] ELSE IF j = i THEN e[i] + 1 ELSE 0
  BY IncrementIs
<1>4. r \in Bytes /\ Len(r) = n + Len(x) /\ \A j \in 1 .. n : r[j] = y[j]
  <2>1. /\ r \in Bytes /\ Len(r) = Len(y) + Len(x)
        /\ \A j \in 1 .. Len(y) : r[j] = y[j]
    BY BytesConcat
  <2> HIDE DEF r, n
  <2>2. QED
    BY <1>1, <2>1
<1> HIDE DEF d, r, n
<1>5. ASSUME BytesBefore(r, d)
      PROVE  y = e \/ BytesBefore(y, e)
  <2>1. PICK k \in 1 .. n : Below(r, d, k)
    BY <1>3, <1>4, <1>5, BeforeAt
  <2>2. k <= Len(r) /\ r[k] < d[k] /\ \A j \in 1 .. k - 1 : r[j] = d[j]
    BY <1>1, <1>4, <2>1 DEF Below
  <2>3. y[k] < d[k] /\ \A j \in 1 .. k - 1 : y[j] = d[j]
    BY <1>1, <1>4, <2>2
  <2>4. k <= i
    BY <1>1, <1>2, <1>3, <2>3
  <2>5. \A j \in 1 .. k - 1 : y[j] = e[j]
    BY <1>1, <1>2, <1>3, <2>3, <2>4
  <2>6. CASE y[k] < e[k]
    <3>1. Below(y, e, k)
      BY <1>1, <2>5, <2>6 DEF Below, n
    <3>2. QED
      BY <3>1, BeforeAt DEF n
  <2>7. CASE ~(y[k] < e[k])
    <3>1. k = i /\ y[i] = e[i]
      BY <1>1, <1>2, <1>3, <2>3, <2>4, <2>7
    <3>2. SUFFICES ASSUME y # e PROVE BytesBefore(y, e)
      OBVIOUS
    <3>3. PICK m \in 1 .. n + 1 : Below(y, e, m) \/ Below(e, y, m)
      BY <1>1, <3>2, FirstDifference
    <3>4. CASE Below(y, e, m)
      BY <3>4, BeforeAt DEF Below
    <3>5. CASE Below(e, y, m)
      <4>1. m \in 1 .. n /\ e[m] < y[m]
        BY <1>1, <3>5 DEF Below, n
      <4>2. m > i
        BY <1>1, <1>2, <2>5, <3>1, <4>1
      <4>3. e[m] = 255
        BY <1>1, <1>2, <4>1, <4>2
      <4>4. QED
        BY <1>1, <4>1, <4>3
    <3>6. QED
      BY <3>3, <3>4, <3>5
  <2>8. QED
    BY <2>6, <2>7
<1>6. ASSUME y = e
      PROVE  BytesBefore(r, d)
  <2>1. Below(r, d, i)
    BY <1>1, <1>2, <1>3, <1>4, <1>6 DEF Below
  <2>2. QED
    BY <1>2, <1>3, <1>4, <2>1, BeforeAt
<1>7. ASSUME BytesBefore(y, e)
      PROVE  BytesBefore(r, d)
  <2>1. PICK k \in 1 .. n : Below(y, e, k)
    BY <1>7, BeforeAt DEF n
  <2>2. k <= n /\ y[k] < e[k] /\ \A j \in 1 .. k - 1 : y[j] = e[j]
    BY <1>1, <2>1 DEF Below
  <2>3. CASE k <= i
    <3>1. k \in 1 .. n /\ r[k] = y[k] /\ \A j \in 1 .. k - 1 : j \in 1 .. n /\ r[j] = y[j]
      BY <1>1, <1>4, <2>2
    <3>4. d[k] >= e[k] /\ \A j \in 1 .. k - 1 : d[j] = e[j]
      BY <1>1, <1>2, <1>3, <2>3, <3>1, SMTT(30)
    <3>5. y[k] \in Nat /\ e[k] \in Nat /\ d[k] \in Nat
      BY <1>1, <1>2, <1>3, <2>3, <3>1, SMTT(30)
    <3>6. r[k] < d[k] /\ \A j \in 1 .. k - 1 : r[j] = d[j]
      BY <2>2, <3>1, <3>4, <3>5
    <3>2. Below(r, d, k)
      BY <1>1, <1>3, <1>4, <3>1, <3>6 DEF Below
    <3>3. QED
      BY <1>3, <1>4, <3>1, <3>2, BeforeAt
  <2>4. CASE k > i
    <3>4. \A j \in 1 .. i : j \in 1 .. n /\ r[j] = y[j] /\ y[j] = e[j]
      BY <1>1, <1>2, <1>4, <2>2, <2>4
    <3>5. d[i] = e[i] + 1 /\ \A j \in 1 .. i - 1 : d[j] = e[j]
      BY <1>1, <1>2, <1>3
    <3>1. r[i] < d[i] /\ \A j \in 1 .. i - 1 : r[j] = d[j]
      BY <1>1, <1>2, <3>4, <3>5
    <3>2. Below(r, d, i)
      BY <1>1, <1>2, <1>3, <1>4, <3>1 DEF Below
    <3>3. QED
      BY <1>2, <1>3, <1>4, <3>2, BeforeAt
  <2>5. QED
    BY <1>1, <1>2, <2>3, <2>4
<1>8. QED
  BY <1>5, <1>6, <1>7 DEF d, r

\* The increment comes later.
LEMMA IncrementLater ==
    ASSUME NEW e \in Bytes, NEW i, CarriedAt(e, i)
    PROVE  increment_last_byte(e) \in Bytes /\ BytesBefore(e, increment_last_byte(e))
<1>1. BytesBefore(e \o <<>>, increment_last_byte(e))
  BY BytesEmpty, IncrementBound
<1>2. e \o <<>> = e
  BY BytesEmpty
<1>3. increment_last_byte(e) \in Bytes
  BY IncrementIs
<1>4. QED
  BY <1>1, <1>2, <1>3

\* What is before the bytes that are incremented stays.
LEMMA IncrementConcat ==
    ASSUME NEW p \in Bytes, NEW e \in Bytes, NEW i, CarriedAt(e, i)
    PROVE  /\ CarriedAt(p \o e, Len(p) + i)
           /\ increment_last_byte(p \o e) = p \o increment_last_byte(e)
<1> DEFINE pe == p \o e
           d == increment_last_byte(e)
           n == Len(e)
           m == Len(p)
           pd == p \o d
           q == increment_last_byte(pe)
           c == m + i
<1>1. n \in Nat /\ m \in Nat
  BY BytesType
<1>2. i \in 1 .. n /\ e[i] # 255 /\ \A j \in i + 1 .. n : e[j] = 255
  BY DEF CarriedAt
<1>3. d \in Bytes /\ Len(d) = n
      /\ \A j \in 1 .. n : d[j] = IF j < i THEN e[j] ELSE IF j = i THEN e[i] + 1 ELSE 0
  BY IncrementIs
<1>4. /\ pe \in Bytes /\ Len(pe) = m + n
      /\ \A j \in 1 .. m : pe[j] = p[j]
      /\ \A j \in 1 .. n : pe[m + j] = e[j]
  BY BytesConcat
<1> HIDE DEF d, pe
<1>5. /\ pd \in Bytes /\ Len(pd) = m + n
      /\ \A j \in 1 .. m : pd[j] = p[j]
      /\ \A j \in 1 .. n : pd[m + j] = d[j]
  <2>1. /\ pd \in Bytes /\ Len(pd) = Len(p) + Len(d)
        /\ \A j \in 1 .. Len(p) : pd[j] = p[j]
        /\ \A j \in 1 .. Len(d) : pd[Len(p) + j] = d[j]
    BY <1>3, BytesConcat
  <2> HIDE DEF pd
  <2>2. QED
    BY <1>3, <2>1
<1> HIDE DEF pd, n, m
<1>6. c \in 1 .. m + n /\ pe[c] = e[i]
  BY <1>1, <1>2, <1>4
<1>7. \A j \in c + 1 .. m + n : pe[j] = 255
  <2>1. ASSUME NEW j \in c + 1 .. m + n
        PROVE  pe[j] = 255
    <3>1. j - m \in i + 1 .. n /\ j - m \in 1 .. n /\ m + (j - m) = j
      BY <1>1, <1>2
    <3>2. QED
      BY <1>2, <1>4, <3>1
  <2>2. QED
    BY <2>1
<1>8. CarriedAt(pe, c)
  BY <1>2, <1>4, <1>6, <1>7 DEF CarriedAt
<1> HIDE DEF c
<1>9. /\ q \in Bytes /\ Len(q) = m + n
      /\ \A j \in 1 .. m + n : q[j] = IF j < c THEN pe[j] ELSE IF j = c THEN pe[c] + 1 ELSE 0
  BY <1>4, <1>8, IncrementIs
<1> HIDE DEF q
<1>10. \A j \in 1 .. Len(q) : q[j] = pd[j]
  <2>1. ASSUME NEW j \in 1 .. m + n
        PROVE  q[j] = pd[j]
    <3>1. c = m + i
      BY DEF c
    <3>2. CASE j <= m
      BY <1>1, <1>2, <1>4, <1>5, <1>9, <3>1, <3>2
    <3>3. CASE j > m
      <4>1. j - m \in 1 .. n /\ m + (j - m) = j
        BY <1>1, <3>3
      <4>2. pe[j] = e[j - m] /\ pd[j] = d[j - m]
        BY <1>4, <1>5, <4>1
      <4>3. (j < c <=> j - m < i) /\ (j = c <=> j - m = i)
        BY <1>1, <1>2, <3>1
      <4>4. QED
        BY <1>3, <1>6, <1>9, <4>1, <4>2, <4>3
    <3>4. QED
      BY <1>1, <3>2, <3>3
  <2>2. QED
    BY <1>9, <2>1
<1>11. q = pd
  BY <1>5, <1>9, <1>10, SameSeq DEF Bytes
<1>12. QED
  BY <1>8, <1>11 DEF q, pd, pe, d, c, m

-----------------------------------------------------------------------------
(* What is between two byte strings that begin alike, and what is between  *)
(* a prefix and its increment.                                             *)
LEMMA BytesSplit ==
    ASSUME NEW r \in Bytes, NEW n \in Nat, n <= Len(r)
    PROVE  \E y, z \in Bytes : r = y \o z /\ Len(y) = n
<1> DEFINE y == SubSeq(r, 1, n)
           z == SubSeq(r, n + 1, Len(r))
<1>1. Len(r) \in Nat
  BY BytesType
<1>2. y \in Bytes /\ Len(y) = n /\ \A i \in 1 .. n : y[i] = r[i]
  BY <1>1 DEF Bytes
<1>3. z \in Bytes /\ Len(z) = Len(r) - n /\ \A i \in 1 .. Len(r) - n : z[i] = r[n + i]
  BY <1>1 DEF Bytes
<1> HIDE DEF y, z
<1>4. /\ y \o z \in Bytes /\ Len(y \o z) = Len(y) + Len(z)
      /\ \A i \in 1 .. Len(y) : (y \o z)[i] = y[i]
      /\ \A i \in 1 .. Len(z) : (y \o z)[Len(y) + i] = z[i]
  BY <1>2, <1>3, BytesConcat
<1> DEFINE c == y \o z
<1>5. /\ c \in Bytes /\ Len(c) = Len(r)
      /\ \A i \in 1 .. n : c[i] = y[i]
      /\ \A i \in 1 .. Len(r) - n : c[n + i] = z[i]
  BY <1>1, <1>2, <1>3, <1>4
<1> HIDE DEF c
<1>6. \A i \in 1 .. Len(r) : r[i] = c[i]
  <2>1. ASSUME NEW i \in 1 .. Len(r)
        PROVE  r[i] = c[i]
    <3>1. CASE i <= n
      BY <1>2, <1>5, <3>1
    <3>2. CASE i > n
      <4>1. i - n \in 1 .. Len(r) - n /\ n + (i - n) = i
        BY <1>1, <3>2
      <4>2. QED
        BY <1>3, <1>5, <4>1
    <3>3. QED
      BY <1>1, <3>1, <3>2
  <2>2. QED
    BY <2>1
<1>7. r = c
  BY <1>5, <1>6, SameSeq DEF Bytes
<1>8. QED
  BY <1>2, <1>3, <1>7 DEF c

\* Nothing comes before the empty string.
LEMMA EmptyFirst == \A x \in Bytes : ~BytesBefore(x, <<>>)
<1>1. ASSUME NEW x \in Bytes
      PROVE  ~BytesBefore(x, <<>>)
  <2>1. ~BytesBefore(<<>> \o x, <<>>)
    BY BytesEmpty, NotBeforeStart
  <2>2. <<>> \o x = x
    BY BytesEmpty
  <2>3. QED
    BY <2>1, <2>2
<1>2. QED
  BY <1>1

LEMMA Between ==
    ASSUME NEW p \in Bytes, NEW a \in Bytes, NEW b \in Bytes, NEW x \in Bytes,
           ~BytesBefore(x, p \o a), BytesBefore(x, p \o b)
    PROVE  \E r \in Bytes : x = p \o r
<1> DEFINE pa == p \o a
           pb == p \o b
           n == Len(p)
<1>1. n \in Nat /\ Len(x) \in Nat /\ Len(a) \in Nat /\ Len(b) \in Nat
  BY BytesType
<1>2. /\ pa \in Bytes /\ Len(pa) = n + Len(a)
      /\ \A i \in 1 .. n : pa[i] = p[i]
  BY BytesConcat
<1>3. /\ pb \in Bytes /\ Len(pb) = n + Len(b)
      /\ \A i \in 1 .. n : pb[i] = p[i]
  BY BytesConcat
<1>4. ~BytesBefore(x, pa) /\ BytesBefore(x, pb)
  OBVIOUS
<1> HIDE DEF pa, pb, n
<1>5. PICK k \in 1 .. Len(pb) : Below(x, pb, k)
  BY <1>3, <1>4, BeforeAt
<1>6. k \in Nat /\ k <= Len(x) + 1 /\ (\A j \in 1 .. k - 1 : x[j] = pb[j])
      /\ (k <= Len(x) => x[k] < pb[k])
  BY <1>1, <1>3, <1>5 DEF Below
<1>7. k > n
  <2>1. SUFFICES ASSUME k <= n PROVE FALSE
    BY <1>1, <1>6
  <2>2. k \in 1 .. n /\ k \in 1 .. Len(pa)
    BY <1>1, <1>2, <1>3, <1>5, <2>1
  <2>3. pb[k] = pa[k] /\ \A j \in 1 .. k - 1 : pb[j] = pa[j]
    BY <1>1, <1>2, <1>3, <2>2
  <2>4. Below(x, pa, k)
    BY <1>6, <2>2, <2>3 DEF Below
  <2>5. QED
    BY <1>2, <1>4, <2>2, <2>4, BeforeAt
<1>8. n <= Len(x) /\ \A j \in 1 .. n : x[j] = p[j]
  BY <1>1, <1>3, <1>6, <1>7
<1>9. PICK y \in Bytes, z \in Bytes : x = y \o z /\ Len(y) = n
  BY <1>1, <1>8, BytesSplit
<1>10. \A j \in 1 .. Len(y) : (y \o z)[j] = y[j]
  BY BytesConcat
<1>11. \A j \in 1 .. Len(y) : y[j] = p[j]
  BY <1>8, <1>9, <1>10
<1>12. Len(y) = Len(p)
  BY <1>9 DEF n
<1>13. y = p
  BY <1>11, <1>12, SameSeq DEF Bytes
<1>14. QED
  BY <1>9, <1>13

Begins(x, p) == \E r \in Bytes : x = p \o r

LEMMA BetweenBegins ==
    ASSUME NEW p \in Bytes, NEW a \in Bytes, NEW b \in Bytes, NEW x \in Bytes,
           ~BytesBefore(x, p \o a), BytesBefore(x, p \o b)
    PROVE  Begins(x, p)
  BY Between DEF Begins

\* A byte string at least as long as another, up to the length of that one.
LEMMA CutBefore ==
    ASSUME NEW e \in Bytes, NEW y \in Bytes, NEW z \in Bytes, Len(y) = Len(e)
    PROVE  BytesBefore(y \o z, e) <=> BytesBefore(y, e)
<1>1. BytesBefore(y \o z, e \o <<>>) <=> BytesBefore(y, e) \/ (y = e /\ BytesBefore(z, <<>>))
  BY BytesEmpty, SameLength
<1>2. e \o <<>> = e /\ ~BytesBefore(z, <<>>)
  BY BytesEmpty, EmptyFirst
<1>3. QED
  BY <1>1, <1>2

\* What begins with a prefix is between the prefix and its increment.
LEMMA InsidePrefix ==
    ASSUME NEW e \in Bytes, NEW i, CarriedAt(e, i), NEW r \in Bytes
    PROVE  ~BytesBefore(e \o r, e) /\ BytesBefore(e \o r, increment_last_byte(e))
<1>1. ~BytesBefore(e \o r, e)
  BY NotBeforeStart
<1>2. BytesBefore(e \o r, increment_last_byte(e))
  BY IncrementBound
<1>3. QED
  BY <1>1, <1>2

\* When the last byte is not 255, nothing else is.
LEMMA WithinPrefix ==
    ASSUME NEW e \in Bytes, CarriedAt(e, Len(e)), NEW x \in Bytes,
           ~BytesBefore(x, e), BytesBefore(x, increment_last_byte(e))
    PROVE  \E r \in Bytes : x = e \o r
<1> DEFINE n == Len(e)
           d == increment_last_byte(e)
<1>1. n \in Nat /\ Len(x) \in Nat
  BY BytesType
<1>2. n \in 1 .. n
  BY DEF CarriedAt
<1>3. CASE n <= Len(x)
  <2>1. PICK y \in Bytes, z \in Bytes : x = y \o z /\ Len(y) = n
    BY <1>1, <1>3, BytesSplit
  <2>2. y = e \/ BytesBefore(y, e)
    BY <2>1, IncrementBound
  <2>3. ~BytesBefore(y, e)
    BY <2>1, CutBefore
  <2>4. QED
    BY <2>1, <2>2, <2>3
<1>4. CASE Len(x) < n
  <2>1. d \in Bytes /\ Len(d) = n /\ \A j \in 1 .. n : j < n => d[j] = e[j]
    <3> DEFINE i == n
    <3>1. CarriedAt(e, i)
      OBVIOUS
    <3> HIDE DEF i
    <3>2. /\ d \in Bytes /\ Len(d) = n
          /\ \A j \in 1 .. n : d[j] = IF j < i THEN e[j] ELSE IF j = i THEN e[i] + 1 ELSE 0
      BY <3>1, IncrementIs
    <3>3. i = n
      BY DEF i
    <3> HIDE DEF d, n
    <3>4. QED
      BY <3>2, <3>3
  <2>2. BytesBefore(x, d)
    OBVIOUS
  <2> HIDE DEF d
  <2>3. PICK k \in 1 .. n : Below(x, d, k)
    BY <2>1, <2>2, BeforeAt
  <2>4. k <= Len(x) + 1 /\ (\A j \in 1 .. k - 1 : x[j] = d[j]) /\ (k <= Len(x) => x[k] < d[k])
    BY <2>3 DEF Below
  <2>5. (\A j \in 1 .. k - 1 : x[j] = e[j]) /\ (k <= Len(x) => x[k] < e[k])
    BY <1>1, <1>4, <2>1, <2>4
  <2>6. Below(x, e, k)
    BY <2>4, <2>5 DEF Below
  <2>7. BytesBefore(x, e)
    BY <2>6, BeforeAt
  <2>8. QED
    BY <2>7
<1>5. QED
  BY <1>1, <1>3, <1>4

-----------------------------------------------------------------------------
(* Prefixes that are parts.                                                *)
\* No part is so long that its length is written 255 255.
LEMMA PrefixedCarries ==
    ASSUME NEW f \in Short
    PROVE  \E i \in 1 .. Len(to_length_prefixed(f)) : CarriedAt(to_length_prefixed(f), i)
<1> DEFINE e == to_length_prefixed(f)
           h == encode_length(f)
<1>1. f \in Bytes /\ Len(f) \in Nat /\ Len(f) < 65535
  BY DEF Short, Bytes
<1>2. e \in Bytes /\ Len(e) = Len(f) + 2
  BY PrefixedType
<1>3. h \in Bytes /\ Len(h) = 2 /\ h[1] = Len(f) \div 256 /\ h[2] = Len(f) % 256
  BY EncodedLength
<1> DEFINE c == h \o f
<1>4. e = c
  BY DEF to_length_prefixed
<1> HIDE DEF h, e
<1>5. /\ c \in Bytes /\ Len(c) = Len(h) + Len(f)
      /\ \A i \in 1 .. Len(h) : c[i] = h[i]
      /\ \A i \in 1 .. Len(f) : c[Len(h) + i] = f[i]
  <2>1. f \in Bytes /\ h \in Bytes
    BY <1>1, <1>3
  <2>2. QED
    BY <2>1, BytesConcat
<1> HIDE DEF c
<1>6. e[1] = h[1] /\ e[2] = h[2]
  BY <1>3, <1>4, <1>5
<1>7. e[1] # 255 \/ e[2] # 255
  BY <1>1, <1>3, <1>6
<1>8. 1 \in 1 .. Len(e) /\ 2 \in 1 .. Len(e)
  BY <1>1, <1>2
<1>9. QED
  BY <1>2, <1>7, <1>8, CarriedExists DEF e

\* A part is below a prefix of one part, or in it, by the order of parts.
LEMMA PartBound ==
    ASSUME NEW a \in Short, NEW f \in Short, NEW x \in Bytes
    PROVE  /\ BytesBefore(length_prefixed_with_key(a, x), to_length_prefixed(f)) <=> PartBefore(a, f)
           /\ BytesBefore(length_prefixed_with_key(a, x), increment_last_byte(to_length_prefixed(f)))
                <=> a = f \/ PartBefore(a, f)
           /\ increment_last_byte(to_length_prefixed(f)) \in Bytes
<1> DEFINE e == to_length_prefixed(f)
           d == increment_last_byte(e)
           r == length_prefixed_with_key(a, x)
<1>1. e \in Bytes /\ Len(e) = Len(f) + 2
  BY PrefixedType
<1>2. PICK i \in 1 .. Len(e) : CarriedAt(e, i)
  BY PrefixedCarries
<1>3. d \in Bytes /\ BytesBefore(e, d)
  BY <1>1, <1>2, IncrementLater
<1>4. \A y \in Bytes : length_prefixed_with_key(f, y) = e \o y
  BY DEF length_prefixed_with_key
<1>5. r \in Bytes /\ Len(r) = Len(a) + 2 + Len(x)
  <2> DEFINE p == to_length_prefixed(a)
  <2>1. p \in Bytes /\ Len(p) = Len(a) + 2
    BY PrefixedType
  <2>2. r = p \o x
    BY DEF length_prefixed_with_key
  <2> HIDE DEF p, r
  <2>3. /\ p \o x \in Bytes /\ Len(p \o x) = Len(p) + Len(x)
        /\ \A j \in 1 .. Len(p) : (p \o x)[j] = p[j]
        /\ \A j \in 1 .. Len(x) : (p \o x)[Len(p) + j] = x[j]
    BY <2>1, BytesConcat
  <2>4. QED
    BY <2>1, <2>2, <2>3
<1>6. Len(a) \in Nat /\ Len(x) \in Nat /\ Len(f) \in Nat
  BY DEF Short, Bytes
<1>7. \A y \in Bytes : r = e \o y => a = f
  <2>1. ASSUME NEW y \in Bytes, r = e \o y
        PROVE  a = f
    <3>1. r = length_prefixed_with_key(f, y)
      BY <1>4, <2>1
    <3>2. QED
      BY <3>1, PrefixedOrder
  <2>2. QED
    BY <2>1
<1>8. BytesBefore(r, e) <=> PartBefore(a, f)
  <2>1. BytesBefore(r, length_prefixed_with_key(f, <<>>))
          <=> PartBefore(a, f) \/ (a = f /\ BytesBefore(x, <<>>))
    BY BytesEmpty, PrefixedOrder
  <2>2. length_prefixed_with_key(f, <<>>) = e
    BY <1>1, <1>4, BytesEmpty
  <2>3. ~BytesBefore(x, <<>>)
    BY EmptyFirst
  <2>4. QED
    BY <2>1, <2>2, <2>3
<1>9. a = f => r = e \o x
  BY DEF length_prefixed_with_key
<1>10. Len(a) < Len(f) => PartBefore(a, f)
  BY DEF PartBefore
<1> HIDE DEF r
<1>11. BytesBefore(r, d) <=> a = f \/ PartBefore(a, f)
  <2>1. CASE Len(e) <= Len(r)
    <3>1. PICK y \in Bytes, z \in Bytes : r = y \o z /\ Len(y) = Len(e)
      <4> DEFINE n == Len(e)
      <4>1. n \in Nat /\ n <= Len(r)
        BY <1>1, <1>6, <2>1
      <4> HIDE DEF n
      <4>2. \E y, z \in Bytes : r = y \o z /\ Len(y) = n
        BY <1>5, <4>1, BytesSplit
      <4>3. QED
        BY <4>2 DEF n
    <3>2. BytesBefore(y \o z, d) <=> y = e \/ BytesBefore(y, e)
      <4> HIDE DEF e
      <4>1. QED
        BY <1>1, <1>2, <3>1, IncrementBound
    <3>3. BytesBefore(y \o z, e) <=> BytesBefore(y, e)
      BY <1>1, <3>1, CutBefore
    <3>4. a = f => y = e
      <4>1. SUFFICES ASSUME a = f PROVE y = e
        OBVIOUS
      <4>2. y \o z = e \o x
        BY <1>9, <3>1, <4>1
      <4> HIDE DEF e
      <4>3. QED
        BY <1>1, <3>1, <4>2, SameLength
    <3>5. y = e => a = f
      BY <1>7, <3>1
    <3>6. QED
      BY <1>8, <3>1, <3>2, <3>3, <3>4, <3>5
  <2>2. CASE Len(r) < Len(e)
    <3>1. PartBefore(a, f)
      BY <1>1, <1>5, <1>6, <1>10, <2>2
    <3>2. BytesBefore(r, e)
      BY <1>8, <3>1
    <3>3. BytesBefore(r, d)
      <4> HIDE DEF d, e
      <4>1. QED
        BY <1>1, <1>3, <1>5, <3>2, BytesTransitive
    <3>4. QED
      BY <3>1, <3>3
  <2>3. QED
    BY <1>1, <1>5, <1>6, <2>1, <2>2
<1>12. QED
  BY <1>3, <1>8, <1>11 DEF r

-----------------------------------------------------------------------------
(* Prefixes of several parts.                                              *)
\* A prefix of parts can be incremented.
LEMMA NestedCarries ==
    ASSUME NEW sub \in Seq(Short), sub # <<>>
    PROVE  \E i \in 1 .. Len(to_length_prefixed_nested(sub)) :
             CarriedAt(to_length_prefixed_nested(sub), i)
<1> DEFINE Holds(u) == \E i : CarriedAt(to_length_prefixed_nested(u), i)
           T == {n \in Nat : \A u \in Seq(Short) : Len(u) = n + 1 => Holds(u)}
<1>1. ASSUME NEW u \in Seq(Short), NEW x \in Short, u = <<x>> \o <<>>
      PROVE  Holds(u)
  <2>1. <<>> \in Seq(Short)
    BY EmptySeq
  <2>2. to_length_prefixed_nested(u) = to_length_prefixed(x) \o to_length_prefixed_nested(<<>>)
        /\ to_length_prefixed_nested(<<>>) = <<>>
    BY <1>1, <2>1, NestedFirst
  <2>3. to_length_prefixed(x) \in Bytes
    BY PrefixedType
  <2>4. to_length_prefixed_nested(u) = to_length_prefixed(x)
    BY <2>2, <2>3, BytesEmpty
  <2>5. QED
    BY <2>4, PrefixedCarries
<1>2. 0 \in T
  <2>1. SUFFICES ASSUME NEW u \in Seq(Short), Len(u) = 1 PROVE Holds(u)
    OBVIOUS
  <2>2. u # <<>>
    BY <2>1, EmptySeq
  <2>3. PICK x \in Short, v \in Seq(Short) : u = <<x>> \o v /\ Len(v) = Len(u) - 1
    BY <2>2, SeqSplit
  <2>4. v = <<>>
    BY <2>1, <2>3, EmptySeq
  <2>5. QED
    BY <1>1, <2>3, <2>4
<1>3. ASSUME NEW n \in Nat, n \in T
      PROVE  n + 1 \in T
  <2>1. SUFFICES ASSUME NEW u \in Seq(Short), Len(u) = n + 2 PROVE Holds(u)
    OBVIOUS
  <2>2. u # <<>>
    BY <2>1, EmptySeq
  <2>3. PICK x \in Short, v \in Seq(Short) : u = <<x>> \o v /\ Len(v) = Len(u) - 1
    BY <2>2, SeqSplit
  <2>4. Len(v) = n + 1
    BY <2>1, <2>3
  <2>5. Holds(v)
    BY <1>3, <2>4
  <2> DEFINE p == to_length_prefixed(x)
             e == to_length_prefixed_nested(v)
  <2>6. p \in Bytes /\ e \in Bytes /\ to_length_prefixed_nested(u) = p \o e
    BY <2>3, NestedFirst, PrefixedType
  <2>7. PICK i : CarriedAt(e, i)
    BY <2>5
  <2> HIDE DEF p, e
  <2>8. CarriedAt(p \o e, Len(p) + i)
    BY <2>6, <2>7, IncrementConcat
  <2>9. QED
    BY <2>6, <2>8
<1> HIDE DEF T
<1>4. \A n \in Nat : n \in T
  BY <1>2, <1>3, SetInduction
<1>5. Len(sub) \in Nat /\ Len(sub) # 0
  BY EmptySeq
<1>6. Len(sub) - 1 \in T /\ (Len(sub) - 1) + 1 = Len(sub)
  BY <1>4, <1>5
<1>7. Holds(sub)
  BY <1>6 DEF T
<1>8. QED
  BY <1>7 DEF CarriedAt

LEMMA WithinFirst ==
    ASSUME NEW a \in Short, NEW f \in Short, NEW r \in Bytes, NEW e \in Bytes, NEW d \in Bytes,
           ~BytesBefore(length_prefixed_with_key(a, r), to_length_prefixed(f) \o e),
           BytesBefore(length_prefixed_with_key(a, r), to_length_prefixed(f) \o d)
    PROVE  a = f /\ ~BytesBefore(r, e) /\ BytesBefore(r, d)
<1> DEFINE p == to_length_prefixed(f)
           y == length_prefixed_with_key(a, r)
<1>1. p \in Bytes /\ y \in Bytes
  BY PrefixedType, PrefixedOrder
<1>2. \A z : length_prefixed_with_key(f, z) = p \o z
  BY DEF length_prefixed_with_key
<1>3. ~BytesBefore(y, p \o e) /\ BytesBefore(y, p \o d)
  OBVIOUS
<1>4. a = f => y = p \o r
  BY <1>2
<1>5. \A z \in Bytes : y = length_prefixed_with_key(f, z) => a = f
  BY PrefixedOrder
<1> HIDE DEF p, y
<1>6. PICK z \in Bytes : y = p \o z
  BY <1>1, <1>3, Between
<1>7. a = f
  BY <1>2, <1>5, <1>6
<1>8. ~BytesBefore(p \o r, p \o e) /\ BytesBefore(p \o r, p \o d)
  BY <1>3, <1>4, <1>7
<1>9. ~BytesBefore(r, e) /\ BytesBefore(r, d)
  BY <1>1, <1>8, BeforeConcat
<1>10. QED
  BY <1>7, <1>9

\* A key whose bytes are between a prefix of parts and its increment begins with the
\* parts, if it has more.
LEMMA WithinParts ==
    ASSUME NEW m \in Nat, m >= 1, NEW sub \in Seq(Short), sub # <<>>,
           NEW key \in KeysOfParts(Len(sub) + m),
           ~BytesBefore(joined_key(key), to_length_prefixed_nested(sub)),
           BytesBefore(joined_key(key), increment_last_byte(to_length_prefixed_nested(sub)))
    PROVE  \E rest \in KeysOfParts(m) : key = sub \o rest
<1> DEFINE Inside(u, k) ==
             /\ ~BytesBefore(joined_key(k), to_length_prefixed_nested(u))
             /\ BytesBefore(joined_key(k), increment_last_byte(to_length_prefixed_nested(u)))
           Holds(u) == \A k \in KeysOfParts(Len(u) + m) :
                         Inside(u, k) => \E rest \in KeysOfParts(m) : k = u \o rest
           T == {n \in Nat : \A u \in Seq(Short) : Len(u) = n + 1 => Holds(u)}
<1> HIDE DEF Inside
<1>1. 0 \in T
  <2>1. SUFFICES ASSUME NEW u \in Seq(Short), Len(u) = 0 + 1,
                        NEW k \in KeysOfParts(Len(u) + m), Inside(u, k)
                 PROVE  \E rest \in KeysOfParts(m) : k = u \o rest
    OBVIOUS
  <2>0. Len(u) # 0 /\ Len(u) = 1
    BY <2>1
  <2>2. u # <<>>
    BY <2>0, EmptySeq
  <2>3. PICK f \in Short, v \in Seq(Short) : u = <<f>> \o v /\ Len(v) = Len(u) - 1
    BY <2>2, SeqSplit
  <2>4. v = <<>>
    BY <2>0, <2>3, EmptySeq
  <2>5. u = <<f>>
    BY <2>3, <2>4, ConcatEmptySeq
  <2>6. to_length_prefixed_nested(u) = to_length_prefixed(f)
    <3>1. to_length_prefixed_nested(u) = to_length_prefixed(f) \o <<>>
      BY <2>3, <2>4, NestedFirst
    <3>2. to_length_prefixed(f) \in Bytes
      BY PrefixedType
    <3>3. QED
      BY <3>1, <3>2, BytesEmpty
  <2>7. k \in KeysOfParts(m + 1)
    <3>1. Len(u) + m = m + 1
      BY <2>0
    <3>2. QED
      BY <3>1
  <2>8. PICK a \in Short, t \in KeysOfParts(m) : k = <<a>> \o t
    BY <2>7, KeySplits
  <2>9. joined_key(t) \in Bytes /\ joined_key(k) = length_prefixed_with_key(a, joined_key(t))
    BY <2>8, JoinedType, JoinedFirst
  <2>10. ~PartBefore(a, f) /\ (a = f \/ PartBefore(a, f))
    BY <2>1, <2>6, <2>9, PartBound DEF Inside
  <2>11. QED
    BY <2>5, <2>8, <2>10
<1>2. ASSUME NEW n \in Nat, n \in T
      PROVE  n + 1 \in T
  <2>1. SUFFICES ASSUME NEW u \in Seq(Short), Len(u) = n + 2, NEW k \in KeysOfParts(Len(u) + m),
                        Inside(u, k)
                 PROVE  \E rest \in KeysOfParts(m) : k = u \o rest
    OBVIOUS
  <2>2. u # <<>>
    BY <2>1, EmptySeq
  <2>3. PICK f \in Short, v \in Seq(Short) : u = <<f>> \o v /\ Len(v) = Len(u) - 1
    BY <2>2, SeqSplit
  <2>4. Len(v) = n + 1 /\ v # <<>>
    BY <2>1, <2>3, EmptySeq
  <2>5. Holds(v)
    BY <1>2, <2>4
  <2> DEFINE l == Len(v) + m
             p == to_length_prefixed(f)
             e == to_length_prefixed_nested(v)
             d == increment_last_byte(e)
  <2>6. l \in Nat /\ l >= 1 /\ k \in KeysOfParts(l + 1)
    <3>1. l \in Nat /\ l >= 1 /\ l + 1 = Len(u) + m
      BY <2>1, <2>4
    <3> HIDE DEF l
    <3>2. QED
      BY <3>1
  <2> HIDE DEF l
  <2>7. PICK a \in Short, t \in KeysOfParts(l) : k = <<a>> \o t
    BY <2>6, KeySplits
  <2> DEFINE r == joined_key(t)
  <2>8. r \in Bytes /\ joined_key(k) = length_prefixed_with_key(a, r)
    BY <2>6, <2>7, JoinedType, JoinedFirst
  <2>9. p \in Bytes /\ e \in Bytes /\ to_length_prefixed_nested(u) = p \o e
    BY <2>3, NestedFirst, PrefixedType
  <2>10. PICK i : CarriedAt(e, i)
    BY <2>4, NestedCarries
  <2>11. d \in Bytes
    <3> HIDE DEF e
    <3>1. QED
      BY <2>9, <2>10, IncrementIs
  <2>12. increment_last_byte(p \o e) = p \o d
    <3> HIDE DEF p, e
    <3>1. QED
      BY <2>9, <2>10, IncrementConcat
  <2>13. /\ ~BytesBefore(length_prefixed_with_key(a, r), p \o e)
         /\ BytesBefore(length_prefixed_with_key(a, r), p \o d)
    BY <2>1, <2>8, <2>9, <2>12 DEF Inside
  <2>17. a = f /\ ~BytesBefore(r, e) /\ BytesBefore(r, d)
    <3>1. /\ ~BytesBefore(length_prefixed_with_key(a, r), to_length_prefixed(f) \o e)
          /\ BytesBefore(length_prefixed_with_key(a, r), to_length_prefixed(f) \o d)
      BY <2>13
    <3> HIDE DEF e, d, r, p
    <3>2. QED
      BY <2>8, <2>9, <2>11, <3>1, WithinFirst
  <2>20. Inside(v, t) /\ t \in KeysOfParts(Len(v) + m)
    BY <2>7, <2>17 DEF l, Inside
  <2>21. PICK rest \in KeysOfParts(m) : t = v \o rest
    BY <2>5, <2>20
  <2>22. k = u \o rest
    <3>1. k = <<a>> \o (v \o rest) /\ u = <<a>> \o v
      BY <2>3, <2>7, <2>17, <2>21
    <3>2. rest \in Seq(Bytes)
      BY KeyType
    <3>3. \A x \in Short : x \in Bytes
      BY DEF Short
    <3>4. <<a>> \in Seq(Bytes) /\ v \in Seq(Bytes)
      BY <3>3, SeqMonotonic
    <3>5. (<<a>> \o v) \o rest = <<a>> \o (v \o rest)
      <4> DEFINE b == <<a>>
      <4>1. b \in Seq(Bytes)
        BY <3>4
      <4> HIDE DEF b
      <4>2. (b \o v) \o rest = b \o (v \o rest)
        BY ONLY <3>2, <3>4, <4>1, ConcatAssociative, SMTT(30)
      <4>3. QED
        BY <4>2 DEF b
    <3>6. QED
      BY <3>1, <3>5
  <2>23. QED
    BY <2>22
<1> HIDE DEF T
<1>3. \A n \in Nat : n \in T
  BY <1>1, <1>2, SetInduction
<1>4. Len(sub) \in Nat /\ Len(sub) # 0
  BY EmptySeq
<1>5. Len(sub) - 1 \in T /\ (Len(sub) - 1) + 1 = Len(sub)
  BY <1>3, <1>4
<1>6. Holds(sub)
  BY <1>5 DEF T
<1>7. QED
  BY <1>6 DEF Inside

-----------------------------------------------------------------------------
(* The prefixes that are ranged over.                                      *)
\* From a prefix to its increment there is in the storage what begins with it.
GoodPrefix(s, E) ==
    /\ E \in Bytes /\ increment_last_byte(E) \in Bytes
    /\ \A x \in DOMAIN s : ~BytesBefore(x, E) /\ BytesBefore(x, increment_last_byte(E))
                             <=> \E r \in Bytes : x = E \o r

LEMMA PrefixIs ==
    ASSUME NEW ns \in Short, NEW sub \in Seq(Short)
    PROVE  /\ Prefix(ns, sub) = to_length_prefixed(ns) \o to_length_prefixed_nested(sub)
           /\ Prefix(ns, sub) \in Bytes
           /\ sub = <<>> => Prefix(ns, sub) = to_length_prefixed(ns)
<1> DEFINE p == to_length_prefixed(ns)
           e == to_length_prefixed_nested(sub)
<1>1. p \in Bytes /\ e \in Bytes
  BY PrefixedType, NestedFirst
<1>2. to_length_prefixed_nested(<<ns>> \o sub) = p \o e
  BY NestedFirst
<1>3. Prefix(ns, sub) = (p \o e) \o <<>>
  BY <1>2 DEF Prefix, nested_namespaces_with_key, namespaces_with_key
<1>4. sub = <<>> => e = <<>>
  BY NestedFirst
<1> HIDE DEF p, e
<1> DEFINE pe == p \o e
<1>5. pe \in Bytes
  BY <1>1, BytesConcat
<1>6. pe \o <<>> = pe
  <2> HIDE DEF pe
  <2>1. QED
    BY <1>5, BytesEmpty
<1>7. sub = <<>> => pe = p
  BY <1>1, <1>4, BytesEmpty
<1>8. QED
  BY <1>3, <1>5, <1>6, <1>7 DEF p, e

\* A name is text, no byte of which is the last one.
Text == {name \in Short : \A i \in 1 .. Len(name) : name[i] \in 0 .. 254}

\* The last byte of a name, or of its length, is not 255.
LEMMA TextCarries ==
    ASSUME NEW ns \in Text
    PROVE  CarriedAt(to_length_prefixed(ns), Len(to_length_prefixed(ns)))
<1> DEFINE h == encode_length(ns)
           e == h \o ns
           n == Len(ns)
<1>1. ns \in Short /\ ns \in Bytes /\ n \in Nat /\ \A i \in 1 .. n : ns[i] \in 0 .. 254
  BY BytesType DEF Text, Short
<1>2. h \in Bytes /\ Len(h) = 2 /\ h[2] = n % 256
  BY <1>1, EncodedLength
<1> HIDE DEF h
<1>3. /\ e \in Bytes /\ Len(e) = Len(h) + Len(ns)
      /\ \A i \in 1 .. Len(h) : e[i] = h[i]
      /\ \A i \in 1 .. Len(ns) : e[Len(h) + i] = ns[i]
  <2>1. ns \in Bytes /\ h \in Bytes
    BY <1>1, <1>2
  <2>2. QED
    BY <2>1, BytesConcat
<1>4. to_length_prefixed(ns) = e
  BY DEF to_length_prefixed, h
<1> HIDE DEF e
<1>5. Len(e) = n + 2 /\ e[2] = h[2]
  BY <1>1, <1>2, <1>3
<1>6. e[n + 2] # 255
  <2>1. CASE n = 0
    BY <1>2, <1>5, <2>1
  <2>2. CASE n # 0
    <3>1. n \in 1 .. n /\ Len(h) + n = n + 2
      BY <1>1, <1>2, <2>2
    <3>2. e[n + 2] = ns[n]
      BY <1>3, <3>1
    <3>3. ns[n] \in 0 .. 254 /\ 255 \notin 0 .. 254
      BY <1>1, <3>1
    <3>4. ns[n] # 255
      BY <3>3
    <3>5. QED
      BY <3>2, <3>4
  <2>3. QED
    BY <2>1, <2>2
<1>7. CarriedAt(e, n + 2)
  <2>1. \A j \in (n + 2) + 1 .. n + 2 : FALSE
    BY <1>1
  <2>2. n + 2 \in 1 .. n + 2
    BY <1>1
  <2>3. QED
    BY <1>5, <1>6, <2>1, <2>2 DEF CarriedAt
<1>8. QED
  BY <1>4, <1>5, <1>7

LEMMA TextPrefix ==
    ASSUME NEW s, \A x \in DOMAIN s : x \in Bytes, NEW ns \in Text
    PROVE  GoodPrefix(s, Prefix(ns, <<>>)) /\ Prefix(ns, <<>>) = to_length_prefixed(ns)
<1> DEFINE e == to_length_prefixed(ns)
<1>1. ns \in Short /\ <<>> \in Seq(Short)
  BY EmptySeq DEF Text
<1>2. e \in Bytes /\ Prefix(ns, <<>>) = e
  BY <1>1, PrefixedType, PrefixIs
<1>3. CarriedAt(e, Len(e))
  BY TextCarries
<1> HIDE DEF e
<1>4. increment_last_byte(e) \in Bytes
  BY <1>2, <1>3, IncrementIs
<1>5. ASSUME NEW x \in DOMAIN s, ~BytesBefore(x, e), BytesBefore(x, increment_last_byte(e))
      PROVE  \E r \in Bytes : x = e \o r
  <2>1. x \in Bytes
    OBVIOUS
  <2>2. QED
    BY <1>2, <1>3, <1>5, <2>1, WithinPrefix
<1>6. ASSUME NEW x, NEW r \in Bytes, x = e \o r
      PROVE  ~BytesBefore(x, e) /\ BytesBefore(x, increment_last_byte(e))
  <2>1. ~BytesBefore(e \o r, e) /\ BytesBefore(e \o r, increment_last_byte(e))
    <3> DEFINE i == Len(e)
    <3>1. CarriedAt(e, i)
      BY <1>3
    <3> HIDE DEF i
    <3>2. QED
      BY <1>2, <3>1, InsidePrefix
  <2>2. QED
    BY <1>6, <2>1
<1>7. GoodPrefix(s, e)
  BY <1>2, <1>4, <1>5, <1>6 DEF GoodPrefix
<1>8. QED
  BY <1>2, <1>7 DEF e

LEMMA PartsPrefix ==
    ASSUME NEW s, \A x \in DOMAIN s : x \in Bytes, NEW ns \in Short, NEW sub \in Seq(Short), sub # <<>>,
           NEW m \in Nat, m >= 1,
           \A x \in DOMAIN s, r \in Bytes : x = length_prefixed_with_key(ns, r) =>
             \E key \in KeysOfParts(Len(sub) + m) : r = joined_key(key)
    PROVE  GoodPrefix(s, Prefix(ns, sub))
<1> DEFINE p == to_length_prefixed(ns)
           e == to_length_prefixed_nested(sub)
           d == increment_last_byte(e)
           E == p \o e
           D == increment_last_byte(E)
<1>1. ns \in Short
  OBVIOUS
<1>2. p \in Bytes /\ e \in Bytes /\ Prefix(ns, sub) = E /\ E \in Bytes
  BY <1>1, PrefixedType, NestedFirst, PrefixIs
<1>3. \A z : length_prefixed_with_key(ns, z) = p \o z
  BY DEF length_prefixed_with_key
<1>4. PICK i : CarriedAt(e, i)
  BY NestedCarries
<1>5. \A key \in KeysOfParts(Len(sub) + m) :
        ~BytesBefore(joined_key(key), e) /\ BytesBefore(joined_key(key), d)
          => \E rest \in KeysOfParts(m) : key = sub \o rest
  BY WithinParts
<1>6. \A rest \in KeysOfParts(m) : joined_key(rest) \in Bytes /\ joined_key(sub \o rest) = e \o joined_key(rest)
  BY JoinedConcat, JoinedType
<1>7. \A key \in KeysOfParts(Len(sub) + m) : joined_key(key) \in Bytes
  <2> DEFINE l == Len(sub) + m
  <2>1. Len(sub) \in Nat
    BY EmptySeq
  <2>2. l \in Nat /\ l >= 1
    BY <2>1
  <2> HIDE DEF l
  <2>3. \A key \in KeysOfParts(l) : joined_key(key) \in Bytes
    BY <2>2, JoinedType
  <2>4. QED
    BY <2>3 DEF l
<1> HIDE DEF p, e
<1>8. d \in Bytes
  BY <1>2, <1>4, IncrementIs
<1>9. CarriedAt(E, Len(p) + i) /\ D = p \o d
  BY <1>2, <1>4, IncrementConcat
<1> HIDE DEF d
<1> DEFINE c == Len(p) + i
<1>10. D \in Bytes
  <2>1. CarriedAt(E, c)
    BY <1>9
  <2> HIDE DEF E, c
  <2>2. QED
    BY <1>2, <2>1, IncrementIs
<1>11. ASSUME NEW x, NEW r \in Bytes, x = E \o r
       PROVE  ~BytesBefore(x, E) /\ BytesBefore(x, D)
  <2>1. CarriedAt(E, c)
    BY <1>9
  <2> HIDE DEF E, c
  <2>2. ~BytesBefore(E \o r, E) /\ BytesBefore(E \o r, D)
    BY <1>2, <2>1, InsidePrefix
  <2>3. QED
    BY <1>11, <2>2
<1>12. ASSUME NEW x \in DOMAIN s, ~BytesBefore(x, E), BytesBefore(x, D)
       PROVE  \E r \in Bytes : x = E \o r
  <2>1. x \in Bytes
    OBVIOUS
  <2>2. ~BytesBefore(x, p \o e) /\ BytesBefore(x, p \o d)
    BY <1>9, <1>12
  <2>3. PICK z \in Bytes : x = p \o z
    <3>1. Begins(x, p)
      BY <1>2, <1>8, <2>1, <2>2, BetweenBegins
    <3>2. QED
      BY <3>1 DEF Begins
  <2>4. PICK key \in KeysOfParts(Len(sub) + m) : z = joined_key(key)
    BY <1>3, <2>3
  <2>5. ~BytesBefore(p \o z, p \o e) /\ BytesBefore(p \o z, p \o d)
    BY <2>2, <2>3
  <2>6. ~BytesBefore(z, e) /\ BytesBefore(z, d)
    BY <1>2, <1>8, <2>5, BeforeConcat
  <2>7. PICK rest \in KeysOfParts(m) : key = sub \o rest
    BY <1>5, <2>4, <2>6 DEF e, d
  <2> DEFINE r == joined_key(rest)
  <2>8. r \in Bytes /\ z = e \o r
    BY <1>6, <2>4, <2>7
  <2> HIDE DEF r
  <2>9. x = p \o (e \o r)
    BY <2>3, <2>8
  <2>10. (p \o e) \o r = p \o (e \o r)
    <3>1. p \in Bytes /\ e \in Bytes /\ r \in Bytes
      BY <1>2, <2>8
    <3>2. QED
      BY ONLY <3>1, BytesAssociative
  <2>11. QED
    BY <2>8, <2>9, <2>10
<1> HIDE DEF E, D
<1>13. GoodPrefix(s, E)
  BY <1>2, <1>10, <1>11, <1>12 DEF GoodPrefix, D
<1>14. QED
  BY <1>2, <1>13

-----------------------------------------------------------------------------
(* What a range over a prefix finds.                                       *)
ByteOrder(S) == {p \in S \X S : BytesBefore(p[1], p[2])}

LEMMA ByteOrderTotal ==
    ASSUME NEW S \in SUBSET Bytes
    PROVE  /\ TotalOn(S, ByteOrder(S))
           /\ \A x, y \in S : <<x, y>> \in ByteOrder(S) <=> BytesBefore(x, y)
<1>1. \A x, y \in S : <<x, y>> \in ByteOrder(S) <=> BytesBefore(x, y)
  BY DEF ByteOrder
<1>2. \A x \in S : x \in Bytes
  OBVIOUS
<1>3. \A x, y \in Bytes : /\ ~BytesBefore(x, x)
                          /\ BytesBefore(x, y) \/ x = y \/ BytesBefore(y, x)
  BY BytesOrder
<1>4. \A x, y, z \in Bytes : BytesBefore(x, y) /\ BytesBefore(y, z) => BytesBefore(x, z)
  BY BytesTransitive
<1>5. TotalOn(S, ByteOrder(S))
  BY <1>1, <1>2, <1>3, <1>4 DEF TotalOn
<1>6. QED
  BY <1>1, <1>5

\* The keys of a storage in their order.
LEMMA InBytesOrder ==
    ASSUME NEW S \in SUBSET Bytes
    PROVE  InOrder(S, BytesBefore) = Ranked(S, ByteOrder(S))
<1>1. \A x \in S : {y \in S : BytesBefore(y, x)} = LowerIn(S, ByteOrder(S), x)
  BY ByteOrderTotal DEF LowerIn
<1>2. InOrder(S, BytesBefore)
        = [i \in 1 .. Cardinality(S) |->
             CHOOSE x \in S : Cardinality({y \in S : BytesBefore(y, x)}) = i - 1]
  BY DEF InOrder
<1> DEFINE Lower(x) == {y \in S : BytesBefore(y, x)}
           Other(x) == LowerIn(S, ByteOrder(S), x)
<1>3. \A x \in S : Lower(x) = Other(x)
  BY <1>1
<1>4. /\ InOrder(S, BytesBefore)
           = [i \in 1 .. Cardinality(S) |-> CHOOSE x \in S : Cardinality(Lower(x)) = i - 1]
      /\ Ranked(S, ByteOrder(S))
           = [i \in 1 .. Cardinality(S) |-> CHOOSE x \in S : Cardinality(Other(x)) = i - 1]
  BY <1>2 DEF Ranked
<1> HIDE DEF Lower, Other
<1>5. \A i : (CHOOSE x \in S : Cardinality(Lower(x)) = i - 1)
           = (CHOOSE x \in S : Cardinality(Other(x)) = i - 1)
  BY <1>3
<1>6. QED
  BY <1>4, <1>5

\* What is below a prefix in a storage, without the prefix.
Tails(s, E) == {r \in Bytes : E \o r \in DOMAIN s}

LEMMA TailsFinite ==
    ASSUME NEW s, Storage(s), NEW E \in Bytes
    PROVE  IsFiniteSet(Tails(s, E))
<1> DEFINE T == Tails(s, E)
           f == [r \in T |-> E \o r]
<1>1. \A r \in T : r \in Bytes /\ E \o r \in DOMAIN s
  BY DEF Tails
<1>2. f \in [T -> DOMAIN s]
  BY <1>1
<1>3. ASSUME NEW q \in T, NEW r \in T, f[q] = f[r]
      PROVE  q = r
  <2>1. q \in Bytes /\ r \in Bytes /\ E \o q = E \o r
    BY <1>1, <1>3
  <2> HIDE DEF T, f
  <2>2. QED
    BY <2>1, SameLength
<1> HIDE DEF f, T
<1>4. f \in Injection(T, DOMAIN s)
  BY <1>2, <1>3 DEF Injection, IsInjective
<1>5. IsFiniteSet(DOMAIN s)
  BY DEF Storage
<1>6. QED
  BY <1>4, <1>5, FS_Injection DEF T

\* The end of a range, none or after the bytes of a bound.
Ends == {<<>>} \cup {<<b>> : b \in Bytes}

EndAt(E, hi) == IF hi = <<>> THEN increment_last_byte(E) ELSE E \o hi[1]

UpTo(r, hi) == hi = <<>> \/ BytesBefore(r, hi[1])

TailsIn(s, E, lo, hi) == {r \in Tails(s, E) : ~BytesBefore(r, lo) /\ UpTo(r, hi)}

LEMMA RangeTails ==
    ASSUME NEW s, \A x \in DOMAIN s : x \in Bytes, NEW E, GoodPrefix(s, E),
           NEW lo \in Bytes, NEW hi \in Ends
    PROVE  /\ \A x \in DOMAIN s : ~BytesBefore(x, E \o lo) /\ BytesBefore(x, EndAt(E, hi))
                                    => \E r \in TailsIn(s, E, lo, hi) : x = E \o r
           /\ \A r \in TailsIn(s, E, lo, hi) :
                /\ r \in Bytes /\ E \o r \in DOMAIN s
                /\ ~BytesBefore(E \o r, E \o lo) /\ BytesBefore(E \o r, EndAt(E, hi))
<1>1. E \in Bytes /\ increment_last_byte(E) \in Bytes
  BY DEF GoodPrefix
<1>2. \A x \in DOMAIN s : ~BytesBefore(x, E) /\ BytesBefore(x, increment_last_byte(E))
                            => Begins(x, E)
  BY DEF GoodPrefix, Begins
<1>3. hi = <<>> \/ (hi[1] \in Bytes /\ hi # <<>>)
  BY DEF Ends
<1>4. ASSUME NEW x \in DOMAIN s, ~BytesBefore(x, E \o lo), BytesBefore(x, EndAt(E, hi))
      PROVE  Begins(x, E)
  <2>1. CASE hi = <<>>
    <3>1. BytesBefore(x, increment_last_byte(E))
      BY <1>4, <2>1 DEF EndAt
    <3>2. ~BytesBefore(x, E)
      <4>1. SUFFICES ASSUME BytesBefore(x, E) PROVE FALSE
        OBVIOUS
      <4> DEFINE el == E \o lo
      <4>2. el \in Bytes /\ ~BytesBefore(el, E) /\ ~BytesBefore(x, el)
        BY <1>1, <1>4, BytesConcat, NotBeforeStart
      <4> HIDE DEF el
      <4>3. E = el \/ BytesBefore(E, el)
        BY <1>1, <4>2, BytesOrder
      <4>4. QED
        BY <1>1, <4>1, <4>2, <4>3, BytesTransitive
    <3>3. QED
      BY <1>2, <3>1, <3>2
  <2>2. CASE hi # <<>>
    <3> DEFINE b == hi[1]
    <3>1. b \in Bytes /\ BytesBefore(x, E \o b)
      BY <1>3, <1>4, <2>2 DEF EndAt
    <3> HIDE DEF b
    <3>2. QED
      BY <1>1, <1>4, <3>1, BetweenBegins
  <2>3. QED
    BY <2>1, <2>2
<1>5. ASSUME NEW r \in Bytes, E \o r \in DOMAIN s
      PROVE  /\ BytesBefore(E \o r, E \o lo) <=> BytesBefore(r, lo)
             /\ BytesBefore(E \o r, EndAt(E, hi)) <=> UpTo(r, hi)
  <2>1. BytesBefore(E \o r, E \o lo) <=> BytesBefore(r, lo)
    BY <1>1, BeforeConcat
  <2>2. CASE hi = <<>>
    <3> DEFINE x == E \o r
               D == increment_last_byte(E)
    <3>1. \E q \in Bytes : x = E \o q
      OBVIOUS
    <3>2. BytesBefore(x, D)
      <4>1. x \in DOMAIN s
        BY <1>5
      <4>2. QED
        BY <3>1, <4>1 DEF GoodPrefix
    <3>3. EndAt(E, hi) = D
      BY <2>2 DEF EndAt
    <3>4. UpTo(r, hi)
      BY <2>2 DEF UpTo
    <3>5. QED
      BY <2>1, <3>2, <3>3, <3>4
  <2>3. CASE hi # <<>>
    <3> DEFINE b == hi[1]
    <3>1. b \in Bytes /\ EndAt(E, hi) = E \o b /\ (UpTo(r, hi) <=> BytesBefore(r, b))
      BY <1>3, <2>3 DEF EndAt, UpTo
    <3> HIDE DEF b
    <3>2. BytesBefore(E \o r, E \o b) <=> BytesBefore(r, b)
      BY <1>1, <3>1, BeforeConcat
    <3>3. QED
      BY <2>1, <3>1, <3>2
  <2>4. QED
    BY <2>2, <2>3
<1>6. ASSUME NEW x \in DOMAIN s, ~BytesBefore(x, E \o lo), BytesBefore(x, EndAt(E, hi))
      PROVE  \E r \in TailsIn(s, E, lo, hi) : x = E \o r
  <2>1. PICK r \in Bytes : x = E \o r
    BY <1>4, <1>6 DEF Begins
  <2>2. r \in Tails(s, E)
    BY <2>1 DEF Tails
  <2>3. ~BytesBefore(r, lo) /\ UpTo(r, hi)
    BY <1>5, <1>6, <2>1
  <2>4. QED
    BY <2>1, <2>2, <2>3 DEF TailsIn
<1>7. ASSUME NEW r \in TailsIn(s, E, lo, hi)
      PROVE  /\ r \in Bytes /\ E \o r \in DOMAIN s
             /\ ~BytesBefore(E \o r, E \o lo) /\ BytesBefore(E \o r, EndAt(E, hi))
  <2>1. r \in Bytes /\ E \o r \in DOMAIN s /\ ~BytesBefore(r, lo) /\ UpTo(r, hi)
    BY DEF TailsIn, Tails
  <2>2. QED
    BY <1>5, <2>1
<1>8. QED
  BY <1>6, <1>7

\* A range gives the records with their keys behind the prefix, in the order of those.
LEMMA RangeFinds ==
    ASSUME NEW s, Storage(s), \A x \in DOMAIN s : x \in Bytes, NEW E, GoodPrefix(s, E),
           NEW lo \in Bytes, NEW hi \in Ends, NEW S, S = TailsIn(s, E, lo, hi),
           NEW l, l = Ranked(S, ByteOrder(S)), NEW n, n = Cardinality(S)
    PROVE  /\ S \in SUBSET Bytes /\ IsFiniteSet(S) /\ n \in Nat
           /\ \A r \in S : E \o r \in DOMAIN s
           /\ Trimmed(E, storage_range(s, E \o lo, EndAt(E, hi), "Ascending"))
                = [i \in 1 .. n |-> <<l[i], s[E \o l[i]]>>]
           /\ Trimmed(E, storage_range(s, E \o lo, EndAt(E, hi), "Descending"))
                = [i \in 1 .. n |-> <<l[n - i + 1], s[E \o l[n - i + 1]]>>]
<1> DEFINE start == E \o lo
           end == EndAt(E, hi)
           I == {x \in DOMAIN s : ~BytesBefore(x, start) /\ BytesBefore(x, end)}
           f == [r \in S |-> E \o r]
           m == Ranked(I, ByteOrder(I))
<1>1. E \in Bytes
  BY DEF GoodPrefix
<1>2. \A r \in S : r \in Bytes /\ E \o r \in I
  BY RangeTails
<1>3. \A x \in I : \E r \in S : x = E \o r
  BY RangeTails
<1>4. S \in SUBSET Bytes /\ IsFiniteSet(S)
  <2>1. S \in SUBSET Tails(s, E)
    BY DEF TailsIn
  <2>2. QED
    BY <1>1, <1>2, <2>1, TailsFinite, FS_Subset
<1>5. n \in Nat
  BY <1>4, FS_CardinalityType
<1>6. I \in SUBSET Bytes
  OBVIOUS
<1> HIDE DEF I
<1>7. TotalOn(S, ByteOrder(S)) /\ TotalOn(I, ByteOrder(I))
      /\ (\A x, y \in S : <<x, y>> \in ByteOrder(S) <=> BytesBefore(x, y))
      /\ (\A x, y \in I : <<x, y>> \in ByteOrder(I) <=> BytesBefore(x, y))
  BY <1>4, <1>6, ByteOrderTotal
<1>8. f \in [S -> I] /\ \A r \in S : f[r] = E \o r
  BY <1>2
<1>9. \A y \in I : \E x \in S : f[x] = y
  BY <1>3, <1>8
<1>10. \A x, y \in S : <<x, y>> \in ByteOrder(S) <=> <<f[x], f[y]>> \in ByteOrder(I)
  <2>1. ASSUME NEW x \in S, NEW y \in S
        PROVE  BytesBefore(x, y) <=> BytesBefore(f[x], f[y])
    <3>1. x \in Bytes /\ y \in Bytes
      BY <1>4
    <3>2. BytesBefore(E \o x, E \o y) <=> BytesBefore(x, y)
      BY <1>1, <3>1, BeforeConcat
    <3>3. QED
      BY <1>8, <3>2
  <2>2. \A x \in S : f[x] \in I
    BY <1>8
  <2> HIDE DEF f
  <2>3. QED
    BY <1>7, <2>1, <2>2
<1>11. Cardinality(I) = n /\ m = [i \in 1 .. n |-> f[l[i]]]
  <2> HIDE DEF f, m
  <2>1. /\ Cardinality(I) = Cardinality(S)
        /\ Ranked(I, ByteOrder(I)) = [i \in 1 .. Cardinality(S) |-> f[Ranked(S, ByteOrder(S))[i]]]
    BY <1>4, <1>7, <1>8, <1>9, <1>10, RankedImage
  <2>2. QED
    BY <2>1 DEF m
<1>12. l \in [1 .. n -> S]
  BY <1>4, <1>7, RankedList
<1>13. \A i \in 1 .. n : l[i] \in S /\ l[i] \in Bytes /\ m[i] = E \o l[i]
  BY <1>4, <1>8, <1>11, <1>12
<1>14. InOrder(I, BytesBefore) = m
  BY <1>6, InBytesOrder
<1>15. Len(m) = n /\ Len(Reverse(m)) = n /\ \A i \in 1 .. n : Reverse(m)[i] = m[n - i + 1]
  <2>1. Len(m) = n
    BY <1>5, <1>11
  <2> HIDE DEF m
  <2>2. Reverse(m) = [i \in 1 .. n |-> m[(n - i) + 1]]
    BY <2>1 DEF Reverse
  <2>3. QED
    BY <1>5, <2>1, <2>2
<1>16. \A r \in Bytes : trim(E, E \o r) = r
  <2>1. ASSUME NEW r \in Bytes
        PROVE  trim(E, E \o r) = r
    <3> DEFINE x == E \o r
               c == Len(E)
               t == SubSeq(x, c + 1, Len(x))
    <3>1. /\ x \in Bytes /\ Len(x) = c + Len(r)
          /\ \A i \in 1 .. Len(r) : x[c + i] = r[i]
      BY <1>1, BytesConcat
    <3>2. c \in Nat /\ Len(r) \in Nat
      BY <1>1, BytesType
    <3> HIDE DEF x, c
    <3>3. t \in Bytes /\ Len(t) = Len(r) /\ \A i \in 1 .. Len(r) : t[i] = x[c + i]
      BY <3>1, <3>2 DEF Bytes
    <3> HIDE DEF t
    <3>4. t = r
      BY <3>1, <3>3, SameSeq DEF Bytes
    <3>5. QED
      BY <3>4 DEF t, x, c, trim
  <2>2. QED
    BY <2>1
<1>17. storage_range(s, start, end, "Ascending") = [i \in 1 .. n |-> <<m[i], s[m[i]]>>]
  <2> HIDE DEF start, end, m
  <2>1. storage_range(s, start, end, "Ascending") = [i \in 1 .. Len(m) |-> <<m[i], s[m[i]]>>]
    BY <1>14 DEF storage_range, I
  <2>2. QED
    BY <1>15, <2>1
<1>18. storage_range(s, start, end, "Descending")
         = [i \in 1 .. n |-> <<m[n - i + 1], s[m[n - i + 1]]>>]
  <2> HIDE DEF start, end, m
  <2>1. storage_range(s, start, end, "Descending")
          = [i \in 1 .. Len(Reverse(m)) |-> <<Reverse(m)[i], s[Reverse(m)[i]]>>]
    BY <1>14 DEF storage_range, I
  <2>2. QED
    BY <1>15, <2>1
<1> HIDE DEF m, start, end
<1>19. \A q \in [1 .. n -> 1 .. n] :
         Trimmed(E, [i \in 1 .. n |-> <<m[q[i]], s[m[q[i]]]>>])
           = [i \in 1 .. n |-> <<l[q[i]], s[E \o l[q[i]]]>>]
  <2>1. ASSUME NEW q \in [1 .. n -> 1 .. n]
        PROVE  Trimmed(E, [i \in 1 .. n |-> <<m[q[i]], s[m[q[i]]]>>])
                 = [i \in 1 .. n |-> <<l[q[i]], s[E \o l[q[i]]]>>]
    <3> DEFINE z == [i \in 1 .. n |-> <<m[q[i]], s[m[q[i]]]>>]
    <3>1. Len(z) = n /\ \A i \in 1 .. n : z[i][1] = m[q[i]] /\ z[i][2] = s[m[q[i]]]
      BY <1>5
    <3> HIDE DEF z
    <3>2. Trimmed(E, z) = [i \in 1 .. n |-> <<trim(E, z[i][1]), z[i][2]>>]
      BY <3>1 DEF Trimmed
    <3>3. ASSUME NEW i \in 1 .. n
          PROVE  trim(E, z[i][1]) = l[q[i]] /\ z[i][2] = s[E \o l[q[i]]]
      <4>1. q[i] \in 1 .. n
        OBVIOUS
      <4>2. l[q[i]] \in Bytes /\ m[q[i]] = E \o l[q[i]]
        BY <1>13, <4>1
      <4>3. trim(E, E \o l[q[i]]) = l[q[i]]
        BY ONLY <1>16, <4>2
      <4>4. z[i][1] = m[q[i]] /\ z[i][2] = s[m[q[i]]]
        BY <3>1
      <4>5. QED
        BY ONLY <4>2, <4>3, <4>4
    <3>4. QED
      BY <3>2, <3>3 DEF z
  <2>2. QED
    BY <2>1
<1>20. Trimmed(E, storage_range(s, start, end, "Ascending"))
         = [i \in 1 .. n |-> <<l[i], s[E \o l[i]]>>]
  <2> DEFINE q == [i \in 1 .. n |-> i]
  <2>1. q \in [1 .. n -> 1 .. n] /\ \A i \in 1 .. n : q[i] = i
    OBVIOUS
  <2> HIDE DEF q
  <2>2. Trimmed(E, [i \in 1 .. n |-> <<m[q[i]], s[m[q[i]]]>>])
          = [i \in 1 .. n |-> <<l[q[i]], s[E \o l[q[i]]]>>]
    BY <1>19, <2>1
  <2>3. [i \in 1 .. n |-> <<m[q[i]], s[m[q[i]]]>>] = [i \in 1 .. n |-> <<m[i], s[m[i]]>>]
    BY <2>1
  <2>4. [i \in 1 .. n |-> <<l[q[i]], s[E \o l[q[i]]]>>] = [i \in 1 .. n |-> <<l[i], s[E \o l[i]]>>]
    BY <2>1
  <2>5. QED
    BY <1>17, <2>2, <2>3, <2>4
<1>21. Trimmed(E, storage_range(s, start, end, "Descending"))
         = [i \in 1 .. n |-> <<l[n - i + 1], s[E \o l[n - i + 1]]>>]
  <2> DEFINE q == [i \in 1 .. n |-> n - i + 1]
  <2>1. q \in [1 .. n -> 1 .. n] /\ \A i \in 1 .. n : q[i] = n - i + 1
    BY <1>5
  <2> HIDE DEF q
  <2>2. Trimmed(E, [i \in 1 .. n |-> <<m[q[i]], s[m[q[i]]]>>])
          = [i \in 1 .. n |-> <<l[q[i]], s[E \o l[q[i]]]>>]
    BY <1>19, <2>1
  <2>3. [i \in 1 .. n |-> <<m[q[i]], s[m[q[i]]]>>]
          = [i \in 1 .. n |-> <<m[n - i + 1], s[m[n - i + 1]]>>]
    BY <2>1
  <2>4. [i \in 1 .. n |-> <<l[q[i]], s[E \o l[q[i]]]>>]
          = [i \in 1 .. n |-> <<l[n - i + 1], s[E \o l[n - i + 1]]>>]
    BY <2>1
  <2>5. QED
    BY <1>18, <2>2, <2>3, <2>4
<1>22. QED
  BY <1>2, <1>4, <1>5, <1>20, <1>21 DEF start, end, I

-----------------------------------------------------------------------------
(* The parts of a key are read back from its bytes.                        *)
LEMMA LengthParsed ==
    ASSUME NEW a \in Short, NEW x \in Bytes
    PROVE  /\ length_prefixed_with_key(a, x) \in Bytes
           /\ Len(length_prefixed_with_key(a, x)) = Len(a) + 2 + Len(x)
           /\ parse_length(length_prefixed_with_key(a, x)) = Len(a)
           /\ \A i \in 1 .. Len(a) : length_prefixed_with_key(a, x)[2 + i] = a[i]
           /\ \A i \in 1 .. Len(x) : length_prefixed_with_key(a, x)[Len(a) + 2 + i] = x[i]
<1> DEFINE h == encode_length(a)
           e == to_length_prefixed(a)
           v == length_prefixed_with_key(a, x)
           n == Len(a)
<1>1. /\ h \in Bytes /\ Len(h) = 2 /\ h[1] = n \div 256 /\ h[2] = n % 256
      /\ a \in Bytes /\ n \in Nat
  BY EncodedLength DEF Short, Bytes
<1>2. e \in Bytes /\ Len(e) = n + 2
  BY PrefixedType
<1>3. e = h \o a /\ v = e \o x
  BY DEF to_length_prefixed, length_prefixed_with_key
<1> HIDE DEF h, e, v, n
<1>4. /\ \A i \in 1 .. Len(h) : e[i] = h[i]
      /\ \A i \in 1 .. Len(a) : e[Len(h) + i] = a[i]
  <2>1. /\ \A i \in 1 .. Len(h) : (h \o a)[i] = h[i]
        /\ \A i \in 1 .. Len(a) : (h \o a)[Len(h) + i] = a[i]
    <3>1. h \in Bytes /\ a \in Bytes
      BY <1>1
    <3>2. QED
      BY ONLY <3>1, BytesConcat
  <2>2. QED
    BY ONLY <1>3, <2>1
<1>5. /\ v \in Bytes /\ Len(v) = Len(e) + Len(x)
      /\ \A i \in 1 .. Len(e) : v[i] = e[i]
      /\ \A i \in 1 .. Len(x) : v[Len(e) + i] = x[i]
  <2>1. /\ e \o x \in Bytes /\ Len(e \o x) = Len(e) + Len(x)
        /\ \A i \in 1 .. Len(e) : (e \o x)[i] = e[i]
        /\ \A i \in 1 .. Len(x) : (e \o x)[Len(e) + i] = x[i]
    BY <1>2, BytesConcat
  <2>2. QED
    BY ONLY <1>3, <2>1
<1>6. n = Len(a)
  BY DEF n
<1>7. v[1] = n \div 256 /\ v[2] = n % 256
  BY <1>1, <1>2, <1>4, <1>5
<1>8. parse_length(v) = n
  <2>1. 256 * (n \div 256) + (n % 256) = n
    BY <1>1
  <2>2. QED
    BY <1>7, <2>1 DEF parse_length
<1>9. \A i \in 1 .. n : v[2 + i] = a[i]
  BY <1>1, <1>2, <1>4, <1>5, <1>6
<1>10. QED
  BY <1>2, <1>5, <1>6, <1>8, <1>9 DEF v

LEMMA PairRead ==
    ASSUME NEW a \in Short, NEW x \in Bytes
    PROVE  from_vec_pair(length_prefixed_with_key(a, x)) = <<a, x>>
<1> DEFINE v == length_prefixed_with_key(a, x)
           n == Len(a)
           m == Len(x)
<1>1. /\ v \in Bytes /\ Len(v) = n + 2 + m /\ parse_length(v) = n
      /\ \A i \in 1 .. n : v[2 + i] = a[i]
      /\ \A i \in 1 .. m : v[n + 2 + i] = x[i]
      /\ a \in Bytes /\ x \in Bytes /\ n \in Nat /\ m \in Nat
  BY LengthParsed, BytesType, SMTT(30) DEF Short
<1> HIDE DEF v
<1>2. SubSeq(v, 3, 2 + n) = a
  <2> DEFINE t == SubSeq(v, 3, 2 + n)
  <2>1. t \in Bytes /\ Len(t) = n /\ \A i \in 1 .. n : t[i] = v[2 + i]
    BY <1>1 DEF Bytes
  <2> HIDE DEF t
  <2>2. t \in Seq(Byte) /\ a \in Seq(Byte) /\ Len(t) = Len(a) /\ \A i \in 1 .. Len(t) : t[i] = a[i]
    BY <1>1, <2>1 DEF Bytes
  <2>3. t = a
    BY ONLY <2>2, SameSeq
  <2>4. QED
    BY <2>3 DEF t
<1>3. SubSeq(v, 3 + n, Len(v)) = x
  <2> DEFINE t == SubSeq(v, 3 + n, Len(v))
  <2>1. t \in Bytes /\ Len(t) = m /\ \A i \in 1 .. m : t[i] = v[n + 2 + i]
    BY <1>1 DEF Bytes
  <2> HIDE DEF t
  <2>2. t \in Seq(Byte) /\ x \in Seq(Byte) /\ Len(t) = Len(x) /\ \A i \in 1 .. Len(t) : t[i] = x[i]
    BY <1>1, <2>1 DEF Bytes
  <2>3. t = x
    BY ONLY <2>2, SameSeq
  <2>4. QED
    BY <2>3 DEF t
<1>4. QED
  BY <1>1, <1>2, <1>3 DEF from_vec_pair, HeadPart, AfterHead, v

\* A key of two parts, taken apart.
LEMMA KeyOfTwo ==
    ASSUME NEW k \in KeysOfParts(2)
    PROVE  /\ k[1] \in Short /\ k[2] \in Bytes /\ Len(k) = 2 /\ k = <<k[1], k[2]>>
           /\ Front(k) = <<k[1]>> /\ Last(k) = k[2] /\ k = <<k[1]>> \o <<k[2]>>
           /\ <<k[2]>> \in KeysOfParts(1)
           /\ joined_key(k) = length_prefixed_with_key(k[1], k[2])
<1> DEFINE m == 1
<1>1. m \in Nat /\ m >= 1 /\ m + 1 = 2 /\ m = 1
  OBVIOUS
<1>2. PICK x \in Short, t \in KeysOfParts(m) : k = <<x>> \o t
  <2> HIDE DEF m
  <2>1. k \in KeysOfParts(m + 1)
    BY <1>1
  <2>2. QED
    BY <1>1, <2>1, KeySplits
<1>3. t[1] \in Bytes /\ t = <<t[1]>> /\ joined_key(t) = t[1]
  BY JoinedOne
<1>4. joined_key(k) = length_prefixed_with_key(x, t[1])
  BY <1>1, <1>2, <1>3, JoinedFirst
<1> DEFINE y == t[1]
<1>5. y \in Bytes /\ t = <<y>> /\ k = <<x>> \o <<y>>
  BY <1>2, <1>3
<1> HIDE DEF y
<1>6. k = <<x, y>>
  <2>1. x \in Bytes /\ <<y>> \in Seq(Bytes) /\ Len(<<y>>) = 1 /\ <<y>>[1] = y
    BY <1>5 DEF Short
  <2>2. /\ k \in Seq(Bytes) /\ Len(k) = 1 + 1 /\ k[1] = x
        /\ \A i \in 1 .. 1 : k[i + 1] = <<y>>[i]
    BY <1>5, <2>1, SeqFirst
  <2>3. k[2] = y
    BY <2>1, <2>2
  <2> DEFINE u == <<x, y>>
  <2>4. u \in Seq(Bytes) /\ Len(u) = 2 /\ u[1] = x /\ u[2] = y
    BY <1>5, <2>1
  <2> HIDE DEF u
  <2>5. k \in Seq(Bytes) /\ Len(k) = Len(u) /\ \A i \in 1 .. Len(k) : k[i] = u[i]
    BY <2>2, <2>3, <2>4
  <2>6. k = u
    BY <2>4, <2>5, SameSeq
  <2>7. QED
    BY <2>6 DEF u
<1>7. k[1] = x /\ k[2] = y /\ Len(k) = 2
  BY <1>6
<1>8. Last(k) = y
  BY <1>7 DEF Last
<1>9. Front(k) = <<x>>
  <2>1. 2 \in Nat /\ 2 >= 1
    OBVIOUS
  <2>2. /\ Front(k) \in Seq(Short) /\ Len(Front(k)) = 2 - 1
        /\ \A i \in 1 .. 2 - 1 : Front(k)[i] = k[i]
    BY <2>1, KeyType
  <2> DEFINE f == Front(k)
  <2>3. f \in Seq(Short) /\ Len(f) = 1 /\ f[1] = x
    BY <1>7, <2>2
  <2> HIDE DEF f
  <2>4. f = <<x>>
    BY <2>3
  <2>5. QED
    BY <2>4 DEF f
<1>10. <<k[2]>> \in KeysOfParts(1) /\ joined_key(k) = length_prefixed_with_key(x, y)
  BY <1>4, <1>5, <1>7 DEF y
<1>11. QED
  BY <1>2, <1>5, <1>6, <1>7, <1>8, <1>9, <1>10

LEMMA KeyRead ==
    ASSUME NEW k \in KeysOfParts(2)
    PROVE  from_vec(2, joined_key(k)) = k
<1>1. /\ k[1] \in Short /\ k[2] \in Bytes /\ k = <<k[1], k[2]>>
      /\ joined_key(k) = length_prefixed_with_key(k[1], k[2])
  BY KeyOfTwo
<1>2. from_vec_pair(joined_key(k)) = k
  BY <1>1, PairRead
<1>3. QED
  BY <1>2 DEF from_vec

-----------------------------------------------------------------------------
(* Where the records below some parts are.                                 *)
LEMMA SubTail ==
    ASSUME NEW ns \in Short, NEW sub \in Seq(Short), NEW m \in Nat, m >= 1,
           NEW key \in KeysOfParts(m)
    PROVE  /\ sub \o key \in KeysOfParts(Len(sub) + m)
           /\ joined_key(key) \in Bytes /\ joined_key(sub \o key) \in Bytes
           /\ Prefix(ns, sub) \o joined_key(key)
                = length_prefixed_with_key(ns, joined_key(sub \o key))
<1> DEFINE p == to_length_prefixed(ns)
           e == to_length_prefixed_nested(sub)
           r == joined_key(key)
           q == joined_key(sub \o key)
<1>1. p \in Bytes /\ e \in Bytes /\ Prefix(ns, sub) = p \o e
  BY PrefixedType, NestedFirst, PrefixIs
<1>2. r \in Bytes
  BY JoinedType
<1>3. e \o r = q /\ sub \o key \in KeysOfParts(Len(sub) + m)
  BY JoinedConcat
<1>4. length_prefixed_with_key(ns, q) = p \o q
  BY DEF length_prefixed_with_key
<1> HIDE DEF p, e, r, q
<1>5. e \o r \in Bytes /\ (p \o e) \o r = p \o (e \o r)
  BY <1>1, <1>2, BytesConcat, BytesAssociative
<1>6. QED
  BY <1>1, <1>2, <1>3, <1>4, <1>5 DEF r, q

\* Behind a byte string and at it, behind it alone.
LEMMA BytesFrom ==
    ASSUME NEW x \in Bytes, NEW y \in Bytes
    PROVE  /\ ~BytesBefore(y, x) <=> BytesBefore(x, y) \/ x = y
           /\ Append(x, 0) \in Bytes
           /\ ~BytesBefore(y, Append(x, 0)) <=> BytesBefore(x, y)
           /\ BytesBefore(y, Append(x, 0)) <=> BytesBefore(y, x) \/ x = y
<1>1. /\ ~BytesBefore(x, x)
      /\ BytesBefore(x, y) \/ x = y \/ BytesBefore(y, x)
      /\ BytesBefore(x, y) => x # y /\ ~BytesBefore(y, x)
  BY BytesOrder
<1>2. BytesBefore(y, Append(x, 0)) <=> y = x \/ BytesBefore(y, x)
  BY FirstExtension
<1>3. Append(x, 0) \in Bytes
  <2>1. 0 \in Byte
    BY DEF Byte
  <2>2. QED
    BY <2>1 DEF Bytes
<1>4. QED
  BY <1>1, <1>2, <1>3

-----------------------------------------------------------------------------
(* The order of the keys, as a set of pairs.                               *)
KeyOrder(T) == {p \in T \X T : KeyBefore(p[1], p[2])}

LEMMA InKeyOrder ==
    ASSUME NEW T
    PROVE  InOrder(T, KeyBefore) = Ranked(T, KeyOrder(T))
<1>1. \A x \in T : LowerIn(T, KeyOrder(T), x) = {y \in T : KeyBefore(y, x)}
  BY DEF LowerIn, KeyOrder
<1>2. InOrder(T, KeyBefore)
        = [i \in 1 .. Cardinality(T) |->
             CHOOSE x \in T : Cardinality({y \in T : KeyBefore(y, x)}) = i - 1]
  BY DEF InOrder
<1> DEFINE Lower(x) == {y \in T : KeyBefore(y, x)}
           Other(x) == LowerIn(T, KeyOrder(T), x)
<1>3. \A x \in T : Lower(x) = Other(x)
  BY <1>1
<1>4. Ranked(T, KeyOrder(T))
        = [i \in 1 .. Cardinality(T) |-> CHOOSE x \in T : Cardinality(Other(x)) = i - 1]
  BY DEF Ranked
<1>5. InOrder(T, KeyBefore)
        = [i \in 1 .. Cardinality(T) |-> CHOOSE x \in T : Cardinality(Lower(x)) = i - 1]
  BY <1>2
<1> HIDE DEF Lower, Other
<1>6. \A i : (CHOOSE x \in T : Cardinality(Lower(x)) = i - 1)
               = (CHOOSE x \in T : Cardinality(Other(x)) = i - 1)
  BY <1>3
<1>7. QED
  BY <1>4, <1>5, <1>6

-----------------------------------------------------------------------------
(* A range answers what its keys decode to, in the order of that.          *)
LEMMA OrderImage ==
    ASSUME NEW S, NEW R, TotalOn(S, R), NEW T, NEW Q,
           NEW f \in [S -> T], \A y \in T : \E x \in S : f[x] = y,
           \A x, y \in S : <<x, y>> \in R <=> <<f[x], f[y]>> \in Q
    PROVE  TotalOn(T, Q)
<1>1. /\ \A x \in S : <<x, x>> \notin R
      /\ \A x, y \in S : x = y \/ <<x, y>> \in R \/ <<y, x>> \in R
      /\ \A x, y, z \in S : <<x, y>> \in R /\ <<y, z>> \in R => <<x, z>> \in R
  BY DEF TotalOn
<1>2. ASSUME NEW a \in T
      PROVE  <<a, a>> \notin Q
  <2>1. PICK x \in S : f[x] = a
    OBVIOUS
  <2>2. QED
    BY <1>1, <2>1
<1>3. ASSUME NEW a \in T, NEW b \in T
      PROVE  a = b \/ <<a, b>> \in Q \/ <<b, a>> \in Q
  <2>1. PICK x \in S : f[x] = a
    OBVIOUS
  <2>2. PICK y \in S : f[y] = b
    OBVIOUS
  <2>3. x = y \/ <<x, y>> \in R \/ <<y, x>> \in R
    BY <1>1
  <2>4. QED
    BY <2>1, <2>2, <2>3
<1>4. ASSUME NEW a \in T, NEW b \in T, NEW c \in T, <<a, b>> \in Q, <<b, c>> \in Q
      PROVE  <<a, c>> \in Q
  <2>1. PICK x \in S : f[x] = a
    OBVIOUS
  <2>2. PICK y \in S : f[y] = b
    OBVIOUS
  <2>3. PICK z \in S : f[z] = c
    OBVIOUS
  <2>4. <<x, y>> \in R /\ <<y, z>> \in R
    BY <1>4, <2>1, <2>2, <2>3
  <2>5. <<x, z>> \in R
    BY <1>1, <2>4
  <2>6. QED
    BY <2>1, <2>3, <2>5
<1>5. QED
  BY <1>2, <1>3, <1>4 DEF TotalOn

\* What is ranged over are the members of T in the order Q, f of the tails of their keys.
Decodes(s, E, lo, hi, S, T, Q, f) ==
    LET c == Cardinality(T)
    IN  /\ c \in Nat
        /\ \E l \in [1 .. c -> S] :
             /\ Trimmed(E, storage_range(s, E \o lo, EndAt(E, hi), "Ascending"))
                  = [i \in 1 .. c |-> <<l[i], s[E \o l[i]]>>]
             /\ Trimmed(E, storage_range(s, E \o lo, EndAt(E, hi), "Descending"))
                  = [i \in 1 .. c |-> <<l[c - i + 1], s[E \o l[c - i + 1]]>>]
             /\ Ranked(T, Q) = [i \in 1 .. c |-> f[l[i]]]

LEMMA TailsDecoded ==
    ASSUME NEW s, Storage(s), \A x \in DOMAIN s : x \in Bytes, NEW E, GoodPrefix(s, E), NEW lo \in Bytes, NEW hi \in Ends,
           NEW S, S = TailsIn(s, E, lo, hi), NEW T, NEW Q,
           NEW f \in [S -> T], \A y \in T : \E x \in S : f[x] = y,
           \A x, y \in S : BytesBefore(x, y) <=> <<f[x], f[y]>> \in Q
    PROVE  Decodes(s, E, lo, hi, S, T, Q, f)
<1> DEFINE R == ByteOrder(S)
           l == Ranked(S, R)
           n == Cardinality(S)
           up == Trimmed(E, storage_range(s, E \o lo, EndAt(E, hi), "Ascending"))
           down == Trimmed(E, storage_range(s, E \o lo, EndAt(E, hi), "Descending"))
<1>1. Storage(s) /\ \A x \in DOMAIN s : x \in Bytes
  OBVIOUS
<1>2. l = Ranked(S, ByteOrder(S)) /\ n = Cardinality(S)
  OBVIOUS
<1> HIDE DEF l, n
<1>3. /\ S \in SUBSET Bytes /\ IsFiniteSet(S) /\ n \in Nat
      /\ up = [i \in 1 .. n |-> <<l[i], s[E \o l[i]]>>]
      /\ down = [i \in 1 .. n |-> <<l[n - i + 1], s[E \o l[n - i + 1]]>>]
  BY <1>1, <1>2, RangeFinds
<1>4. TotalOn(S, R) /\ \A x, y \in S : <<x, y>> \in R <=> BytesBefore(x, y)
  BY <1>3, ByteOrderTotal
<1>5. l \in [1 .. n -> S]
  BY <1>2, <1>3, <1>4, RankedList
<1> HIDE DEF R, up, down
<1>6. \A x, y \in S : <<x, y>> \in R <=> <<f[x], f[y]>> \in Q
  BY <1>4
<1>7. TotalOn(T, Q)
  BY <1>4, <1>6, OrderImage
<1>8. /\ Cardinality(T) = Cardinality(S)
      /\ Ranked(T, Q) = [i \in 1 .. Cardinality(S) |-> f[Ranked(S, R)[i]]]
  BY <1>3, <1>4, <1>6, <1>7, RankedImage
<1>9. Cardinality(T) = n /\ Ranked(T, Q) = [i \in 1 .. n |-> f[l[i]]]
  BY <1>2, <1>8 DEF R
<1> DEFINE c == Cardinality(T)
<1>10. c = n
  BY <1>9
<1> HIDE DEF c
<1>11. /\ c \in Nat /\ l \in [1 .. c -> S]
       /\ up = [i \in 1 .. c |-> <<l[i], s[E \o l[i]]>>]
       /\ down = [i \in 1 .. c |-> <<l[c - i + 1], s[E \o l[c - i + 1]]>>]
       /\ Ranked(T, Q) = [i \in 1 .. c |-> f[l[i]]]
  BY <1>3, <1>5, <1>9, <1>10
<1>12. QED
  BY <1>11 DEF c, up, down, Decodes

-----------------------------------------------------------------------------
(* The records below a first part.                                         *)
LEMMA OnePart ==
    ASSUME NEW x \in Bytes
    PROVE  <<x>> \in KeysOfParts(1) /\ joined_key(<<x>>) = x
<1> DEFINE k == <<x>>
           m == 1
<1>1. k \in Seq(Bytes) /\ Len(k) = m /\ m \in Nat /\ \A n \in 1 .. m - 1 : Len(k[n]) < 65535
  OBVIOUS
<1>2. k[1] = x
  OBVIOUS
<1> HIDE DEF k, m
<1>3. k \in KeysOfParts(m)
  BY <1>1, KeyOfParts
<1>4. k \in KeysOfParts(1)
  BY <1>3 DEF m
<1>5. joined_key(k) = x
  BY <1>2, <1>4, JoinedOne
<1>6. QED
  BY <1>4, <1>5 DEF k

-----------------------------------------------------------------------------
(* The entries of the multi index.                                         *)
\* The primary key is the end of an entry.
LEMMA PkIs ==
    ASSUME NEW y \in Bytes, NEW r \in Bytes
    PROVE  PkOf(<<y \o r, Len(r)>>) = r
<1> DEFINE x == y \o r
           n == Len(r)
           q == Len(y)
<1>1. x \in Bytes /\ Len(x) = q + n /\ \A i \in 1 .. n : x[q + i] = r[i]
  BY BytesConcat
<1>2. n \in Nat /\ q \in Nat /\ n = Len(r)
  BY BytesType
<1> HIDE DEF x, n, q
<1> DEFINE t == SubSeq(x, Len(x) - n + 1, Len(x))
<1>3. t \in Bytes /\ Len(t) = n /\ \A i \in 1 .. n : t[i] = x[q + i]
  BY <1>1, <1>2 DEF Bytes
<1>4. PkOf(<<x, n>>) = t
  BY DEF PkOf
<1> HIDE DEF t
<1>5. t \in Seq(Byte) /\ r \in Seq(Byte) /\ Len(t) = Len(r) /\ \A i \in 1 .. Len(t) : t[i] = r[i]
  BY <1>1, <1>2, <1>3 DEF Bytes
<1>6. t = r
  BY ONLY <1>5, SameSeq
<1>7. QED
  BY <1>4, <1>6 DEF x, n

LEMMA NestedBytes ==
    ASSUME NEW t \in Seq(Short)
    PROVE  to_length_prefixed_nested(t) \in Bytes
<1>1. <<>> \in Short
  BY BytesEmpty DEF Short
<1>2. QED
  BY <1>1, NestedFirst

-----------------------------------------------------------------------------
(* The entries of the multi index below one index key.                     *)
LEMMA SameLast ==
    ASSUME NEW S, NEW a \in Seq(S), NEW b \in Seq(S), Len(a) = Len(b), NEW x \in S, NEW y \in S,
           a \o <<x>> = b \o <<y>>
    PROVE  a = b /\ x = y
<1>1. <<x>> \in Seq(S) /\ <<y>> \in Seq(S) /\ Len(<<x>>) = 1 /\ Len(<<y>>) = 1
      /\ <<x>>[1] = x /\ <<y>>[1] = y
  OBVIOUS
<1> DEFINE p == <<x>>
           q == <<y>>
<1>2. p \in Seq(S) /\ q \in Seq(S) /\ Len(p) = 1 /\ Len(q) = 1 /\ p[1] = x /\ q[1] = y
  BY <1>1
<1>3. a \o p = b \o q
  OBVIOUS
<1> HIDE DEF p, q
<1>4. /\ \A i \in 1 .. Len(a) : (a \o p)[i] = a[i]
      /\ \A i \in 1 .. Len(p) : (a \o p)[Len(a) + i] = p[i]
  BY <1>2, Concat
<1>5. /\ \A i \in 1 .. Len(b) : (b \o q)[i] = b[i]
      /\ \A i \in 1 .. Len(q) : (b \o q)[Len(b) + i] = q[i]
  BY <1>2, Concat
<1>6. Len(a) \in Nat
  OBVIOUS
<1>7. x = y
  <2>1. 1 \in 1 .. Len(p) /\ 1 \in 1 .. Len(q)
    BY <1>2
  <2>2. (a \o p)[Len(a) + 1] = p[1] /\ (b \o q)[Len(b) + 1] = q[1]
    BY <1>4, <1>5, <2>1
  <2>3. QED
    BY <1>2, <1>3, <2>2
<1>8. \A i \in 1 .. Len(a) : a[i] = b[i]
  BY <1>3, <1>4, <1>5
<1>9. a = b
  BY <1>8, SameSeq
<1>10. QED
  BY <1>7, <1>9

LEMMA NoBounds ==
    ASSUME NEW E \in Bytes, NEW s, NEW order
    PROVE  \E lo \in Bytes, hi \in Ends :
             /\ calc_start_bound(E, None) = E \o lo /\ calc_end_bound(E, None) = EndAt(E, hi)
             /\ \A S : (\A x \in S : x \in Bytes) =>
                         \A x \in S : ~BytesBefore(x, lo) /\ UpTo(x, hi)
<1> DEFINE lo == <<>>
           hi == <<>>
<1>1. lo \in Bytes /\ Len(lo) = 0 /\ E \o lo = E
  BY BytesEmpty
<1>2. hi \in Ends /\ calc_end_bound(E, None) = EndAt(E, hi) /\ \A x : UpTo(x, hi)
  BY DEF Ends, calc_end_bound, EndAt, UpTo
<1>3. calc_start_bound(E, None) = E
  BY DEF calc_start_bound
<1> HIDE DEF lo, hi
<1>4. ASSUME NEW x \in Bytes
      PROVE  ~BytesBefore(x, lo)
  <2>1. \A i \in 1 .. Len(lo) : FALSE
    BY <1>1
  <2>2. QED
    BY <1>1, <2>1, BeforeAt
<1>5. QED
  BY <1>1, <1>2, <1>3, <1>4

-----------------------------------------------------------------------------
(* Numbers as bytes.                                                       *)

\* What is left of a number when byte after byte is shifted out of it.
Shifts(width, n, q) ==
    /\ q \in [0 .. width -> Nat]
    /\ q[0] = n
    /\ \A j \in 1 .. width : q[j] = q[j-1] \div 256

\* A number of so many bytes.
Fits(width, n) == \E q : Shifts(width, n, q) /\ q[width] = 0

\* What a byte is shifted out of.
Shifted == Nat

LEMMA ShiftingSteps ==
    ASSUME NEW n \in Shifted, NEW m \in Nat, NEW g \in [1 .. m -> [Shifted -> Shifted]]
    PROVE  \E f \in [0 .. m -> Shifted] : f[0] = n /\ \A j \in 1 .. m : f[j] = g[j][f[j-1]]
  BY StepsTaken, SMTT(60)

LEMMA ShiftsExist ==
    ASSUME NEW width \in Nat, NEW n \in Nat
    PROVE  \E q : Shifts(width, n, q)
<1> DEFINE g == [j \in 1 .. width |-> [x \in Nat |-> x \div 256]]
<1>1. \A x \in Nat : x \div 256 \in Nat
  OBVIOUS
<1>2. g \in [1 .. width -> [Nat -> Nat]]
  BY <1>1
<1>3. \A j \in 1 .. width, x \in Nat : g[j][x] = x \div 256
  OBVIOUS
<1> HIDE DEF g
<1>4. PICK q \in [0 .. width -> Nat] : q[0] = n /\ \A j \in 1 .. width : q[j] = g[j][q[j-1]]
  <2>1. n \in Shifted /\ g \in [1 .. width -> [Shifted -> Shifted]]
    BY <1>2 DEF Shifted
  <2>2. \E q \in [0 .. width -> Shifted] : q[0] = n /\ \A j \in 1 .. width : q[j] = g[j][q[j-1]]
    BY <2>1, ShiftingSteps
  <2>3. QED
    BY <2>2 DEF Shifted
<1>5. ASSUME NEW j \in 1 .. width
      PROVE  q[j] = q[j-1] \div 256
  <2>1. j - 1 \in 0 .. width
    OBVIOUS
  <2>2. q[j-1] \in Nat
    BY <2>1
  <2>3. q[j] = g[j][q[j-1]]
    BY <1>4
  <2>4. g[j][q[j-1]] = q[j-1] \div 256
    BY <1>3, <2>2
  <2>5. QED
    BY ONLY <2>3, <2>4
<1>6. Shifts(width, n, q)
  BY <1>4, <1>5 DEF Shifts
<1>7. QED
  BY <1>6

LEMMA BytesShifted ==
    ASSUME NEW width \in Nat, NEW n \in Nat, NEW q, Shifts(width, n, q)
    PROVE  /\ to_be_bytes(width, n) \in Bytes
           /\ Len(to_be_bytes(width, n)) = width
           /\ \A i \in 1 .. width : to_be_bytes(width, n)[i] = q[width - i] % 256
<1> DEFINE F(h) == [bytes \in 0 .. width - 1 |->
                      IF bytes = 0 THEN n ELSE h[bytes - 1] \div 256]
           shifted == CHOOSE h : h = F(h)
           r == [j \in 0 .. width - 1 |-> q[j]]
<1>1. /\ q[0] = n /\ \A j \in 0 .. width : q[j] \in Nat
      /\ \A j \in 1 .. width : q[j] = q[j-1] \div 256
  BY DEF Shifts
<1>2. r = F(r)
  <2>1. ASSUME NEW j \in 0 .. width - 1
        PROVE  r[j] = IF j = 0 THEN n ELSE r[j - 1] \div 256
    <3>1. CASE j = 0
      BY <1>1, <3>1
    <3>2. CASE j # 0
      <4>1. j \in 1 .. width /\ j - 1 \in 0 .. width - 1
        BY <3>2
      <4>2. QED
        BY <1>1, <3>2, <4>1
    <3>3. QED
      BY <3>1, <3>2
  <2> HIDE DEF r
  <2>2. r = [j \in 0 .. width - 1 |-> r[j]]
    BY DEF r
  <2>3. QED
    BY <2>1, <2>2
<1>3. shifted = F(shifted)
  <2>1. \E h : h = F(h)
    BY <1>2
  <2> HIDE DEF F
  <2>2. QED
    BY <2>1
<1>4. to_be_bytes(width, n) = [i \in 1 .. width |-> shifted[width - i] % 256]
  BY DEF to_be_bytes
<1> HIDE DEF shifted
<1> DEFINE T == {j \in 0 .. width : j < width => shifted[j] = q[j]}
<1>5. 0 \in T
  BY <1>1, <1>3
<1>6. ASSUME NEW j \in 1 .. width, j - 1 \in T
      PROVE  j \in T
  <2>1. SUFFICES ASSUME j < width PROVE shifted[j] = q[j]
    OBVIOUS
  <2>2. j \in 0 .. width - 1 /\ j # 0
    BY <2>1
  <2>3. shifted[j] = shifted[j-1] \div 256
    BY <1>3, <2>2
  <2>4. shifted[j-1] = q[j-1]
    BY <1>6, <2>1
  <2>5. QED
    BY <1>1, <2>3, <2>4
<1> HIDE DEF T
<1>7. \A j \in 0 .. width : j \in T
  BY <1>5, <1>6, BoundedInduction
<1>8. ASSUME NEW i \in 1 .. width
      PROVE  shifted[width - i] = q[width - i] /\ q[width - i] % 256 \in Byte
  <2>1. width - i \in 0 .. width /\ width - i < width
    OBVIOUS
  <2>2. shifted[width - i] = q[width - i]
    BY <1>7, <2>1 DEF T
  <2>3. q[width - i] \in Nat
    BY <1>1, <2>1
  <2>4. QED
    BY <2>2, <2>3 DEF Byte
<1> DEFINE b == [i \in 1 .. width |-> shifted[width - i] % 256]
<1>9. b \in [1 .. width -> Byte] /\ \A i \in 1 .. width : b[i] = q[width - i] % 256
  BY <1>8
<1> HIDE DEF b
<1>10. b \in Bytes /\ Len(b) = width
  BY <1>9 DEF Bytes
<1>11. to_be_bytes(width, n) = b
  BY <1>4 DEF b
<1>12. QED
  BY <1>9, <1>10, <1>11

\* The order of the bytes is that of the numbers.
LEMMA UintOrder ==
    ASSUME NEW width \in Nat, NEW m \in Nat, Fits(width, m), NEW n \in Nat, Fits(width, n)
    PROVE  /\ to_be_bytes(width, m) = to_be_bytes(width, n) => m = n
           /\ BytesBefore(to_be_bytes(width, m), to_be_bytes(width, n)) <=> m < n
<1>1. PICK p : Shifts(width, m, p) /\ p[width] = 0
  BY DEF Fits
<1>2. PICK q : Shifts(width, n, q) /\ q[width] = 0
  BY DEF Fits
<1> DEFINE a == to_be_bytes(width, m)
           b == to_be_bytes(width, n)
<1>3. /\ a \in Bytes /\ Len(a) = width /\ b \in Bytes /\ Len(b) = width
      /\ \A i \in 1 .. width : a[i] = p[width - i] % 256 /\ b[i] = q[width - i] % 256
  BY <1>1, <1>2, BytesShifted
<1>4. /\ p[0] = m /\ q[0] = n /\ \A j \in 0 .. width : p[j] \in Nat /\ q[j] \in Nat
      /\ \A j \in 1 .. width : p[j] = p[j-1] \div 256 /\ q[j] = q[j-1] \div 256
  BY <1>1, <1>2 DEF Shifts
<1> HIDE DEF a, b
<1> DEFINE Same(i) == \A c \in 1 .. i : a[c] = b[c]
           Lower(i) == \E c \in 1 .. i : a[c] < b[c] /\ \A d \in 1 .. c - 1 : a[d] = b[d]
           Higher(i) == \E c \in 1 .. i : b[c] < a[c] /\ \A d \in 1 .. c - 1 : a[d] = b[d]
           T == {i \in 0 .. width : /\ p[width - i] = q[width - i] => Same(i)
                                    /\ p[width - i] < q[width - i] => Lower(i)
                                    /\ q[width - i] < p[width - i] => Higher(i)}
<1>5. 0 \in T
  BY <1>1, <1>2
<1>6. ASSUME NEW i \in 1 .. width, i - 1 \in T
      PROVE  i \in T
  <2> DEFINE u == p[width - i]
             v == q[width - i]
             x == p[width - (i - 1)]
             y == q[width - (i - 1)]
  <2>1. /\ width - i \in 0 .. width /\ width - (i - 1) \in 1 .. width
        /\ (width - (i - 1)) - 1 = width - i
    OBVIOUS
  <2>2. u \in Nat /\ v \in Nat /\ x \in Nat /\ y \in Nat
        /\ x = u \div 256 /\ y = v \div 256 /\ a[i] = u % 256 /\ b[i] = v % 256
    BY <1>3, <1>4, <2>1
  <2>3. /\ x = y => Same(i - 1)
        /\ x < y => Lower(i - 1)
        /\ y < x => Higher(i - 1)
    BY <1>6
  <2> HIDE DEF u, v, x, y
  <2>4. /\ u = v => x = y /\ a[i] = b[i]
        /\ u < v => x < y \/ (x = y /\ a[i] < b[i])
        /\ v < u => y < x \/ (x = y /\ b[i] < a[i])
    BY <2>2
  <2>5. /\ Same(i - 1) /\ a[i] = b[i] => Same(i)
        /\ Same(i - 1) /\ a[i] < b[i] => Lower(i)
        /\ Same(i - 1) /\ b[i] < a[i] => Higher(i)
        /\ Lower(i - 1) => Lower(i)
        /\ Higher(i - 1) => Higher(i)
    <3>1. Same(i - 1) /\ a[i] = b[i] => Same(i)
      OBVIOUS
    <3>2. Same(i - 1) /\ a[i] < b[i] => Lower(i)
      OBVIOUS
    <3>3. Same(i - 1) /\ b[i] < a[i] => Higher(i)
      OBVIOUS
    <3>4. 1 .. i - 1 \subseteq 1 .. i
      OBVIOUS
    <3>5. QED
      BY <3>1, <3>2, <3>3, <3>4
  <2> HIDE DEF Same, Lower, Higher
  <2>6. u = v => Same(i)
    BY <2>3, <2>4, <2>5
  <2>7. u < v => Lower(i)
    BY <2>3, <2>4, <2>5
  <2>8. v < u => Higher(i)
    BY <2>3, <2>4, <2>5
  <2>9. QED
    BY <2>6, <2>7, <2>8 DEF u, v
<1> HIDE DEF T
<1>7. width \in T
  <2>1. \A i \in 0 .. width : i \in T
    BY <1>5, <1>6, BoundedInduction
  <2>2. QED
    BY <2>1
<1>8. width - width = 0
  OBVIOUS
<1>9. /\ m = n => Same(width)
      /\ m < n => Lower(width)
      /\ n < m => Higher(width)
  BY <1>4, <1>7, <1>8 DEF T
<1>10. Lower(width) => BytesBefore(a, b)
  <2>1. SUFFICES ASSUME NEW c \in 1 .. width, a[c] < b[c], \A d \in 1 .. c - 1 : a[d] = b[d]
                 PROVE  BytesBefore(a, b)
    OBVIOUS
  <2>2. Below(a, b, c)
    BY <1>3, <2>1 DEF Below
  <2>3. QED
    BY <1>3, <2>2, BeforeAt
<1>11. Higher(width) => BytesBefore(b, a)
  <2>1. SUFFICES ASSUME NEW c \in 1 .. width, b[c] < a[c], \A d \in 1 .. c - 1 : a[d] = b[d]
                 PROVE  BytesBefore(b, a)
    OBVIOUS
  <2>2. Below(b, a, c)
    BY <1>3, <2>1 DEF Below
  <2>3. QED
    BY <1>3, <2>2, BeforeAt
<1> HIDE DEF Lower, Higher
<1>12. Same(width) => a = b
  BY <1>3, SameSeq DEF Bytes
<1> HIDE DEF Same
<1>13. m < n \/ m = n \/ n < m
  OBVIOUS
<1>14. /\ m = n => a = b
       /\ m < n => BytesBefore(a, b)
       /\ n < m => BytesBefore(b, a)
  BY <1>9, <1>10, <1>11, <1>12
<1>15. BytesBefore(a, b) => a # b /\ ~BytesBefore(b, a)
  BY <1>3, BytesOrder
<1>16. BytesBefore(b, a) => a # b
  BY <1>3, BytesOrder
<1>17. /\ a = b => m = n
       /\ BytesBefore(a, b) <=> m < n
  <2>1. a = b => m = n
    BY <1>13, <1>14, <1>15, <1>16
  <2>2. BytesBefore(a, b) => m < n
    BY <1>13, <1>14, <1>15, <1>16
  <2>3. QED
    BY <1>14, <2>1, <2>2
<1>18. QED
  BY <1>17 DEF a, b

\* The greatest of some indices.
LEMMA GreatestIndex ==
    ASSUME NEW n \in Nat, NEW S \in SUBSET (1 .. n), S # {}
    PROVE  Max(S) \in S /\ \A x \in S : x <= Max(S)
<1> DEFINE Great(R) == \E x \in R : \A y \in R : x >= y
           Each(i) == \A R \in SUBSET (1 .. i) : R # {} => Great(R)
           T == {i \in 0 .. n : Each(i)}
<1>1. 0 \in T
  <2>1. 1 .. 0 = {}
    OBVIOUS
  <2>2. \A R \in SUBSET (1 .. 0) : R = {}
    BY <2>1
  <2>3. Each(0)
    BY <2>2
  <2> HIDE DEF Each
  <2>4. QED
    BY <2>3
<1>2. ASSUME NEW i \in 1 .. n, i - 1 \in T
      PROVE  i \in T
  <2>1. SUFFICES ASSUME NEW R \in SUBSET (1 .. i), R # {} PROVE Great(R)
    OBVIOUS
  <2>2. CASE i \in R
    BY <2>2
  <2>3. CASE i \notin R
    <3>1. R \in SUBSET (1 .. i - 1)
      BY <2>3
    <3>2. QED
      BY <1>2, <2>1, <3>1
  <2>4. QED
    BY <2>2, <2>3
<1> HIDE DEF T
<1>3. n \in T
  BY <1>1, <1>2, BoundedInduction
<1>4. Great(S)
  BY <1>3 DEF T
<1>5. Max(S) \in S /\ \A y \in S : Max(S) >= y
  BY <1>4 DEF Max
<1> HIDE DEF Great
<1>6. ASSUME NEW x \in S PROVE x <= Max(S)
  <2>1. x \in 1 .. n /\ Max(S) \in 1 .. n
    BY <1>5
  <2>2. QED
    BY <1>5, <2>1
<1>7. QED
  BY <1>5, <1>6

\* The recursion by which the library reads a number, over sets of indices.
Foldings(n) == [SUBSET (1 .. n) -> Int]
Folded(b, n, h) ==
    [S \in SUBSET (1 .. n) |->
        IF S = {} THEN 0 ELSE 256 * h[S \ {Max(S)}] + b[Max(S)]]

LEMMA FoldedType ==
    ASSUME NEW b \in Bytes, NEW h \in Foldings(Len(b))
    PROVE  Folded(b, Len(b), h) \in Foldings(Len(b))
<1> DEFINE n == Len(b)
<1>1. n \in Nat /\ \A i \in 1 .. n : b[i] \in Int
  BY BytesType
<1> HIDE DEF n
<1>2. h \in [SUBSET (1 .. n) -> Int]
  BY DEF Foldings, n
<1>3. ASSUME NEW S \in SUBSET (1 .. n), S # {}
      PROVE  256 * h[S \ {Max(S)}] + b[Max(S)] \in Int
  <2>1. Max(S) \in S
    BY <1>1, <1>3, GreatestIndex
  <2>2. b[Max(S)] \in Int
    BY <1>1, <2>1
  <2>3. S \ {Max(S)} \in SUBSET (1 .. n)
    OBVIOUS
  <2>4. h[S \ {Max(S)}] \in Int
    BY <1>2, <2>3
  <2>5. QED
    BY <2>2, <2>4
<1>4. QED
  BY <1>3 DEF Folded, Foldings, n

Iterated(f, c, g) == f[0] = c /\ \A n \in Nat : f[n+1] = g[f[n]]

LEMMA FoldingSteps ==
    ASSUME NEW m, NEW c \in Foldings(m), NEW g \in [Foldings(m) -> Foldings(m)]
    PROVE  \E f \in [Nat -> Foldings(m)] : Iterated(f, c, g)
<1> DEFINE S == Foldings(m)
<1> HIDE DEF S
<1>1. c \in S /\ g \in [S -> S]
  BY DEF S
<1>2. \E f \in [Nat -> S] : f[0] = c /\ \A n \in Nat : f[n+1] = g[f[n]]
  BY ONLY <1>1, IteratesDefined, SMTT(60)
<1>3. QED
  BY <1>2 DEF S, Iterated

LEMMA FoldingExists ==
    ASSUME NEW b \in Bytes
    PROVE  \E h \in Foldings(Len(b)) : h = Folded(b, Len(b), h)
<1> DEFINE n == Len(b)
           F == Foldings(n)
           g == [h \in F |-> Folded(b, n, h)]
           c == [S \in SUBSET (1 .. n) |-> 0]
<1>1. n \in Nat
  BY BytesType
<1>2. g \in [F -> F]
  BY FoldedType
<1>3. c \in F
  BY DEF Foldings
<1>4. \A h \in F : g[h] = Folded(b, n, h)
  OBVIOUS
<1> HIDE DEF F, g, c
<1>5. PICK f \in [Nat -> F] : Iterated(f, c, g)
  BY <1>2, <1>3, FoldingSteps DEF F
<1>6. \A i \in Nat : f[i] \in F /\ f[i+1] = Folded(b, n, f[i])
  BY <1>4, <1>5 DEF Iterated
<1> DEFINE T == {i \in Nat : i <= n => \A S \in SUBSET (1 .. i) : f[i+1][S] = f[i][S]}
<1>7. \A i \in Nat : \A S \in SUBSET (1 .. n) :
        f[i+1][S] = IF S = {} THEN 0 ELSE 256 * f[i][S \ {Max(S)}] + b[Max(S)]
  <2>1. SUFFICES ASSUME NEW i \in Nat, NEW S \in SUBSET (1 .. n)
                 PROVE  f[i+1][S] = IF S = {} THEN 0 ELSE 256 * f[i][S \ {Max(S)}] + b[Max(S)]
    OBVIOUS
  <2> DEFINE h == f[i]
  <2>2. f[i+1] = Folded(b, n, h)
    BY <1>6
  <2> HIDE DEF h
  <2>3. Folded(b, n, h)[S] = IF S = {} THEN 0 ELSE 256 * h[S \ {Max(S)}] + b[Max(S)]
    BY DEF Folded
  <2>4. QED
    BY <2>2, <2>3 DEF h
<1>8. 0 \in T
  <2>1. ASSUME NEW S \in SUBSET (1 .. 0)
        PROVE  f[0 + 1][S] = f[0][S]
    <3>1. S = {} /\ S \in SUBSET (1 .. n)
      OBVIOUS
    <3>2. f[0 + 1][S] = 0
      BY <1>7, <3>1
    <3>3. c[S] = 0
      BY <3>1 DEF c
    <3>4. QED
      BY <1>5, <3>2, <3>3 DEF Iterated
  <2>2. QED
    BY <2>1
<1>9. ASSUME NEW i \in Nat, i \in T
      PROVE  i + 1 \in T
  <2>1. SUFFICES ASSUME i + 1 <= n, NEW S \in SUBSET (1 .. i + 1)
                 PROVE  f[(i + 1) + 1][S] = f[i + 1][S]
    OBVIOUS
  <2>2. S \in SUBSET (1 .. n)
    BY <1>1, <2>1
  <2>3. i + 1 \in Nat
    OBVIOUS
  <2>4. CASE S = {}
    <3>1. f[(i + 1) + 1][S] = 0
      BY <1>7, <2>3, <2>2, <2>4
    <3>2. f[i + 1][S] = 0
      BY <1>7, <2>2, <2>4
    <3>3. QED
      BY <3>1, <3>2
  <2>5. CASE S # {}
    <3>1. Max(S) \in S /\ \A x \in S : x <= Max(S)
      BY <1>1, <2>2, <2>5, GreatestIndex
    <3> DEFINE R == S \ {Max(S)}
    <3>2. R \in SUBSET (1 .. i)
      <4>1. ASSUME NEW x \in R PROVE x \in 1 .. i
        <5>1. x \in 1 .. i + 1 /\ Max(S) \in 1 .. i + 1 /\ x <= Max(S) /\ x # Max(S)
          BY <3>1
        <5>2. QED
          BY <5>1
      <4>2. QED
        BY <4>1
    <3>3. f[i+1][R] = f[i][R]
      BY <1>9, <2>1, <3>2, <1>1
    <3>4. f[(i + 1) + 1][S] = 256 * f[i + 1][R] + b[Max(S)]
      BY <1>7, <2>3, <2>2, <2>5
    <3>5. f[i + 1][S] = 256 * f[i][R] + b[Max(S)]
      BY <1>7, <2>2, <2>5
    <3>6. QED
      BY <3>3, <3>4, <3>5
  <2>6. QED
    BY <2>4, <2>5
<1> HIDE DEF T
<1>10. n \in T
  <2>1. \A i \in Nat : i \in T
    BY <1>8, <1>9, SetInduction
  <2>2. QED
    BY <1>1, <2>1
<1> DEFINE h == f[n]
<1>11. h \in F /\ Folded(b, n, h) \in F
  BY <1>1, <1>6, FoldedType DEF F
<1>12. \A S \in SUBSET (1 .. n) : Folded(b, n, h)[S] = h[S]
  <2>1. SUFFICES ASSUME NEW S \in SUBSET (1 .. n) PROVE Folded(b, n, h)[S] = h[S]
    OBVIOUS
  <2>2. f[n + 1][S] = f[n][S]
    BY <1>1, <1>10 DEF T
  <2>3. f[n + 1] = Folded(b, n, f[n])
    BY <1>1, <1>6
  <2>4. QED
    BY <2>2, <2>3
<1> DEFINE k == Folded(b, n, h)
<1>13. k = h
  <2> HIDE DEF h, k
  <2>1. h \in [SUBSET (1 .. n) -> Int] /\ k \in [SUBSET (1 .. n) -> Int]
    BY <1>11 DEF F, Foldings, k
  <2>2. \A S \in SUBSET (1 .. n) : k[S] = h[S]
    BY <1>12 DEF k
  <2>3. QED
    BY <2>1, <2>2
<1> HIDE DEF h
<1>14. QED
  BY <1>11, <1>13 DEF F, k

\* What the library computes is the value at all indices of a solution.
LEMMA UnsignedFolds ==
    ASSUME NEW b \in Bytes
    PROVE  \E h \in Foldings(Len(b)) : h = Folded(b, Len(b), h) /\ Unsigned(b) = h[1 .. Len(b)]
<1> DEFINE n == Len(b)
           F(h) == [S \in SUBSET (1 .. n) |->
                      IF S = {} THEN 0 ELSE 256 * h[S \ {Max(S)}] + b[Max(S)]]
           k == CHOOSE h : h = F(h)
<1>1. n \in Nat /\ DOMAIN b = 1 .. n /\ \A i \in 1 .. n : b[i] \in Int
  BY BytesType DEF Bytes
<1>2. Unsigned(b) = k[1 .. n]
  BY <1>1 DEF Unsigned, FoldLeft, MapThenFoldSet
<1>3. \E h \in Foldings(n) : h = F(h)
  BY FoldingExists DEF Folded
<1>4. k = F(k)
  <2>1. \E h : h = F(h)
    BY <1>3
  <2> HIDE DEF F
  <2>2. QED
    BY <2>1
<1> HIDE DEF k
<1> DEFINE Typed(i) == \A S \in SUBSET (1 .. i) : k[S] \in Int
           T == {i \in 0 .. n : Typed(i)}
<1>5. \A S \in SUBSET (1 .. n) :
        k[S] = IF S = {} THEN 0 ELSE 256 * k[S \ {Max(S)}] + b[Max(S)]
  BY <1>4
<1>6. k \in Foldings(n)
  <2>1. 0 \in T
    <3>1. \A S \in SUBSET (1 .. 0) : S = {} /\ S \in SUBSET (1 .. n)
      OBVIOUS
    <3>2. \A S \in SUBSET (1 .. 0) : k[S] = 0
      BY <1>5, <3>1
    <3>3. Typed(0)
      BY <3>2
    <3> HIDE DEF Typed
    <3>4. QED
      BY <1>1, <3>3
  <2>2. ASSUME NEW i \in 1 .. n, i - 1 \in T
        PROVE  i \in T
    <3>1. SUFFICES ASSUME NEW S \in SUBSET (1 .. i) PROVE k[S] \in Int
      BY <1>1
    <3>2. S \in SUBSET (1 .. n)
      BY <1>1, <3>1
    <3>3. CASE S = {}
      <4>1. k[S] = 0
        BY <1>5, <3>2, <3>3
      <4>2. QED
        BY <4>1
    <3>4. CASE S # {}
      <4>1. Max(S) \in S /\ \A x \in S : x <= Max(S)
        BY <1>1, <3>2, <3>4, GreatestIndex
      <4> DEFINE R == S \ {Max(S)}
      <4>2. R \in SUBSET (1 .. i - 1)
        <5>1. ASSUME NEW x \in R PROVE x \in 1 .. i - 1
          <6>1. x \in 1 .. i /\ Max(S) \in 1 .. i /\ x <= Max(S) /\ x # Max(S)
            BY <4>1
          <6>2. QED
            BY <6>1
        <5>2. QED
          BY <5>1
      <4>3. k[R] \in Int
        BY <2>2, <4>2
      <4>4. b[Max(S)] \in Int
        BY <1>1, <3>2, <4>1
      <4>5. k[S] = 256 * k[R] + b[Max(S)]
        BY <1>5, <3>2, <3>4
      <4> HIDE DEF R
      <4>6. QED
        BY <4>3, <4>4, <4>5
    <3>5. QED
      BY <3>3, <3>4
  <2> HIDE DEF T
  <2>3. n \in T
    <3>1. n \in Nat /\ 0 \in T /\ \A i \in 1 .. n : i - 1 \in T => i \in T
      BY <1>1, <2>1, <2>2
    <3>2. \A i \in 0 .. n : i \in T
      BY ONLY <3>1, BoundedInduction
    <3>3. QED
      BY <1>1, <3>2
  <2>4. \A S \in SUBSET (1 .. n) : k[S] \in Int
    BY <2>3 DEF T
  <2>5. k = [S \in SUBSET (1 .. n) |-> k[S]]
    BY <1>4
  <2>6. QED
    BY <2>4, <2>5 DEF Foldings
<1>7. QED
  BY <1>2, <1>4, <1>6 DEF Folded

\* A number of so many bytes is read back from them.
LEMMA UintRead ==
    ASSUME NEW width \in Nat, NEW n \in Nat, Fits(width, n)
    PROVE  Unsigned(to_be_bytes(width, n)) = n
<1>1. PICK q : Shifts(width, n, q) /\ q[width] = 0
  BY DEF Fits
<1> DEFINE b == to_be_bytes(width, n)
<1>2. b \in Bytes /\ Len(b) = width /\ \A i \in 1 .. width : b[i] = q[width - i] % 256
  BY <1>1, BytesShifted
<1>3. /\ q[0] = n /\ \A j \in 0 .. width : q[j] \in Nat
      /\ \A j \in 1 .. width : q[j] = q[j-1] \div 256
  BY <1>1 DEF Shifts
<1> HIDE DEF b
<1>4. PICK h : h = Folded(b, width, h) /\ Unsigned(b) = h[1 .. width]
  BY <1>2, UnsignedFolds
<1>5. \A S \in SUBSET (1 .. width) :
        h[S] = IF S = {} THEN 0 ELSE 256 * h[S \ {Max(S)}] + b[Max(S)]
  BY <1>4 DEF Folded
<1> DEFINE T == {i \in 0 .. width : h[1 .. i] = q[width - i]}
<1>6. 0 \in T
  <2>1. 1 .. 0 = {} /\ {} \in SUBSET (1 .. width) /\ width - 0 = width
    OBVIOUS
  <2>2. h[1 .. 0] = 0
    BY <1>5, <2>1
  <2>3. QED
    BY <1>1, <2>1, <2>2
<1>7. ASSUME NEW i \in 1 .. width, i - 1 \in T
      PROVE  i \in T
  <2> DEFINE S == 1 .. i
  <2>1. S \in SUBSET (1 .. width) /\ S # {} /\ i \in S /\ i \in Nat
    OBVIOUS
  <2>2. Max(S) \in S /\ \A x \in S : x <= Max(S)
    BY <2>1, GreatestIndex
  <2>3. Max(S) = i
    BY <2>1, <2>2
  <2>4. S \ {i} = 1 .. i - 1
    OBVIOUS
  <2> HIDE DEF S
  <2>5. h[S] = 256 * h[1 .. i - 1] + b[i]
    BY <1>5, <2>1, <2>3, <2>4
  <2>6. /\ width - i \in 0 .. width /\ width - (i - 1) \in 1 .. width
        /\ (width - (i - 1)) - 1 = width - i
    OBVIOUS
  <2>7. q[width - (i - 1)] = q[width - i] \div 256 /\ q[width - i] \in Nat
        /\ b[i] = q[width - i] % 256
    BY <1>2, <1>3, <2>6
  <2>8. h[S] = q[width - i]
    BY <1>7, <2>5, <2>7
  <2>9. QED
    BY <2>8 DEF S
<1> HIDE DEF T
<1>8. width \in T
  BY <1>6, <1>7, BoundedInduction
<1>9. h[1 .. width] = n
  BY <1>3, <1>8 DEF T
<1>10. QED
  BY <1>4, <1>9 DEF b

-----------------------------------------------------------------------------
(* Collections in a storage, each under a name.                            *)

\* Everything in the storage is under one of the names.
Shaped(s, names) ==
    /\ Storage(s)
    /\ \A x \in DOMAIN s : \E ns \in names, r \in Bytes : x = length_prefixed_with_key(ns, r)

\* Under a name there is what a function says, each at its key.
Holds(s, ns, tail, c) ==
    /\ \A d \in DOMAIN tail : get(s, length_prefixed_with_key(ns, tail[d])) = c[d]
    /\ \A r \in Bytes : get(s, length_prefixed_with_key(ns, r)) # None =>
                          \E d \in DOMAIN tail : r = tail[d]

\* Keys of their own for all of a set.
Apart(tail, D) == /\ tail \in [D -> Bytes]
                  /\ \A d, e \in D : tail[d] = tail[e] => d = e

\* What the storage has are bytes.
LEMMA ShapedBytes ==
    ASSUME NEW s, NEW names \in SUBSET Short, Shaped(s, names)
    PROVE  \A x \in DOMAIN s : x \in Bytes
<1>1. \A n \in names, r \in Bytes : length_prefixed_with_key(n, r) \in Bytes
  BY PrefixedOrder
<1>2. QED
  BY <1>1 DEF Shaped

\* A write under one of the names keeps the shape.
LEMMA WriteShapes ==
    ASSUME NEW s, NEW names, Shaped(s, names), NEW ns \in names, NEW r \in Bytes, NEW t, NEW v,
           Differs(s, t, length_prefixed_with_key(ns, r), v)
    PROVE  Shaped(t, names)
<1> DEFINE p == length_prefixed_with_key(ns, r)
<1>1. Storage(t) /\ DOMAIN t \subseteq DOMAIN s \cup {p}
  BY DEF Differs
<1>2. \A x \in DOMAIN s : \E n \in names, q \in Bytes : x = length_prefixed_with_key(n, q)
  BY DEF Shaped
<1>3. \A x \in DOMAIN t : \E n \in names, q \in Bytes : x = length_prefixed_with_key(n, q)
  BY <1>1, <1>2
<1>4. QED
  BY <1>1, <1>3 DEF Shaped

\* A write under a name changes what is there at one key,
LEMMA WriteHeld ==
    ASSUME NEW s, NEW ns \in Short, NEW D, NEW tail, Apart(tail, D), NEW c, DOMAIN c = D,
           Holds(s, ns, tail, c), NEW d \in D, NEW t, NEW v,
           Differs(s, t, length_prefixed_with_key(ns, tail[d]), v)
    PROVE  Holds(t, ns, tail, [c EXCEPT ![d] = v])
<1> DEFINE b == [c EXCEPT ![d] = v]
           p == length_prefixed_with_key(ns, tail[d])
<1>1. \A x : get(t, x) = IF x = p THEN v ELSE get(s, x)
  BY DEF Differs
<1>2. tail \in [D -> Bytes] /\ DOMAIN tail = D /\ \A e, f \in D : tail[e] = tail[f] => e = f
  BY DEF Apart
<1>3. \A e \in D : b[e] = IF e = d THEN v ELSE c[e]
  OBVIOUS
<1>4. \A q, r \in Bytes :
        length_prefixed_with_key(ns, q) = length_prefixed_with_key(ns, r) => q = r
  BY PrefixedOrder
<1> HIDE DEF b
<1>5. ASSUME NEW e \in D
      PROVE  get(t, length_prefixed_with_key(ns, tail[e])) = b[e]
  <2>1. CASE e = d
    BY <1>1, <1>3, <2>1
  <2>2. CASE e # d
    <3>1. tail[e] # tail[d] /\ tail[e] \in Bytes /\ tail[d] \in Bytes
      BY <1>2, <2>2
    <3>2. length_prefixed_with_key(ns, tail[e]) # p
      BY <1>4, <3>1
    <3>3. get(s, length_prefixed_with_key(ns, tail[e])) = c[e]
      BY <1>2 DEF Holds
    <3>4. QED
      BY <1>1, <1>3, <2>2, <3>2, <3>3
  <2>3. QED
    BY <2>1, <2>2
<1>6. ASSUME NEW r \in Bytes, get(t, length_prefixed_with_key(ns, r)) # None
      PROVE  \E e \in D : r = tail[e]
  <2>1. CASE length_prefixed_with_key(ns, r) = p
    <3>1. r = tail[d]
      BY <1>2, <1>4, <2>1
    <3>2. QED
      BY <3>1
  <2>2. CASE length_prefixed_with_key(ns, r) # p
    <3>1. get(s, length_prefixed_with_key(ns, r)) # None
      BY <1>1, <1>6, <2>2
    <3>2. QED
      BY <1>2, <3>1 DEF Holds
  <2>3. QED
    BY <2>1, <2>2
<1>7. QED
  BY <1>2, <1>5, <1>6 DEF Holds, b

\* and nothing under another name.
LEMMA WriteElsewhere ==
    ASSUME NEW s, NEW ns \in Short, NEW D, NEW tail, Apart(tail, D), NEW c,
           Holds(s, ns, tail, c), NEW other \in Short, other # ns, NEW r \in Bytes, NEW t, NEW v,
           Differs(s, t, length_prefixed_with_key(other, r), v)
    PROVE  Holds(t, ns, tail, c)
<1>1. \A x : get(t, x) = IF x = length_prefixed_with_key(other, r) THEN v ELSE get(s, x)
  BY DEF Differs
<1>2. \A q \in Bytes : length_prefixed_with_key(ns, q) # length_prefixed_with_key(other, r)
  BY PrefixedOrder
<1>3. \A q \in Bytes : get(t, length_prefixed_with_key(ns, q)) = get(s, length_prefixed_with_key(ns, q))
  BY <1>1, <1>2
<1>4. \A d \in DOMAIN tail : tail[d] \in Bytes
  BY DEF Apart
<1>5. QED
  BY <1>3, <1>4 DEF Holds

\* The empty storage has nothing.
LEMMA EmptyHolds ==
    ASSUME NEW ns, NEW tail, NEW names
    PROVE  /\ Shaped(<<>>, names)
           /\ \A c : (\A d \in DOMAIN tail : c[d] = None) => Holds(<<>>, ns, tail, c)
<1>1. DOMAIN <<>> = {} /\ <<>> = [x \in {} |-> <<>>[x]]
  OBVIOUS
<1>2. Storage(<<>>)
  BY <1>1, FS_EmptySet DEF Storage
<1>3. \A x : get(<<>>, x) = None
  BY <1>1 DEF get
<1>4. QED
  BY <1>1, <1>2, <1>3 DEF Shaped, Holds

-----------------------------------------------------------------------------
(* What is below a prefix of a collection.                                 *)

\* Below the name of a collection there are its keys.
LEMMA HeldTails ==
    ASSUME NEW s, NEW names \in SUBSET Text, Shaped(s, names), NEW ns \in names,
           NEW D, NEW tail, Apart(tail, D), NEW c, Holds(s, ns, tail, c),
           NEW E, E = Prefix(ns, <<>>)
    PROVE  /\ GoodPrefix(s, E)
           /\ \A r \in Bytes : r \in Tails(s, E) <=> \E d \in D : r = tail[d] /\ c[d] # None
           /\ \A d \in D : c[d] # None => s[E \o tail[d]] = c[d]
<1>1. ns \in Text /\ ns \in Short /\ names \in SUBSET Short
  BY DEF Text
<1>2. \A x \in DOMAIN s : x \in Bytes
  BY <1>1, ShapedBytes
<1>3. GoodPrefix(s, E) /\ E = to_length_prefixed(ns)
  BY <1>1, <1>2, TextPrefix
<1>4. \A r : E \o r = length_prefixed_with_key(ns, r)
  BY <1>3 DEF length_prefixed_with_key
<1>5. Storage(s) /\ tail \in [D -> Bytes] /\ DOMAIN tail = D
  BY DEF Shaped, Apart
<1>6. \A x : x \in DOMAIN s <=> get(s, x) # None
  BY <1>5 DEF Storage, get
<1>7. ASSUME NEW r \in Bytes
      PROVE  r \in Tails(s, E) <=> \E d \in D : r = tail[d] /\ c[d] # None
  <2>1. r \in Tails(s, E) <=> get(s, length_prefixed_with_key(ns, r)) # None
    BY <1>4, <1>6 DEF Tails
  <2>2. QED
    BY <1>5, <2>1 DEF Holds
<1>8. ASSUME NEW d \in D, c[d] # None
      PROVE  s[E \o tail[d]] = c[d]
  <2>1. get(s, length_prefixed_with_key(ns, tail[d])) = c[d]
    BY <1>5 DEF Holds
  <2>2. QED
    BY <1>4, <1>8, <2>1 DEF get
<1>9. QED
  BY <1>3, <1>7, <1>8

\* Below some parts of the keys are those that begin with them.
HeldUnder(s, E, sub, m, D, key, c) ==
    /\ GoodPrefix(s, E)
    /\ \A rest \in KeysOfParts(m) :
         joined_key(rest) \in Tails(s, E) <=> \E d \in D : key[d] = sub \o rest /\ c[d] # None
    /\ \A rest \in KeysOfParts(m), d \in D :
         key[d] = sub \o rest /\ c[d] # None => s[E \o joined_key(rest)] = c[d]
    /\ \A r \in Tails(s, E) : \E rest \in KeysOfParts(m) : r = joined_key(rest)

\* Below some leading parts there are the rests of the keys that begin with them.
LEMMA HeldBelow ==
    ASSUME NEW s, NEW names \in SUBSET Text, Shaped(s, names), NEW ns \in names,
           NEW sub \in Seq(Short), sub # <<>>, NEW m \in Nat, m >= 1,
           NEW D, NEW key \in [D -> KeysOfParts(Len(sub) + m)],
           NEW tail, Apart(tail, D), \A d \in D : tail[d] = joined_key(key[d]),
           NEW c, Holds(s, ns, tail, c), NEW E, E = Prefix(ns, sub)
    PROVE  HeldUnder(s, E, sub, m, D, key, c)
<1> DEFINE n == Len(sub) + m
<1>1. ns \in Short /\ names \in SUBSET Short
  BY DEF Text
<1>2. \A x \in DOMAIN s : x \in Bytes
  BY <1>1, ShapedBytes
<1>3. Storage(s) /\ tail \in [D -> Bytes] /\ DOMAIN tail = D
  BY DEF Shaped, Apart
<1>4. \A x : x \in DOMAIN s <=> get(s, x) # None
  BY <1>3 DEF Storage, get
<1>5. n \in Nat /\ n >= 1
  BY EmptySeq
<1>6. ASSUME NEW r \in Bytes, length_prefixed_with_key(ns, r) \in DOMAIN s
      PROVE  \E d \in D : r = joined_key(key[d]) /\ c[d] # None
  <2>1. get(s, length_prefixed_with_key(ns, r)) # None
    BY <1>4, <1>6
  <2>2. PICK d \in D : r = tail[d]
    BY <1>3, <2>1 DEF Holds
  <2>3. c[d] # None
    BY <1>3, <2>1, <2>2 DEF Holds
  <2>4. QED
    BY <2>2, <2>3
<1>7. GoodPrefix(s, E)
  <2>1. \A x \in DOMAIN s, r \in Bytes : x = length_prefixed_with_key(ns, r) =>
          \E k \in KeysOfParts(Len(sub) + m) : r = joined_key(k)
    BY <1>6
  <2>2. QED
    BY <1>1, <1>2, <2>1, PartsPrefix
<1>8. \A rest \in KeysOfParts(m) :
        /\ sub \o rest \in KeysOfParts(n)
        /\ joined_key(rest) \in Bytes /\ joined_key(sub \o rest) \in Bytes
        /\ E \o joined_key(rest) = length_prefixed_with_key(ns, joined_key(sub \o rest))
  BY <1>1, SubTail
<1>9. \A j, k \in KeysOfParts(n) : joined_key(j) = joined_key(k) => j = k
  BY <1>5, JoinedOrder
<1>10. \A d \in D : key[d] \in KeysOfParts(n)
  OBVIOUS
<1> HIDE DEF n
<1>11. ASSUME NEW rest \in KeysOfParts(m)
       PROVE  joined_key(rest) \in Tails(s, E) <=>
                \E d \in D : key[d] = sub \o rest /\ c[d] # None
  <2> DEFINE x == length_prefixed_with_key(ns, joined_key(sub \o rest))
  <2>1. joined_key(rest) \in Tails(s, E) <=> x \in DOMAIN s
    BY <1>8 DEF Tails
  <2>2. ASSUME x \in DOMAIN s
        PROVE  \E d \in D : key[d] = sub \o rest /\ c[d] # None
    <3> DEFINE whole == sub \o rest
    <3>1. whole \in KeysOfParts(n) /\ joined_key(whole) \in Bytes
      BY <1>8
    <3>2. x = length_prefixed_with_key(ns, joined_key(whole))
      OBVIOUS
    <3> HIDE DEF whole, x
    <3>3. PICK d \in D : joined_key(whole) = joined_key(key[d]) /\ c[d] # None
      BY <1>6, <2>2, <3>1, <3>2
    <3>4. key[d] = whole
      BY <1>9, <1>10, <3>1, <3>3
    <3>5. QED
      BY <3>3, <3>4 DEF whole
  <2>3. ASSUME NEW d \in D, key[d] = sub \o rest, c[d] # None
        PROVE  x \in DOMAIN s
    <3>1. get(s, x) = c[d]
      BY <1>3, <2>3 DEF Holds
    <3>2. QED
      BY <1>4, <2>3, <3>1
  <2>4. QED
    BY <2>1, <2>2, <2>3
<1>12. ASSUME NEW rest \in KeysOfParts(m), NEW d \in D, key[d] = sub \o rest, c[d] # None
       PROVE  s[E \o joined_key(rest)] = c[d]
  <2>1. get(s, length_prefixed_with_key(ns, tail[d])) = c[d]
    BY <1>3 DEF Holds
  <2>2. get(s, E \o joined_key(rest)) = c[d]
    BY <1>8, <1>12, <2>1
  <2>3. QED
    BY <1>12, <2>2 DEF get
<1>13. ASSUME NEW r \in Tails(s, E)
       PROVE  \E rest \in KeysOfParts(m) : r = joined_key(rest)
  <2>1. r \in Bytes /\ E \o r \in DOMAIN s
    BY DEF Tails
  <2> DEFINE p == to_length_prefixed(ns)
             e == to_length_prefixed_nested(sub)
             x == E \o r
  <2>2. p \in Bytes /\ e \in Bytes /\ E = p \o e
    BY <1>1, PrefixedType, NestedFirst, PrefixIs
  <2>3. x = length_prefixed_with_key(ns, e \o r) /\ e \o r \in Bytes
    <3> HIDE DEF p, e
    <3>1. (p \o e) \o r = p \o (e \o r) /\ e \o r \in Bytes
      BY <2>1, <2>2, BytesAssociative, BytesConcat
    <3>2. QED
      BY <2>2, <3>1 DEF length_prefixed_with_key, p
  <2>4. PICK d \in D : e \o r = joined_key(key[d]) /\ c[d] # None
    BY <1>6, <2>1, <2>3
  <2> DEFINE k == key[d]
  <2>5. k \in KeysOfParts(n)
    BY <1>10
  <2>6. ~BytesBefore(joined_key(k), e) /\ BytesBefore(joined_key(k), increment_last_byte(e))
    <3>1. PICK i : CarriedAt(e, i)
      BY NestedCarries
    <3> HIDE DEF e
    <3>2. ~BytesBefore(e \o r, e) /\ BytesBefore(e \o r, increment_last_byte(e))
      BY <2>1, <2>2, <3>1, InsidePrefix
    <3>3. QED
      BY <2>4, <3>2
  <2>7. PICK rest \in KeysOfParts(m) : k = sub \o rest
    BY <2>5, <2>6, WithinParts DEF n
  <2>8. joined_key(rest) \in Bytes /\ e \o joined_key(rest) = joined_key(k)
    BY <2>7, JoinedConcat, JoinedType
  <2>9. e \o r = e \o joined_key(rest)
    BY <2>4, <2>8
  <2> HIDE DEF e
  <2> DEFINE q == joined_key(rest)
  <2>10. q \in Bytes /\ e \o r = e \o q
    BY <2>8, <2>9
  <2> HIDE DEF q
  <2>11. r = q
    BY <2>1, <2>2, <2>10, SameLength
  <2>12. QED
    BY <2>11 DEF q
<1>14. QED
  BY <1>7, <1>11, <1>12, <1>13 DEF HeldUnder

-----------------------------------------------------------------------------
(* The ends of a range, and a height in eight bytes.                       *)

\* The tails that a range finds, in their order.
FoundAs(s, E, lo, hi, S, n, l) ==
    /\ \A x \in S : \E i \in 1 .. n : l[i] = x
    /\ \A i, j \in 1 .. n : i < j <=> BytesBefore(l[i], l[j])
    /\ Trimmed(E, storage_range(s, E \o lo, EndAt(E, hi), "Ascending"))
         = [i \in 1 .. n |-> <<l[i], s[E \o l[i]]>>]
    /\ Trimmed(E, storage_range(s, E \o lo, EndAt(E, hi), "Descending"))
         = [i \in 1 .. n |-> <<l[n - i + 1], s[E \o l[n - i + 1]]>>]

\* A range finds what is between its bounds, in order,
LEMMA Found ==
    ASSUME NEW s, Storage(s), \A x \in DOMAIN s : x \in Bytes, NEW E, GoodPrefix(s, E),
           NEW lo \in Bytes, NEW hi \in Ends, NEW S, S = TailsIn(s, E, lo, hi),
           NEW n, n = Cardinality(S)
    PROVE  /\ n \in Nat /\ IsFiniteSet(S)
           /\ \E l \in [1 .. n -> S] : FoundAs(s, E, lo, hi, S, n, l)
<1> DEFINE l == Ranked(S, ByteOrder(S))
           up == Trimmed(E, storage_range(s, E \o lo, EndAt(E, hi), "Ascending"))
           down == Trimmed(E, storage_range(s, E \o lo, EndAt(E, hi), "Descending"))
<1>1. /\ S \in SUBSET Bytes /\ IsFiniteSet(S) /\ n \in Nat
      /\ up = [i \in 1 .. n |-> <<l[i], s[E \o l[i]]>>]
      /\ down = [i \in 1 .. n |-> <<l[n - i + 1], s[E \o l[n - i + 1]]>>]
  <2> HIDE DEF l
  <2>1. l = Ranked(S, ByteOrder(S))
    BY DEF l
  <2>2. QED
    BY <2>1, RangeFinds
<1>2. /\ l \in [1 .. n -> S]
      /\ \A x \in S : \E i \in 1 .. n : l[i] = x
      /\ \A i, j \in 1 .. n : i < j <=> <<l[i], l[j]>> \in ByteOrder(S)
  <2> DEFINE R == ByteOrder(S)
  <2>1. TotalOn(S, R)
    BY <1>1, ByteOrderTotal
  <2> HIDE DEF R
  <2>2. /\ Ranked(S, R) \in [1 .. Cardinality(S) -> S]
        /\ \A x \in S : \E i \in 1 .. Cardinality(S) : Ranked(S, R)[i] = x
        /\ \A i, j \in 1 .. Cardinality(S) :
             i < j <=> <<Ranked(S, R)[i], Ranked(S, R)[j]>> \in R
    BY <1>1, <2>1, RankedList
  <2>3. QED
    BY <2>2 DEF R
<1>3. \A i, j \in 1 .. n : i < j <=> BytesBefore(l[i], l[j])
  <2>1. \A x, y \in S : <<x, y>> \in ByteOrder(S) <=> BytesBefore(x, y)
    BY <1>1, ByteOrderTotal
  <2> HIDE DEF l
  <2>2. QED
    BY <1>2, <2>1
<1> HIDE DEF l, up, down
<1>4. QED
  BY <1>1, <1>2, <1>3 DEF up, down, FoundAs

\* and so its first entry is the lowest, or the greatest.
LEMMA FirstFound ==
    ASSUME NEW s, Storage(s), \A x \in DOMAIN s : x \in Bytes, NEW E, GoodPrefix(s, E),
           NEW lo \in Bytes, NEW hi \in Ends, NEW S, S = TailsIn(s, E, lo, hi),
           NEW up, up = Trimmed(E, storage_range(s, E \o lo, EndAt(E, hi), "Ascending")),
           NEW down, down = Trimmed(E, storage_range(s, E \o lo, EndAt(E, hi), "Descending"))
    PROVE  /\ Len(up) \in Nat /\ (Len(up) = 0 <=> S = {})
           /\ Len(down) \in Nat /\ (Len(down) = 0 <=> S = {})
           /\ S # {} =>
                /\ \E x \in S : up[1] = <<x, s[E \o x]>> /\ \A y \in S : ~BytesBefore(y, x)
                /\ \E x \in S : down[1] = <<x, s[E \o x]>> /\ \A y \in S : ~BytesBefore(x, y)
<1> DEFINE n == Cardinality(S)
<1>1. n = Cardinality(S)
  OBVIOUS
<1> HIDE DEF n
<1>2. n \in Nat /\ IsFiniteSet(S)
  BY <1>1, Found
<1>3. PICK l \in [1 .. n -> S] : FoundAs(s, E, lo, hi, S, n, l)
  BY <1>1, Found
<1>4. /\ \A x \in S : \E i \in 1 .. n : l[i] = x
      /\ \A i, j \in 1 .. n : i < j <=> BytesBefore(l[i], l[j])
  BY <1>3 DEF FoundAs
<1>5. /\ up = [i \in 1 .. n |-> <<l[i], s[E \o l[i]]>>]
      /\ down = [i \in 1 .. n |-> <<l[n - i + 1], s[E \o l[n - i + 1]]>>]
  BY <1>3 DEF FoundAs
<1>6. Len(up) = n /\ Len(down) = n
  BY <1>2, <1>5
<1>7. n = 0 <=> S = {}
  BY <1>1, <1>2, FS_EmptySet
<1>8. ASSUME S # {}
      PROVE  /\ \E x \in S : up[1] = <<x, s[E \o x]>> /\ \A y \in S : ~BytesBefore(y, x)
             /\ \E x \in S : down[1] = <<x, s[E \o x]>> /\ \A y \in S : ~BytesBefore(x, y)
  <2>1. 1 \in 1 .. n /\ n \in 1 .. n /\ n - 1 + 1 = n
    BY <1>2, <1>7, <1>8
  <2>2. up[1] = <<l[1], s[E \o l[1]]>> /\ down[1] = <<l[n], s[E \o l[n]]>>
    BY <1>5, <2>1
  <2>3. \A y \in S : ~BytesBefore(y, l[1]) /\ ~BytesBefore(l[n], y)
    <3>1. SUFFICES ASSUME NEW y \in S
                   PROVE  ~BytesBefore(y, l[1]) /\ ~BytesBefore(l[n], y)
      OBVIOUS
    <3>2. PICK i \in 1 .. n : l[i] = y
      BY <1>4
    <3>3. ~(i < 1) /\ ~(n < i)
      BY <1>2
    <3>4. QED
      BY <1>4, <2>1, <3>2, <3>3
  <2>4. l[1] \in S /\ l[n] \in S
    BY <2>1
  <2>5. QED
    BY <2>2, <2>3, <2>4
<1>9. QED
  BY <1>2, <1>6, <1>7, <1>8

\* A number of sixty-four bits fits in eight bytes.
LEMMA U64Fits ==
    ASSUME NEW n \in Nat, ((n \div 65536) \div 65536) \div 65536 < 65536
    PROVE  Fits(8, n)
<1>1. PICK q : Shifts(8, n, q)
  BY ShiftsExist
<1>2. \A j \in 1 .. 8 : q[j] = q[j-1] \div 256
  BY <1>1 DEF Shifts
<1>3. q[0] = n /\ \A j \in 0 .. 8 : q[j] \in Nat
  BY <1>1 DEF Shifts
<1>4. \A a, b, c \in Nat : b = a \div 256 /\ c = b \div 256 => c = a \div 65536
  OBVIOUS
<1>5. /\ q[1] = q[0] \div 256 /\ q[2] = q[1] \div 256 /\ q[3] = q[2] \div 256
      /\ q[4] = q[3] \div 256
  BY <1>2
<1>6. /\ q[5] = q[4] \div 256 /\ q[6] = q[5] \div 256
      /\ q[7] = q[6] \div 256 /\ q[8] = q[7] \div 256
  BY <1>2
<1>7. q[2] = n \div 65536
  BY <1>3, <1>4, <1>5
<1>8. q[4] = q[2] \div 65536
  BY <1>3, <1>4, <1>5
<1>9. q[6] = q[4] \div 65536
  BY <1>3, <1>4, <1>6
<1>10. q[6] < 65536
  BY <1>7, <1>8, <1>9
<1>11. q[8] = 0
  BY <1>3, <1>6, <1>10
<1>12. QED
  BY <1>1, <1>11 DEF Fits

-----------------------------------------------------------------------------
(* What a snapshot map reads of its checkpoints and its changelog.         *)

\* The keys of records, each of one part that another part may follow.
OnePartKeys(parts, K) ==
    /\ parts \in [K -> KeysOfParts(1)]
    /\ \A k \in K : parts[k] \in Seq(Short)
    /\ \A j, k \in K : parts[j] = parts[k] => j = k

\* Heights are numbers of sixty-four bits.
U64(H) == H \in SUBSET Nat /\ \A h \in H : Fits(8, h)

\* The bytes of a height tell it, and are in the order of the heights.
LEMMA HeightKey ==
    ASSUME NEW H, U64(H)
    PROVE  /\ \A h \in H : u64_key(h) \in Short /\ cw_uint_from_cw_bytes(u64_key(h)) = h
           /\ \A g, h \in H : u64_key(g) = u64_key(h) => g = h
           /\ \A g, h \in H : BytesBefore(u64_key(g), u64_key(h)) <=> g < h
<1>1. \A h \in H : h \in Nat /\ Fits(8, h)
  BY DEF U64
<1>2. \A h : u64_key(h) = to_be_bytes(8, h) /\ cw_uint_from_cw_bytes(u64_key(h)) = Unsigned(u64_key(h))
  BY DEF u64_key, cw_uint_to_cw_bytes, cw_uint_from_cw_bytes
<1>3. 8 \in Nat
  OBVIOUS
<1> DEFINE w == 8
<1>4. ASSUME NEW h \in H
      PROVE  u64_key(h) \in Short /\ cw_uint_from_cw_bytes(u64_key(h)) = h
  <2>1. PICK q : Shifts(w, h, q)
    BY <1>1 DEF Fits
  <2> HIDE DEF w
  <2>2. to_be_bytes(w, h) \in Bytes /\ Len(to_be_bytes(w, h)) = w
    BY <1>1, <1>3, <2>1, BytesShifted DEF w
  <2>3. Unsigned(to_be_bytes(w, h)) = h
    BY <1>1, <1>3, UintRead DEF w
  <2>4. w < 65535
    BY DEF w
  <2>5. to_be_bytes(w, h) \in Short
    BY <2>2, <2>4 DEF Short
  <2>6. u64_key(h) = to_be_bytes(w, h) /\ cw_uint_from_cw_bytes(u64_key(h)) = Unsigned(u64_key(h))
    BY <1>2 DEF w
  <2>7. QED
    BY <2>3, <2>5, <2>6
<1>5. ASSUME NEW g \in H, NEW h \in H
      PROVE  /\ u64_key(g) = u64_key(h) => g = h
             /\ BytesBefore(u64_key(g), u64_key(h)) <=> g < h
  <2> HIDE DEF w
  <2>1. /\ to_be_bytes(w, g) = to_be_bytes(w, h) => g = h
        /\ BytesBefore(to_be_bytes(w, g), to_be_bytes(w, h)) <=> g < h
    BY <1>1, <1>3, UintOrder DEF w
  <2>2. QED
    BY <1>2, <2>1 DEF w
<1>6. QED
  BY <1>4, <1>5

LogKey(parts, d) == Append(parts[d[1]], u64_key(d[2]))
LogTail(parts, K, H) == [d \in K \X H |-> joined_key(LogKey(parts, d))]
CheckpointTail(H) == [h \in H |-> u64_key(h)]
RecordTail(parts, K) == [k \in K |-> joined_key(parts[k])]

\* Records, heights and entries of the changelog have keys of their own.
LEMMA SnapshotTails ==
    ASSUME NEW K, NEW parts, OnePartKeys(parts, K), NEW H, U64(H)
    PROVE  /\ Apart(RecordTail(parts, K), K)
           /\ Apart(CheckpointTail(H), H)
           /\ Apart(LogTail(parts, K, H), K \X H)
           /\ \A d \in K \X H : /\ LogKey(parts, d) \in KeysOfParts(2)
                                /\ LogKey(parts, d) = parts[d[1]] \o <<u64_key(d[2])>>
           /\ \A d, e \in K \X H : LogKey(parts, d) = LogKey(parts, e) => d = e
<1>1. /\ parts \in [K -> KeysOfParts(1)]
      /\ \A k \in K : parts[k] \in Seq(Short)
      /\ \A j, k \in K : parts[j] = parts[k] => j = k
  BY DEF OnePartKeys
<1>2. /\ \A h \in H : u64_key(h) \in Short
      /\ \A g, h \in H : u64_key(g) = u64_key(h) => g = h
  BY HeightKey
<1>3. \A k \in K : /\ Len(parts[k]) = 1 /\ parts[k][1] \in Bytes /\ parts[k] = <<parts[k][1]>>
                   /\ joined_key(parts[k]) = parts[k][1]
  <2>1. SUFFICES ASSUME NEW k \in K
                 PROVE  /\ Len(parts[k]) = 1 /\ parts[k][1] \in Bytes /\ parts[k] = <<parts[k][1]>>
                        /\ joined_key(parts[k]) = parts[k][1]
    OBVIOUS
  <2>2. parts[k] \in KeysOfParts(1)
    BY <1>1
  <2>3. QED
    BY <2>2, JoinedOne DEF KeysOfParts
<1>4. Apart(RecordTail(parts, K), K)
  BY <1>1, <1>3 DEF Apart, RecordTail
<1>5. Apart(CheckpointTail(H), H)
  BY <1>2 DEF Apart, CheckpointTail, Short
<1>6. ASSUME NEW d \in K \X H
      PROVE  /\ LogKey(parts, d) \in KeysOfParts(2)
             /\ LogKey(parts, d) = parts[d[1]] \o <<u64_key(d[2])>>
  <2>1. d[1] \in K /\ d[2] \in H
    OBVIOUS
  <2> DEFINE p == parts[d[1]]
             u == u64_key(d[2])
  <2>2. p \in Seq(Short) /\ u \in Short /\ Len(p) = 1
    BY <1>1, <1>2, <1>3, <2>1
  <2>3. LogKey(parts, d) = Append(p, u)
    BY DEF LogKey
  <2> HIDE DEF p, u
  <2>4. Append(p, u) = p \o <<u>>
    BY <2>2
  <2>5. u \in Bytes /\ <<u>> \in KeysOfParts(1)
    BY <2>2, OnePart DEF Short
  <2> DEFINE m == 1
             rest == <<u>>
  <2>6. p \o <<u>> \in KeysOfParts(Len(p) + 1)
    <3>1. m \in Nat /\ m >= 1 /\ rest \in KeysOfParts(m)
      BY <2>5
    <3> HIDE DEF m, rest
    <3>2. p \o rest \in KeysOfParts(Len(p) + m)
      BY <2>2, <3>1, JoinedConcat
    <3>3. QED
      BY <3>2 DEF m, rest
  <2>7. Len(p) + 1 = 2
    BY <2>2
  <2>8. QED
    BY <2>3, <2>4, <2>6, <2>7 DEF p, u
<1>7. ASSUME NEW d \in K \X H, NEW e \in K \X H, LogKey(parts, d) = LogKey(parts, e)
      PROVE  d = e
  <2>1. d[1] \in K /\ d[2] \in H /\ e[1] \in K /\ e[2] \in H
    OBVIOUS
  <2> DEFINE a == parts[d[1]]
             b == parts[e[1]]
             x == u64_key(d[2])
             y == u64_key(e[2])
  <2>2. a \in Seq(Short) /\ b \in Seq(Short) /\ x \in Short /\ y \in Short /\ Len(a) = Len(b)
    BY <1>1, <1>2, <1>3, <2>1
  <2>3. a \o <<x>> = b \o <<y>>
    BY <1>6, <1>7
  <2> HIDE DEF a, b, x, y
  <2>4. a = b /\ x = y
    BY <2>2, <2>3, SameLast
  <2>5. d[1] = e[1] /\ d[2] = e[2]
    BY <1>1, <1>2, <2>1, <2>4 DEF a, b, x, y
  <2>6. QED
    BY <2>5
<1>8. Apart(LogTail(parts, K, H), K \X H)
  <2>1. \A d \in K \X H : joined_key(LogKey(parts, d)) \in Bytes
    <3>1. \A k \in KeysOfParts(2) : joined_key(k) \in Bytes
      BY JoinedType
    <3>2. QED
      BY <1>6, <3>1
  <2>2. \A d, e \in K \X H : joined_key(LogKey(parts, d)) = joined_key(LogKey(parts, e)) => d = e
    <3>1. \A j, k \in KeysOfParts(2) : joined_key(j) = joined_key(k) => j = k
      BY JoinedOrder
    <3>2. QED
      BY <1>6, <1>7, <3>1
  <2>3. QED
    BY <2>1, <2>2 DEF Apart, LogTail
<1>9. QED
  BY <1>4, <1>5, <1>6, <1>7, <1>8

\* The first of the entries of a key at a height or later is the earliest of them.
FirstLogged(first, c, H, k, h) ==
    /\ first = <<>> <=> \A g \in H : h <= g => c[<<k, g>>] = None
    /\ first # <<>> => \E g \in H : /\ h <= g /\ c[<<k, g>>] # None
                                    /\ first[1][2] = c[<<k, g>>]
                                    /\ \A f \in H : h <= f /\ c[<<k, f>>] # None => g <= f

\* The first entry of a key that is logged at a height or later.
LEMMA LoggedFirst ==
    ASSUME NEW s, NEW names \in SUBSET Text, Shaped(s, names),
           NEW map, map.changelog \in names, None \notin [kind : {"Inclusive"}, limit : Bytes],
           NEW K, NEW parts, OnePartKeys(parts, K), NEW H, U64(H),
           NEW c, Holds(s, map.changelog, LogTail(parts, K, H), c), NEW k \in K, NEW h \in H,
           NEW first, first = LoggedSince(s, map, parts[k], h)
    PROVE  FirstLogged(first, c, H, k, h)
<1> DEFINE ns == map.changelog
           sub == parts[k]
           E == Prefix(ns, sub)
           D == K \X H
           key == [d \in D |-> LogKey(parts, d)]
           tail == LogTail(parts, K, H)
           b(g) == u64_key(g)
<1>1. /\ Apart(tail, D)
      /\ \A d \in D : LogKey(parts, d) \in KeysOfParts(2)
      /\ \A d \in D : LogKey(parts, d) = parts[d[1]] \o <<b(d[2])>>
      /\ \A d, e \in D : LogKey(parts, d) = LogKey(parts, e) => d = e
  BY SnapshotTails
<1>2. /\ \A g \in H : b(g) \in Short
      /\ \A f, g \in H : BytesBefore(b(f), b(g)) <=> f < g
      /\ H \in SUBSET Nat
  BY HeightKey DEF U64
<1>3. sub \in KeysOfParts(1) /\ sub \in Seq(Short) /\ Len(sub) = 1
  BY DEF OnePartKeys, KeysOfParts
<1>4. /\ GoodPrefix(s, E)
      /\ \A rest \in KeysOfParts(1) :
           joined_key(rest) \in Tails(s, E) <=> \E d \in D : key[d] = sub \o rest /\ c[d] # None
      /\ \A rest \in KeysOfParts(1), d \in D :
           key[d] = sub \o rest /\ c[d] # None => s[E \o joined_key(rest)] = c[d]
      /\ \A r \in Tails(s, E) : \E rest \in KeysOfParts(1) : r = joined_key(rest)
  <2> DEFINE m == 1
  <2>1. m \in Nat /\ m >= 1
    OBVIOUS
  <2>2. sub # <<>>
    BY <1>3, SMTT(30)
  <2>3. key \in [D -> KeysOfParts(Len(sub) + m)]
    BY <1>1, <1>3
  <2>4. \A d \in D : tail[d] = joined_key(key[d])
    BY DEF LogTail
  <2> HIDE DEF m, key, sub, tail, D, ns, E
  <2>5. ns \in names /\ Holds(s, ns, tail, c) /\ E = Prefix(ns, sub)
    BY DEF ns, tail, E
  <2>6. HeldUnder(s, E, sub, m, D, key, c)
    BY <1>1, <1>3, <2>1, <2>2, <2>3, <2>4, <2>5, HeldBelow
  <2>7. QED
    BY <2>6 DEF HeldUnder, m
<1>5. \A g \in H : /\ <<b(g)>> \in KeysOfParts(1) /\ joined_key(<<b(g)>>) = b(g) /\ b(g) \in Bytes
  BY <1>2, OnePart DEF Short
<1>6. \A d \in D : d[1] \in K /\ d[2] \in H /\ d = <<d[1], d[2]>>
  OBVIOUS
<1>7. ASSUME NEW d \in D, NEW rest \in KeysOfParts(1), key[d] = sub \o rest
      PROVE  d[1] = k /\ rest = <<b(d[2])>>
  <2> DEFINE a == parts[d[1]]
             x == b(d[2])
             y == rest[1]
  <2>1. a \in Seq(Bytes) /\ sub \in Seq(Bytes) /\ Len(a) = Len(sub) /\ x \in Bytes /\ y \in Bytes
        /\ rest = <<y>>
    <3>1. \A p \in Seq(Short) : p \in Seq(Bytes)
      BY DEF Short
    <3>2. a \in Seq(Short) /\ Len(a) = 1
      BY <1>6 DEF OnePartKeys, KeysOfParts
    <3>3. y \in Bytes /\ rest = <<y>>
      BY JoinedOne
    <3>4. QED
      BY <1>2, <1>3, <1>6, <3>1, <3>2, <3>3 DEF Short
  <2>2. a \o <<x>> = sub \o <<y>>
    BY <1>1, <1>7, <2>1
  <2> HIDE DEF a, x, y, sub
  <2>3. a = sub /\ x = y
    BY <2>1, <2>2, SameLast
  <2>4. d[1] = k
    BY <1>6, <2>3 DEF a, sub, OnePartKeys
  <2>5. QED
    BY <2>1, <2>3, <2>4 DEF x
<1>8. \A g \in H : <<k, g>> \in D /\ key[<<k, g>>] = sub \o <<b(g)>>
  BY <1>1, SMTT(30)
<1> DEFINE S == TailsIn(s, E, b(h), <<>>)
<1>9. /\ \A g \in H : b(g) \in Tails(s, E) <=> c[<<k, g>>] # None
      /\ \A g \in H : c[<<k, g>>] # None => s[E \o b(g)] = c[<<k, g>>]
      /\ \A r \in Tails(s, E) : \E g \in H : r = b(g)
  <2>1. ASSUME NEW g \in H
        PROVE  /\ b(g) \in Tails(s, E) <=> c[<<k, g>>] # None
               /\ c[<<k, g>>] # None => s[E \o b(g)] = c[<<k, g>>]
    <3> DEFINE rest == <<b(g)>>
    <3>1. rest \in KeysOfParts(1) /\ joined_key(rest) = b(g)
      BY <1>5
    <3>2. <<k, g>> \in D /\ key[<<k, g>>] = sub \o rest
      BY <1>8
    <3>3. ASSUME NEW d \in D, key[d] = sub \o rest
          PROVE  d = <<k, g>>
      <4>1. d[1] = k /\ rest = <<b(d[2])>>
        BY <1>7, <3>1, <3>3
      <4>2. b(g) = b(d[2]) /\ d[2] \in H
        BY <1>6, <4>1
      <4>3. g = d[2]
        BY <4>2, HeightKey
      <4>4. QED
        BY <1>6, <4>1, <4>3
    <3> HIDE DEF rest, D, key, sub, E, b
    <3>4. b(g) \in Tails(s, E) <=> \E d \in D : key[d] = sub \o rest /\ c[d] # None
      BY <1>4, <3>1
    <3>5. c[<<k, g>>] # None => s[E \o b(g)] = c[<<k, g>>]
      BY <1>4, <3>1, <3>2
    <3>6. QED
      BY <3>2, <3>3, <3>4, <3>5
  <2>2. ASSUME NEW r \in Tails(s, E)
        PROVE  \E g \in H : r = b(g)
    <3>1. PICK rest \in KeysOfParts(1) : r = joined_key(rest)
      BY <1>4
    <3>2. PICK d \in D : key[d] = sub \o rest
      BY <1>4, <3>1
    <3>3. rest = <<b(d[2])>> /\ d[2] \in H
      BY <1>6, <1>7, <3>2
    <3>4. QED
      BY <1>5, <3>1, <3>3
  <2>3. QED
    BY <2>1, <2>2
<1>10. ASSUME NEW g \in H
       PROVE  b(g) \in S <=> h <= g /\ c[<<k, g>>] # None
  <2>1. ~BytesBefore(b(g), b(h)) <=> h <= g
    <3>1. g \in Nat /\ h \in Nat
      BY <1>2
    <3> HIDE DEF b
    <3>2. QED
      BY <1>2, <3>1
  <2>2. UpTo(b(g), <<>>)
    BY DEF UpTo
  <2> HIDE DEF E, b
  <2>3. QED
    BY <1>9, <2>1, <2>2 DEF TailsIn
<1>11. \A r \in S : \E g \in H : r = b(g)
  BY <1>9 DEF TailsIn
<1> DEFINE up == Trimmed(E, storage_range(s, E \o b(h), EndAt(E, <<>>), "Ascending"))
<1>12. /\ Len(up) \in Nat /\ (Len(up) = 0 <=> S = {})
       /\ S # {} => \E x \in S : up[1] = <<x, s[E \o x]>> /\ \A y \in S : ~BytesBefore(y, x)
  <2> DEFINE lo == b(h)
             hi == <<>>
             down == Trimmed(E, storage_range(s, E \o lo, EndAt(E, hi), "Descending"))
             ups == Trimmed(E, storage_range(s, E \o lo, EndAt(E, hi), "Ascending"))
             Q == TailsIn(s, E, lo, hi)
  <2>1. lo \in Bytes /\ hi \in Ends
    BY <1>5 DEF Ends
  <2>2. Storage(s) /\ \A x \in DOMAIN s : x \in Bytes
    <3>1. names \in SUBSET Short
      BY DEF Text
    <3>2. QED
      BY <3>1, ShapedBytes DEF Shaped
  <2>3. ups = up /\ Q = S
    OBVIOUS
  <2> HIDE DEF lo, hi, E
  <2>4. /\ Len(ups) \in Nat /\ (Len(ups) = 0 <=> Q = {})
        /\ Q # {} => \E x \in Q : ups[1] = <<x, s[E \o x]>> /\ \A y \in Q : ~BytesBefore(y, x)
    <3>1. /\ Q = TailsIn(s, E, lo, hi)
          /\ ups = Trimmed(E, storage_range(s, E \o lo, EndAt(E, hi), "Ascending"))
          /\ down = Trimmed(E, storage_range(s, E \o lo, EndAt(E, hi), "Descending"))
      OBVIOUS
    <3> HIDE DEF ups, down, Q
    <3>2. QED
      BY <1>4, <2>1, <2>2, <3>1, FirstFound
  <2> HIDE DEF ups, up, Q, S
  <2>5. QED
    BY <2>3, <2>4
<1>13. first = [i \in 1 .. Len(up) |-> up[i]]
  <2>1. calc_start_bound(E, inclusive(<<b(h)>>)) = E \o b(h)
    <3>1. joined_key(<<b(h)>>) = b(h) /\ b(h) \in Bytes
      BY <1>5
    <3>2. inclusive(<<b(h)>>) = [kind |-> "Inclusive", limit |-> b(h)]
      BY <3>1 DEF inclusive, RawBound
    <3> HIDE DEF b, E
    <3>3. inclusive(<<b(h)>>) # None
      BY <3>1, <3>2
    <3>4. QED
      BY <3>2, <3>3 DEF calc_start_bound, concat
  <2>2. calc_end_bound(E, None) = EndAt(E, <<>>)
    BY DEF calc_end_bound, EndAt
  <2> DEFINE lo == calc_start_bound(E, inclusive(<<b(h)>>))
             end == calc_end_bound(E, None)
             found == Trimmed(E, storage_range(s, lo, end, "Ascending"))
  <2>3. first = [i \in 1 .. Len(found) |-> found[i]]
    BY DEF LoggedSince, range_raw, range_with_prefix, MapEach, deserialize_v
  <2>4. found = up
    <3> HIDE DEF lo, end, E
    <3>1. lo = E \o b(h) /\ end = EndAt(E, <<>>)
      BY <2>1, <2>2 DEF lo, end
    <3>2. QED
      BY <3>1
  <2> HIDE DEF found, up
  <2>5. QED
    BY <2>3, <2>4
<1> HIDE DEF up
<1>14. Len(first) \in Nat /\ (first = <<>> <=> S = {})
  <2> HIDE DEF S
  <2>1. Len(first) = Len(up) /\ DOMAIN first = 1 .. Len(up)
    BY <1>12, <1>13
  <2>2. first = <<>> <=> Len(up) = 0
    BY <1>12, <1>13, <2>1
  <2>3. QED
    BY <1>12, <2>1, <2>2
<1>15. S = {} <=> \A g \in H : h <= g => c[<<k, g>>] = None
  <2> HIDE DEF S, b
  <2>1. QED
    BY <1>10, <1>11
<1>16. ASSUME first # <<>>
       PROVE  \E g \in H : /\ h <= g /\ c[<<k, g>>] # None
                           /\ first[1][2] = c[<<k, g>>]
                           /\ \A f \in H : h <= f /\ c[<<k, f>>] # None => g <= f
  <2> HIDE DEF S
  <2>1. PICK x \in S : up[1] = <<x, s[E \o x]>> /\ \A y \in S : ~BytesBefore(y, x)
    BY <1>12, <1>14, <1>16
  <2>2. PICK g \in H : x = b(g)
    BY <1>11
  <2>3. h <= g /\ c[<<k, g>>] # None
    BY <1>10, <2>2
  <2>4. first[1] = up[1]
    <3>1. 1 \in 1 .. Len(up)
      BY <1>12, <1>14, <1>16
    <3>2. QED
      BY <1>13, <3>1
  <2> HIDE DEF b, E
  <2>5. first[1][2] = c[<<k, g>>]
    BY <1>9, <2>1, <2>2, <2>3, <2>4
  <2>6. ASSUME NEW f \in H, h <= f, c[<<k, f>>] # None
        PROVE  g <= f
    <3>1. b(f) \in S
      BY <1>10, <2>6
    <3>2. ~(f < g) /\ f \in Nat /\ g \in Nat
      BY <1>2, <2>1, <2>2, <3>1
    <3>3. QED
      BY <3>2
  <2>7. QED
    BY <2>3, <2>5, <2>6
<1> HIDE DEF S
<1>17. QED
  BY <1>14, <1>15, <1>16 DEF FirstLogged

\* The last height of a collection, which a descending range finds first.
LastOpen(open, c, H) ==
    /\ open = <<>> <=> \A h \in H : c[h] = None
    /\ open # <<>> => \E h \in H : /\ c[h] # None
                                   /\ cw_uint_from_cw_bytes(open[1][1][1]) = h
                                   /\ \A g \in H : c[g] # None => g <= h

\* The latest of the heights that are checkpointed.
LEMMA OpenLatest ==
    ASSUME NEW s, NEW names \in SUBSET Text, Shaped(s, names),
           NEW map, map.checkpoints \in names, NEW H, U64(H),
           NEW c, Holds(s, map.checkpoints, CheckpointTail(H), c),
           NEW open, open = range(s, Prefix(map.checkpoints, <<>>), 1, None, None, "Descending")
    PROVE  LastOpen(open, c, H)
<1> DEFINE ns == map.checkpoints
           E == Prefix(ns, <<>>)
           tail == CheckpointTail(H)
           b(g) == u64_key(g)
<1>1. Apart(tail, H) /\ \A h \in H : tail[h] = b(h)
  <2>1. \A h \in H : u64_key(h) \in Bytes
    BY HeightKey DEF Short
  <2>2. \A g, h \in H : u64_key(g) = u64_key(h) => g = h
    BY HeightKey
  <2>3. QED
    BY <2>1, <2>2 DEF Apart, CheckpointTail
<1>2. /\ \A g \in H : b(g) \in Bytes /\ cw_uint_from_cw_bytes(b(g)) = g
      /\ \A f, g \in H : BytesBefore(b(f), b(g)) <=> f < g
      /\ H \in SUBSET Nat
  <2>1. \A g \in H : b(g) \in Short /\ cw_uint_from_cw_bytes(b(g)) = g
    BY HeightKey
  <2>2. \A f, g \in H : BytesBefore(b(f), b(g)) <=> f < g
    BY HeightKey
  <2> HIDE DEF b
  <2>3. QED
    BY <2>1, <2>2 DEF U64, Short
<1>3. /\ GoodPrefix(s, E)
      /\ \A r \in Bytes : r \in Tails(s, E) <=> \E h \in H : r = tail[h] /\ c[h] # None
  <2> HIDE DEF tail, E, ns
  <2>1. ns \in names /\ Holds(s, ns, tail, c) /\ E = Prefix(ns, <<>>)
    BY DEF ns, tail, E
  <2>2. QED
    BY <1>1, <2>1, HeldTails
<1>4. Storage(s) /\ \A x \in DOMAIN s : x \in Bytes
  <2>1. names \in SUBSET Short
    BY DEF Text
  <2>2. QED
    BY <2>1, ShapedBytes DEF Shaped
<1>5. PICK lo \in Bytes, hi \in Ends :
        /\ calc_start_bound(E, None) = E \o lo /\ calc_end_bound(E, None) = EndAt(E, hi)
        /\ \A S : (\A x \in S : x \in Bytes) => \A x \in S : ~BytesBefore(x, lo) /\ UpTo(x, hi)
  BY <1>3, NoBounds DEF GoodPrefix
<1> DEFINE S == TailsIn(s, E, lo, hi)
           down == Trimmed(E, storage_range(s, E \o lo, EndAt(E, hi), "Descending"))
<1>6. S = Tails(s, E)
  <2> DEFINE T == Tails(s, E)
  <2>1. \A x \in T : x \in Bytes
    BY DEF Tails
  <2> HIDE DEF T
  <2>2. \A x \in T : ~BytesBefore(x, lo) /\ UpTo(x, hi)
    BY <1>5, <2>1
  <2>3. QED
    BY <2>2 DEF T, TailsIn
<1>7. /\ \A g \in H : b(g) \in S <=> c[g] # None
      /\ \A r \in S : \E g \in H : r = b(g)
  <2> HIDE DEF E, b, tail, S
  <2>1. \A g, h \in H : b(g) = b(h) => g = h
    BY HeightKey DEF b
  <2>2. \A r \in S : r \in Bytes
    BY <1>6 DEF Tails
  <2>3. QED
    BY <1>1, <1>2, <1>3, <1>6, <2>1, <2>2
<1>8. /\ Len(down) \in Nat /\ (Len(down) = 0 <=> S = {})
      /\ S # {} => \E x \in S : down[1] = <<x, s[E \o x]>> /\ \A y \in S : ~BytesBefore(x, y)
  <2> DEFINE up == Trimmed(E, storage_range(s, E \o lo, EndAt(E, hi), "Ascending"))
  <2>1. /\ S = TailsIn(s, E, lo, hi)
        /\ up = Trimmed(E, storage_range(s, E \o lo, EndAt(E, hi), "Ascending"))
        /\ down = Trimmed(E, storage_range(s, E \o lo, EndAt(E, hi), "Descending"))
    OBVIOUS
  <2> HIDE DEF up, down, S, E
  <2>2. QED
    BY <1>3, <1>4, <2>1, FirstFound
<1>9. open = [i \in 1 .. Len(down) |-> <<<<down[i][1]>>, down[i][2]>>]
  <2> DEFINE found == Trimmed(E, storage_range(s, calc_start_bound(E, None),
                                               calc_end_bound(E, None), "Descending"))
  <2>1. open = [i \in 1 .. Len(found) |-> <<<<found[i][1]>>, found[i][2]>>]
    BY DEF range, range_with_prefix, MapEach, deserialize_kv, from_vec
  <2>2. found = down
    <3> HIDE DEF E
    <3>1. QED
      BY <1>5
  <2> HIDE DEF found, down
  <2>3. QED
    BY <2>1, <2>2
<1> HIDE DEF down, S
<1>10. Len(open) \in Nat /\ (open = <<>> <=> S = {})
  <2>1. Len(open) = Len(down) /\ DOMAIN open = 1 .. Len(down)
    BY <1>8, <1>9
  <2>2. open = <<>> <=> Len(down) = 0
    BY <1>8, <1>9, <2>1
  <2>3. QED
    BY <1>8, <2>1, <2>2
<1>11. S = {} <=> \A g \in H : c[g] = None
  <2> HIDE DEF b
  <2>1. QED
    BY <1>7
<1>12. ASSUME open # <<>>
       PROVE  \E h \in H : /\ c[h] # None
                           /\ cw_uint_from_cw_bytes(open[1][1][1]) = h
                           /\ \A g \in H : c[g] # None => g <= h
  <2> HIDE DEF b, E
  <2>1. PICK x \in S : down[1] = <<x, s[E \o x]>> /\ \A y \in S : ~BytesBefore(x, y)
    BY <1>8, <1>10, <1>12
  <2>2. PICK h \in H : x = b(h)
    BY <1>7
  <2>3. open[1][1][1] = x
    <3>1. 1 \in 1 .. Len(down)
      BY <1>8, <1>10, <1>12
    <3>2. open[1] = <<<<down[1][1]>>, down[1][2]>>
      BY <1>9, <3>1
    <3>3. QED
      BY <2>1, <3>2
  <2>4. ASSUME NEW g \in H, c[g] # None
        PROVE  g <= h
    <3>1. b(g) \in S
      BY <1>7, <2>4
    <3>2. ~(h < g) /\ g \in Nat /\ h \in Nat
      BY <1>2, <2>1, <2>2, <3>1
    <3>3. QED
      BY <3>2
  <2>5. QED
    BY <1>2, <1>7, <2>2, <2>3, <2>4
<1>13. QED
  BY <1>10, <1>11, <1>12 DEF LastOpen

-----------------------------------------------------------------------------
(* A multi index of an indexed snapshot map.                               *)

\* Index keys: all of as many parts, each of which another part follows.
IndexParts(mp, M) ==
    /\ mp \in [M -> Seq(Short)]
    /\ \A m \in M : mp[m] # <<>>
    /\ \A m, n \in M : Len(mp[m]) = Len(mp[n])
    /\ \A m, n \in M : mp[m] = mp[n] => m = n

\* What a multi index keeps is keyed by its parts with those of the record behind them.
EntryKey(mp, parts, d) == mp[d[1]] \o parts[d[2]]
EntriesKeyed(mp, parts, D, tail) ==
    /\ \A d \in D : /\ EntryKey(mp, parts, d) \in KeysOfParts(Len(mp[d[1]]) + 1)
                    /\ tail[d] = joined_key(EntryKey(mp, parts, d))
    /\ \A d, e \in D : EntryKey(mp, parts, d) = EntryKey(mp, parts, e) => d = e

MultiTail(mp, M, parts, K) == [d \in M \X K |-> joined_extra_key(mp[d[1]], joined_key(parts[d[2]]))]

\* Entries of a multi index have keys of their own: of the parts of the index key and
\* of the primary key.
LEMMA MultiApart ==
    ASSUME NEW K, NEW parts, OnePartKeys(parts, K), NEW M, NEW mp, IndexParts(mp, M)
    PROVE  /\ Apart(MultiTail(mp, M, parts, K), M \X K)
           /\ EntriesKeyed(mp, parts, M \X K, MultiTail(mp, M, parts, K))
<1> DEFINE D == M \X K
           key(d) == mp[d[1]] \o parts[d[2]]
           tail == MultiTail(mp, M, parts, K)
<1>1. /\ \A d \in D : d[1] \in M /\ d[2] \in K
      /\ \A m \in M : mp[m] \in Seq(Short) /\ mp[m] # <<>>
      /\ \A m, n \in M : Len(mp[m]) = Len(mp[n])
      /\ \A m, n \in M : mp[m] = mp[n] => m = n
  BY DEF IndexParts
<1>2. \A k \in K : /\ parts[k] \in KeysOfParts(1) /\ joined_key(parts[k]) \in Bytes
                   /\ parts[k] = <<parts[k][1]>> /\ parts[k][1] \in Short
  <2>1. SUFFICES ASSUME NEW k \in K
                 PROVE  /\ parts[k] \in KeysOfParts(1) /\ joined_key(parts[k]) \in Bytes
                        /\ parts[k] = <<parts[k][1]>> /\ parts[k][1] \in Short
    OBVIOUS
  <2>2. parts[k] \in KeysOfParts(1) /\ parts[k] \in Seq(Short) /\ Len(parts[k]) = 1
    BY DEF OnePartKeys, KeysOfParts
  <2>3. QED
    BY <2>2, JoinedOne
<1>3. ASSUME NEW d \in D
      PROVE  key(d) \in KeysOfParts(Len(mp[d[1]]) + 1) /\ tail[d] = joined_key(key(d))
  <2> DEFINE j == mp[d[1]]
             k == parts[d[2]]
             m == 1
  <2>1. j \in Seq(Short) /\ k \in KeysOfParts(m) /\ m \in Nat /\ m >= 1
    BY <1>1, <1>2
  <2>2. tail[d] = to_length_prefixed_nested(j) \o joined_key(k)
    BY DEF MultiTail, joined_extra_key, namespaces_with_key
  <2> HIDE DEF j, k, m
  <2>3. /\ j \o k \in KeysOfParts(Len(j) + m)
        /\ to_length_prefixed_nested(j) \o joined_key(k) = joined_key(j \o k)
    BY <2>1, JoinedConcat
  <2>4. QED
    BY <2>2, <2>3 DEF j, k, m
<1>4. ASSUME NEW d \in D, NEW e \in D, key(d) = key(e)
      PROVE  d = e
  <2> DEFINE a == mp[d[1]]
             b == mp[e[1]]
             x == parts[d[2]][1]
             y == parts[e[2]][1]
  <2>1. a \in Seq(Short) /\ b \in Seq(Short) /\ Len(a) = Len(b) /\ x \in Short /\ y \in Short
    BY <1>1, <1>2
  <2>2. a \o <<x>> = b \o <<y>>
    <3>1. parts[d[2]] = <<x>> /\ parts[e[2]] = <<y>>
      BY <1>1, <1>2
    <3> HIDE DEF x, y
    <3>2. QED
      BY <1>4, <3>1
  <2> HIDE DEF a, b, x, y
  <2>3. a = b /\ x = y
    BY <2>1, <2>2, SameLast
  <2>4. d[1] = e[1]
    BY <1>1, <2>3 DEF a, b
  <2>5. parts[d[2]] = parts[e[2]]
    BY <1>1, <1>2, <2>3 DEF x, y
  <2>6. d[2] = e[2]
    BY <1>1, <2>5 DEF OnePartKeys
  <2>7. d = <<d[1], d[2]>> /\ e = <<e[1], e[2]>>
    OBVIOUS
  <2>8. QED
    BY <2>4, <2>6, <2>7
<1>5. ASSUME NEW d \in D, NEW e \in D, tail[d] = tail[e]
      PROVE  d = e
  <2> DEFINE n == Len(mp[d[1]]) + 1
  <2>1. n \in Nat /\ n >= 1 /\ Len(mp[e[1]]) + 1 = n
    BY <1>1
  <2>2. key(d) \in KeysOfParts(n) /\ key(e) \in KeysOfParts(n)
    BY <1>3, <2>1
  <2>3. joined_key(key(d)) = joined_key(key(e))
    BY <1>3, <1>5
  <2> HIDE DEF n
  <2>4. key(d) = key(e)
    <3> DEFINE f == key(d)
               g == key(e)
    <3>1. f \in KeysOfParts(n) /\ g \in KeysOfParts(n) /\ joined_key(f) = joined_key(g)
      BY <2>2, <2>3
    <3> HIDE DEF f, g
    <3>2. f = g
      BY <2>1, <3>1, JoinedOrder
    <3>3. QED
      BY <3>2 DEF f, g
  <2>5. QED
    BY <1>4, <2>4
<1>6. tail \in [D -> Bytes]
  <2>1. ASSUME NEW d \in D
        PROVE  tail[d] \in Bytes
    <3> DEFINE n == Len(mp[d[1]]) + 1
               f == key(d)
    <3>1. n \in Nat /\ n >= 1 /\ f \in KeysOfParts(n) /\ tail[d] = joined_key(f)
      BY <1>1, <1>3
    <3> HIDE DEF n, f, tail
    <3>2. QED
      BY <3>1, JoinedType
  <2>2. QED
    BY <2>1 DEF MultiTail
<1> HIDE DEF tail, key
<1>7. Apart(tail, D)
  BY <1>5, <1>6 DEF Apart
<1>8. EntriesKeyed(mp, parts, D, tail)
  BY <1>3, <1>4 DEF key, EntryKey, EntriesKeyed
<1>9. QED
  BY <1>7, <1>8 DEF tail

\* An entry of a multi index has the length of the primary key it ends with.
Lengths(c, M, K, parts) ==
    \A d \in M \X K : c[d] # None => c[d] = Len(joined_key(parts[d[2]]))

\* The keys that an index has below an index key, each once.
Lists(answers, c, n, K, parts) ==
    LET held == {k \in K : c[<<n, k>>] # None}
    IN  /\ {answers[i][1] : i \in 1 .. Len(answers)} = {parts[k] : k \in held}
        /\ Len(answers) = Cardinality(held)

\* What a multi index lists below an index key: the keys it has there, each once.
LEMMA MultiFound ==
    ASSUME NEW s, NEW names \in SUBSET Text, Shaped(s, names),
           NEW map, map.parts = 1, NEW index, index.namespace \in names,
           NEW K, NEW parts, OnePartKeys(parts, K), NEW M, NEW mp, IndexParts(mp, M),
           NEW c, Holds(s, index.namespace, MultiTail(mp, M, parts, K), c),
           Lengths(c, M, K, parts),
           NEW n \in M, NEW answers, answers = multi_range(s, map, index, mp[n], None, None, "Ascending")
    PROVE  Lists(answers, c, n, K, parts)
<1> SUFFICES ASSUME \A d \in M \X K : c[d] # None => c[d] = Len(joined_key(parts[d[2]])),
                    NEW held, held = {k \in K : c[<<n, k>>] # None}
             PROVE  /\ {answers[i][1] : i \in 1 .. Len(answers)} = {parts[k] : k \in held}
                    /\ Len(answers) = Cardinality(held)
  BY DEF Lengths, Lists
<1> DEFINE ns == index.namespace
           sub == mp[n]
           E == Prefix(ns, sub)
           D == M \X K
           key == [d \in D |-> EntryKey(mp, parts, d)]
           tail == MultiTail(mp, M, parts, K)
           r(k) == joined_key(parts[k])
<1>1. /\ Apart(tail, D)
      /\ \A d \in D : key[d] \in KeysOfParts(Len(mp[d[1]]) + 1) /\ tail[d] = joined_key(key[d])
      /\ \A d, e \in D : key[d] = key[e] => d = e
  <2>1. Apart(tail, D) /\ EntriesKeyed(mp, parts, D, tail)
    BY MultiApart
  <2>2. \A d \in D : key[d] = EntryKey(mp, parts, d)
    OBVIOUS
  <2> HIDE DEF key, tail, D
  <2>3. QED
    BY <2>1, <2>2 DEF EntriesKeyed
<1>2. /\ sub \in Seq(Short) /\ sub # <<>>
      /\ \A m \in M : Len(mp[m]) = Len(sub)
  BY DEF IndexParts
<1>3. \A k \in K : /\ parts[k] \in KeysOfParts(1) /\ parts[k] = <<r(k)>> /\ r(k) \in Bytes
  <2>1. SUFFICES ASSUME NEW k \in K
                 PROVE  /\ parts[k] \in KeysOfParts(1) /\ parts[k] = <<r(k)>> /\ r(k) \in Bytes
    OBVIOUS
  <2>2. parts[k] \in KeysOfParts(1)
    BY DEF OnePartKeys
  <2>3. QED
    BY <2>2, JoinedOne
<1>4. /\ GoodPrefix(s, E)
      /\ \A rest \in KeysOfParts(1) :
           joined_key(rest) \in Tails(s, E) <=> \E d \in D : key[d] = sub \o rest /\ c[d] # None
      /\ \A rest \in KeysOfParts(1), d \in D :
           key[d] = sub \o rest /\ c[d] # None => s[E \o joined_key(rest)] = c[d]
      /\ \A x \in Tails(s, E) : \E rest \in KeysOfParts(1) : x = joined_key(rest)
  <2> DEFINE m == 1
  <2>1. m \in Nat /\ m >= 1
    OBVIOUS
  <2>2. key \in [D -> KeysOfParts(Len(sub) + m)]
    <3>1. \A d \in D : Len(mp[d[1]]) + 1 = Len(sub) + m
      BY <1>2
    <3>2. \A d \in D : key[d] \in KeysOfParts(Len(sub) + m)
      BY <1>1, <3>1
    <3>3. key = [d \in D |-> key[d]]
      OBVIOUS
    <3> HIDE DEF key, sub, m, D
    <3>4. QED
      BY <3>2, <3>3
  <2>3. \A d \in D : tail[d] = joined_key(key[d])
    BY <1>1
  <2> HIDE DEF m, key, sub, tail, D, ns, E
  <2>4. ns \in names /\ Holds(s, ns, tail, c) /\ E = Prefix(ns, sub)
    BY DEF ns, tail, E
  <2>5. HeldUnder(s, E, sub, m, D, key, c)
    BY <1>1, <1>2, <2>1, <2>2, <2>3, <2>4, HeldBelow
  <2>6. QED
    BY <2>5 DEF HeldUnder, m
<1>5. Storage(s) /\ \A x \in DOMAIN s : x \in Bytes
  <2>1. names \in SUBSET Short
    BY DEF Text
  <2>2. QED
    BY <2>1, ShapedBytes DEF Shaped
<1>6. PICK lo \in Bytes, hi \in Ends :
        /\ calc_start_bound(E, None) = E \o lo /\ calc_end_bound(E, None) = EndAt(E, hi)
        /\ \A S : (\A x \in S : x \in Bytes) => \A x \in S : ~BytesBefore(x, lo) /\ UpTo(x, hi)
  BY <1>4, NoBounds DEF GoodPrefix
<1> DEFINE S == TailsIn(s, E, lo, hi)
           up == Trimmed(E, storage_range(s, E \o lo, EndAt(E, hi), "Ascending"))
<1>7. S = Tails(s, E) /\ \A x \in S : x \in Bytes
  <2> DEFINE T == Tails(s, E)
  <2>1. \A x \in T : x \in Bytes
    BY DEF Tails
  <2> HIDE DEF T
  <2>2. \A x \in T : ~BytesBefore(x, lo) /\ UpTo(x, hi)
    BY <1>6, <2>1
  <2>3. TailsIn(s, E, lo, hi) = T
    BY <2>2 DEF T, TailsIn
  <2>4. QED
    BY <2>1, <2>3 DEF T
<1>8. ASSUME NEW k \in K
      PROVE  /\ r(k) \in S <=> k \in held
             /\ k \in held => s[E \o r(k)] = Len(r(k))
  <2> DEFINE rest == parts[k]
             d == <<n, k>>
  <2>1. d \in D /\ key[d] = sub \o rest /\ rest \in KeysOfParts(1)
    BY <1>3 DEF EntryKey
  <2>2. \A e \in D : key[e] = sub \o rest => e = d
    BY <1>1, <2>1
  <2>3. c[d] # None => c[d] = Len(r(k))
    BY <2>1
  <2>4. joined_key(rest) = r(k)
    OBVIOUS
  <2> HIDE DEF D, key, sub, rest, E, r, S
  <2>5. r(k) \in S <=> c[d] # None
    BY <1>4, <1>7, <2>1, <2>2, <2>4
  <2>6. c[d] # None => s[E \o r(k)] = c[d]
    BY <1>4, <2>1, <2>4
  <2>7. QED
    BY <2>3, <2>5, <2>6
<1>9. ASSUME NEW x \in S
      PROVE  \E k \in K : x = r(k)
  <2> HIDE DEF r, S
  <2>1. PICK rest \in KeysOfParts(1) : x = joined_key(rest)
    BY <1>4, <1>7
  <2>2. PICK d \in D : key[d] = sub \o rest
    BY <1>4, <1>7, <2>1
  <2>3. d[1] \in M /\ d[2] \in K
    OBVIOUS
  <2> DEFINE a == mp[d[1]]
             p == r(d[2])
             q == rest[1]
  <2>4. a \in Seq(Bytes) /\ sub \in Seq(Bytes) /\ Len(a) = Len(sub)
    <3>1. \A t \in Seq(Short) : t \in Seq(Bytes)
      BY DEF Short
    <3>2. a \in Seq(Short)
      BY <2>3 DEF IndexParts
    <3>3. QED
      BY <1>2, <2>3, <3>1, <3>2
  <2>5. p \in Bytes /\ q \in Bytes /\ rest = <<q>> /\ parts[d[2]] = <<p>> /\ joined_key(rest) = q
    BY <1>3, <2>3, JoinedOne
  <2>6. key[d] = a \o parts[d[2]]
    BY DEF EntryKey
  <2>7. a \o <<p>> = sub \o <<q>>
    BY <2>2, <2>5, <2>6
  <2> HIDE DEF a, p, q, sub
  <2>8. p = q
    BY <2>4, <2>5, <2>7, SameLast
  <2>9. QED
    BY <2>1, <2>3, <2>5, <2>8 DEF p
<1> DEFINE m == Cardinality(S)
<1>10. m = Cardinality(S)
  OBVIOUS
<1> HIDE DEF m, S, up
<1>11. m \in Nat /\ IsFiniteSet(S) /\ \E l \in [1 .. m -> S] : FoundAs(s, E, lo, hi, S, m, l)
  BY <1>4, <1>5, <1>10, Found DEF S
<1>12. PICK l \in [1 .. m -> S] : FoundAs(s, E, lo, hi, S, m, l)
  BY <1>11
<1>13. /\ \A x \in S : \E i \in 1 .. m : l[i] = x
       /\ up = [i \in 1 .. m |-> <<l[i], s[E \o l[i]]>>]
  BY <1>12 DEF FoundAs, up
<1>14. Len(up) = m
  BY <1>11, <1>13
<1>15. answers = [i \in 1 .. m |-> deserialize_multi_kv(s, map, up[i])]
  <2> DEFINE found == Trimmed(E, storage_range(s, calc_start_bound(E, None),
                                               calc_end_bound(E, None), "Ascending"))
  <2>1. answers = [i \in 1 .. Len(found) |-> deserialize_multi_kv(s, map, found[i])]
    BY DEF multi_range, range_with_prefix, MapEach
  <2>2. found = up
    <3> HIDE DEF E
    <3>1. QED
      BY <1>6 DEF up
  <2> HIDE DEF found
  <2>3. QED
    BY <1>14, <2>1, <2>2
<1>16. ASSUME NEW i \in 1 .. m
       PROVE  answers[i][1] = <<l[i]>>
  <2>1. l[i] \in S
    OBVIOUS
  <2>2. PICK k \in K : l[i] = r(k)
    BY <1>9, <2>1
  <2> HIDE DEF r, E
  <2>3. s[E \o l[i]] = Len(l[i]) /\ l[i] \in Bytes
    BY <1>7, <1>8, <2>1, <2>2
  <2>4. up[i] = <<l[i], Len(l[i])>>
    BY <1>13, <2>3
  <2>5. PkOf(up[i]) = l[i]
    <3> DEFINE y == <<>>
               x == l[i]
    <3>1. y \in Bytes /\ y \o x = x
      BY <2>3, BytesEmpty
    <3> HIDE DEF x, y
    <3>2. PkOf(<<y \o x, Len(x)>>) = x
      BY <2>3, <3>1, PkIs DEF x
    <3>3. QED
      BY <2>4, <3>1, <3>2 DEF x
  <2>6. answers[i] = deserialize_multi_kv(s, map, up[i])
    BY <1>15
  <2>7. deserialize_multi_kv(s, map, up[i])[1] = from_vec(1, PkOf(up[i]))
    BY DEF deserialize_multi_kv, deserialize_multi_v
  <2>8. QED
    BY <2>5, <2>6, <2>7 DEF from_vec
<1>17. Len(answers) = m
  BY <1>11, <1>15
<1>18. {answers[i][1] : i \in 1 .. Len(answers)} = {parts[k] : k \in held}
  <2> HIDE DEF r
  <2>1. ASSUME NEW i \in 1 .. m
        PROVE  answers[i][1] \in {parts[k] : k \in held}
    <3>1. l[i] \in S
      OBVIOUS
    <3>2. PICK k \in K : l[i] = r(k)
      BY <1>9, <3>1
    <3>3. k \in held /\ parts[k] = <<r(k)>>
      BY <1>3, <1>8, <3>1, <3>2
    <3>4. QED
      BY <1>16, <3>2, <3>3
  <2>2. ASSUME NEW k \in held
        PROVE  \E i \in 1 .. m : answers[i][1] = parts[k]
    <3>1. k \in K
      OBVIOUS
    <3>2. r(k) \in S /\ parts[k] = <<r(k)>>
      BY <1>3, <1>8, <3>1
    <3>3. PICK i \in 1 .. m : l[i] = r(k)
      BY <1>13, <3>2
    <3>4. QED
      BY <1>16, <3>2, <3>3
  <2> DEFINE a(i) == answers[i][1]
             R == {parts[k] : k \in held}
  <2>3. /\ \A i \in 1 .. m : a(i) \in R
        /\ \A k \in held : \E i \in 1 .. m : a(i) = parts[k]
    BY <2>1, <2>2
  <2>4. \A x \in R : \E k \in held : x = parts[k]
    OBVIOUS
  <2> HIDE DEF a, R
  <2> DEFINE X == {a(i) : i \in 1 .. m}
  <2>5. \A x : x \in X <=> \E i \in 1 .. m : x = a(i)
    OBVIOUS
  <2> HIDE DEF X
  <2>6. X = R
    <3>1. \A x \in X : x \in R
      BY <2>3, <2>5
    <3>2. \A x \in R : x \in X
      BY <2>3, <2>4, <2>5
    <3>3. QED
      BY <3>1, <3>2
  <2>7. QED
    BY <1>17, <2>6 DEF a, R, X
<1>19. Cardinality(held) = m
  <2> DEFINE f == [x \in S |-> CHOOSE k \in K : x = r(k)]
  <2> HIDE DEF r
  <2>1. \A x \in S : f[x] \in K /\ x = r(f[x])
    BY <1>9
  <2>2. f \in [S -> held]
    <3>1. \A x \in S : f[x] \in held
      BY <1>8, <2>1
    <3>2. QED
      BY <3>1
  <2>3. \A j, k \in K : r(j) = r(k) => j = k
    <3>1. \A j, k \in K : parts[j] = parts[k] => j = k
      BY DEF OnePartKeys
    <3>2. QED
      BY <1>3, <3>1
  <2> HIDE DEF f
  <2>4. \A x, y \in S : f[x] = f[y] => x = y
    BY <2>1
  <2>5. \A k \in held : \E x \in S : f[x] = k
    <3>1. SUFFICES ASSUME NEW k \in held
                   PROVE  \E x \in S : f[x] = k
      OBVIOUS
    <3>2. k \in K /\ r(k) \in S
      BY <1>8
    <3>3. f[r(k)] = k
      BY <2>1, <2>3, <3>2
    <3>4. QED
      BY <3>2, <3>3
  <2>6. f \in Bijection(S, held)
    BY <2>2, <2>4, <2>5 DEF Bijection, Injection, IsInjective, Surjection
  <2>7. ExistsBijection(S, held)
    BY <2>6 DEF ExistsBijection
  <2>8. QED
    BY <1>10, <1>11, <2>7, FS_Bijection
<1>20. QED
  BY <1>17, <1>18, <1>19

-----------------------------------------------------------------------------
(* Where an indexed snapshot map puts what it keeps.                       *)

\* The keys of a unique index: all of as many parts.
WholeKeys(up, U) ==
    /\ \A u \in U : up[u] # <<>>
    /\ \A u, v \in U : up[u] \in KeysOfParts(Len(up[v]))
    /\ \A u, v \in U : up[u] = up[v] => u = v

UniqueTail(up, U) == [u \in U |-> joined_key(up[u])]

\* Entries of a unique index have keys of their own.
LEMMA UniqueApart ==
    ASSUME NEW U, NEW up, WholeKeys(up, U)
    PROVE  /\ \A u \in U : Len(up[u]) \in Nat /\ Len(up[u]) >= 1 /\ up[u] \in KeysOfParts(Len(up[u]))
           /\ Apart(UniqueTail(up, U), U)
<1>1. ASSUME NEW u \in U
      PROVE  Len(up[u]) \in Nat /\ Len(up[u]) >= 1 /\ up[u] \in KeysOfParts(Len(up[u]))
  <2>1. up[u] \in KeysOfParts(Len(up[u])) /\ up[u] # <<>>
    BY DEF WholeKeys
  <2>2. up[u] \in Seq(Seq(Byte))
    BY <2>1 DEF KeysOfParts
  <2>3. QED
    BY <2>1, <2>2
<1>2. ASSUME NEW u \in U, NEW v \in U
      PROVE  /\ joined_key(up[u]) \in Bytes
             /\ joined_key(up[u]) = joined_key(up[v]) => u = v
  <2> DEFINE n == Len(up[v])
             j == up[u]
             k == up[v]
  <2>1. n \in Nat /\ n >= 1 /\ j \in KeysOfParts(n) /\ k \in KeysOfParts(n)
    BY <1>1 DEF WholeKeys
  <2> HIDE DEF n, j, k
  <2>2. joined_key(j) \in Bytes
    BY <2>1, JoinedType
  <2>3. joined_key(j) = joined_key(k) => j = k
    BY <2>1, JoinedOrder
  <2>4. j = k => u = v
    BY DEF WholeKeys, j, k
  <2>5. QED
    BY <2>2, <2>3, <2>4 DEF j, k
<1>3. Apart(UniqueTail(up, U), U)
  BY <1>2 DEF Apart, UniqueTail
<1>4. QED
  BY <1>1, <1>3

\* Where a record, a checkpoint, an entry of the changelog or of an index is.
LEMMA SnapshotPaths ==
    ASSUME NEW ns \in Short, NEW K, NEW parts, OnePartKeys(parts, K), NEW H, U64(H),
           NEW M, NEW mp, IndexParts(mp, M), NEW U, NEW up, WholeKeys(up, U)
    PROVE  /\ \A k \in K : /\ parts[k] # <<>>
                           /\ Path(ns, parts[k]) = length_prefixed_with_key(ns, RecordTail(parts, K)[k])
           /\ \A h \in H : Path(ns, <<u64_key(h)>>) = length_prefixed_with_key(ns, CheckpointTail(H)[h])
           /\ \A k \in K, h \in H : Path(ns, Append(parts[k], u64_key(h)))
                = length_prefixed_with_key(ns, LogTail(parts, K, H)[<<k, h>>])
           /\ \A m \in M, k \in K : Path(ns, <<joined_extra_key(mp[m], joined_key(parts[k]))>>)
                = length_prefixed_with_key(ns, MultiTail(mp, M, parts, K)[<<m, k>>])
           /\ \A u \in U : Path(ns, up[u]) = length_prefixed_with_key(ns, UniqueTail(up, U)[u])
<1>1. \A k \in KeysOfParts(1) : k # <<>> /\ Path(ns, k) = length_prefixed_with_key(ns, joined_key(k))
  <2> DEFINE m == 1
  <2>1. m \in Nat /\ m >= 1
    OBVIOUS
  <2> HIDE DEF m
  <2>2. \A k \in KeysOfParts(m) : k # <<>> /\ Path(ns, k) = length_prefixed_with_key(ns, joined_key(k))
    BY <2>1, KeyType, PathIs
  <2>3. QED
    BY <2>2 DEF m
<1>2. \A b \in Bytes : Path(ns, <<b>>) = length_prefixed_with_key(ns, b)
  BY <1>1, OnePart
<1>3. \A k \in K : parts[k] # <<>> /\ Path(ns, parts[k]) = length_prefixed_with_key(ns, RecordTail(parts, K)[k])
  BY <1>1 DEF OnePartKeys, RecordTail
<1>4. \A h \in H : Path(ns, <<u64_key(h)>>) = length_prefixed_with_key(ns, CheckpointTail(H)[h])
  <2>1. \A h \in H : u64_key(h) \in Bytes
    BY HeightKey DEF Short
  <2>2. QED
    BY <1>2, <2>1 DEF CheckpointTail
<1>5. ASSUME NEW k \in K, NEW h \in H
      PROVE  Path(ns, Append(parts[k], u64_key(h)))
               = length_prefixed_with_key(ns, LogTail(parts, K, H)[<<k, h>>])
  <2> DEFINE key == LogKey(parts, <<k, h>>)
             m == 2
  <2>1. key \in KeysOfParts(m) /\ m \in Nat /\ m >= 1
    <3>1. \A d \in K \X H : LogKey(parts, d) \in KeysOfParts(2)
      BY ONLY SnapshotTails, OnePartKeys(parts, K), U64(H)
    <3>2. <<k, h>> \in K \X H
      OBVIOUS
    <3>3. QED
      BY <3>1, <3>2
  <2>2. LogTail(parts, K, H)[<<k, h>>] = joined_key(key)
    BY DEF LogTail
  <2>3. key = Append(parts[k], u64_key(h))
    BY DEF LogKey
  <2> HIDE DEF key, m
  <2>4. Path(ns, key) = length_prefixed_with_key(ns, joined_key(key))
    BY <2>1, PathIs
  <2>5. QED
    BY <2>2, <2>3, <2>4
<1>6. ASSUME NEW m \in M, NEW k \in K
      PROVE  Path(ns, <<joined_extra_key(mp[m], joined_key(parts[k]))>>)
               = length_prefixed_with_key(ns, MultiTail(mp, M, parts, K)[<<m, k>>])
  <2> DEFINE D == M \X K
             d == <<m, k>>
             tail == MultiTail(mp, M, parts, K)
  <2>1. d \in D /\ tail[d] = joined_extra_key(mp[m], joined_key(parts[k]))
    BY DEF MultiTail
  <2>2. Apart(tail, D)
    BY MultiApart
  <2> HIDE DEF D, d, tail
  <2>3. tail[d] \in Bytes
    BY <2>1, <2>2 DEF Apart
  <2>4. QED
    BY <1>2, <2>1, <2>3 DEF d, tail
<1>7. ASSUME NEW u \in U
      PROVE  Path(ns, up[u]) = length_prefixed_with_key(ns, UniqueTail(up, U)[u])
  <2> DEFINE n == Len(up[u])
             k == up[u]
  <2>1. n \in Nat /\ n >= 1 /\ k \in KeysOfParts(n)
    BY UniqueApart
  <2>2. UniqueTail(up, U)[u] = joined_key(k)
    BY DEF UniqueTail
  <2> HIDE DEF n, k
  <2>3. Path(ns, k) = length_prefixed_with_key(ns, joined_key(k))
    BY <2>1, PathIs
  <2>4. QED
    BY <2>2, <2>3 DEF k
<1>8. QED
  BY <1>3, <1>4, <1>5, <1>6, <1>7

=============================================================================
