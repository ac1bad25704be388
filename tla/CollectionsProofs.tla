-------------------------- MODULE CollectionsProofs --------------------------
(***************************************************************************)
(* The storage of Collections, for all names, keys, values and indexes:    *)
(* the parts of a key can be read back from its bytes and its bytes order  *)
(* as its parts do; no two keys share a path; what is written to one       *)
(* collection is not seen in another, and the indexes hold the records.    *)
(* A range, of the map or through an index, answers the records within its *)
(* bounds in their order, and a listing is complete.                       *)
(***************************************************************************)
EXTENDS Collections, StoreLemmas

-----------------------------------------------------------------------------
(* The order of byte strings.                                              *)

-----------------------------------------------------------------------------
(* Where the records are.                                                  *)
LEMMA AtMostThree ==
    ASSUME NEW x, NEW y, NEW z
    PROVE  Cardinality({x, y, z}) # 4
<1>1. IsFiniteSet({}) /\ Cardinality({}) = 0
  BY FS_EmptySet
<1>2. IsFiniteSet({x}) /\ Cardinality({x}) = 1
  BY FS_Singleton
<1>3. IsFiniteSet({x} \cup {y}) /\ Cardinality({x} \cup {y}) \in {1, 2}
  BY <1>2, FS_AddElement
<1>4. Cardinality(({x} \cup {y}) \cup {z}) \in {1, 2, 3}
  BY <1>3, FS_AddElement
<1>5. ({x} \cup {y}) \cup {z} = {x, y, z}
  OBVIOUS
<1>6. QED
  BY <1>4, <1>5

\* The namespaces are of letters, and each map has its own.
LEMMA NamespaceFacts ==
    /\ \A name \in Namespaces : /\ name \in Short /\ Len(name) \in Nat
                                /\ \A i \in 1 .. Len(name) : name[i] \in 0 .. 254
    /\ {RecordsNamespace, AccountsNamespace, MultiNamespace, UniqueNamespace} = Namespaces
    /\ RecordsNamespace # AccountsNamespace /\ RecordsNamespace # MultiNamespace
    /\ RecordsNamespace # UniqueNamespace /\ AccountsNamespace # MultiNamespace
    /\ AccountsNamespace # UniqueNamespace /\ MultiNamespace # UniqueNamespace
<1>1. ASSUME NEW name \in Namespaces
      PROVE  /\ name \in Short /\ Len(name) \in Nat
             /\ \A i \in 1 .. Len(name) : name[i] \in 0 .. 254
  <2>1. name \in Seq(0 .. 254) /\ Len(name) < 65535
    BY CollectionsAssumption
  <2>2. 0 .. 254 \subseteq 0 .. 255
    OBVIOUS
  <2>3. name \in Seq(0 .. 255)
    BY <2>1, <2>2, SeqMonotonic
  <2>4. \A i \in 1 .. Len(name) : name[i] \in 0 .. 254
    <3> DEFINE L == 0 .. 254
    <3>1. name \in Seq(L)
      BY <2>1
    <3> HIDE DEF L
    <3>2. \A i \in 1 .. Len(name) : name[i] \in L
      BY <3>1
    <3>3. QED
      BY <3>2 DEF L
  <2>5. name \in Bytes
    BY <2>3 DEF Bytes, Byte
  <2>6. Len(name) \in Nat
    BY <2>5 DEF Bytes
  <2>7. name \in Short
    BY <2>1, <2>5 DEF Short
  <2>8. QED
    BY ONLY <2>4, <2>6, <2>7
<1> DEFINE r == RecordsNamespace
           a == AccountsNamespace
           m == MultiNamespace
           u == UniqueNamespace
<1>2. {r, a, m, u} = Namespaces /\ Cardinality(Namespaces) = 4
  BY CollectionsAssumption DEF Namespaces
<1> HIDE DEF r, a, m, u
<1>3. r # a
  <2>1. ASSUME r = a PROVE FALSE
    <3>1. {r, a, m, u} = {a, m, u}
      BY <2>1
    <3>2. Cardinality({a, m, u}) # 4
      BY AtMostThree
    <3>3. QED
      BY ONLY <1>2, <3>1, <3>2
  <2>2. QED
    BY <2>1
<1>4. r # m
  <2>1. ASSUME r = m PROVE FALSE
    <3>1. {r, a, m, u} = {a, m, u}
      BY <2>1
    <3>2. Cardinality({a, m, u}) # 4
      BY AtMostThree
    <3>3. QED
      BY ONLY <1>2, <3>1, <3>2
  <2>2. QED
    BY <2>1
<1>5. r # u
  <2>1. ASSUME r = u PROVE FALSE
    <3>1. {r, a, m, u} = {a, m, u}
      BY <2>1
    <3>2. Cardinality({a, m, u}) # 4
      BY AtMostThree
    <3>3. QED
      BY ONLY <1>2, <3>1, <3>2
  <2>2. QED
    BY <2>1
<1>6. a # m
  <2>1. ASSUME a = m PROVE FALSE
    <3>1. {r, a, m, u} = {r, m, u}
      BY <2>1
    <3>2. Cardinality({r, m, u}) # 4
      BY AtMostThree
    <3>3. QED
      BY ONLY <1>2, <3>1, <3>2
  <2>2. QED
    BY <2>1
<1>7. a # u
  <2>1. ASSUME a = u PROVE FALSE
    <3>1. {r, a, m, u} = {r, m, u}
      BY <2>1
    <3>2. Cardinality({r, m, u}) # 4
      BY AtMostThree
    <3>3. QED
      BY ONLY <1>2, <3>1, <3>2
  <2>2. QED
    BY <2>1
<1>8. m # u
  <2>1. ASSUME m = u PROVE FALSE
    <3>1. {r, a, m, u} = {r, a, u}
      BY <2>1
    <3>2. Cardinality({r, a, u}) # 4
      BY AtMostThree
    <3>3. QED
      BY ONLY <1>2, <3>1, <3>2
  <2>2. QED
    BY <2>1
<1>9. QED
  BY <1>1, <1>2, <1>3, <1>4, <1>5, <1>6, <1>7, <1>8 DEF r, a, m, u

\* The path of the item is below no namespace.
LEMMA ItemApart ==
    ASSUME NEW name \in Namespaces, NEW x \in Bytes
    PROVE  ItemName # length_prefixed_with_key(name, x)
<1> DEFINE h == to_length_prefixed(name)
           p == h \o x
<1>1. name \in Short
  BY NamespaceFacts
<1>2. h \in Bytes /\ Len(h) \in Nat /\ p \in Bytes /\ Len(p) = Len(h) + Len(x) /\ Len(x) \in Nat
      /\ \A i \in 1 .. Len(h) : p[i] = h[i]
  BY <1>1, PrefixedType, BytesConcat DEF Bytes
<1> HIDE DEF h, p
<1>3. Len(h) <= Len(h) /\ Len(h) <= Len(p)
  BY <1>2
<1>4. SubSeq(h, 1, Len(h)) = SubSeq(p, 1, Len(h))
  BY <1>2, <1>3, SameStart DEF Bytes
<1>5. IsPrefix(h, p)
  BY <1>3, <1>4 DEF IsPrefix
<1>6. ~IsPrefix(h, ItemName)
  BY CollectionsAssumption DEF h, to_length_prefixed
<1>7. ItemName # p
  BY <1>5, <1>6
<1>8. QED
  BY <1>7 DEF p, h, length_prefixed_with_key

\* The parts of an index key before a primary key.
MPath(k, v) == MultiPath(multi, joined_key(k), v)

UPath(v) == UniquePath(unique, v)

LEMMA IndexKeys ==
    ASSUME NEW v \in Values
    PROVE  /\ MultiKey[v] \in Seq(Short) /\ Len(MultiKey[v]) \in Nat \ {0}
           /\ MultiKey[v] \in KeysOfParts(Len(MultiKey[v]))
           /\ UniqueKey[v] \in KeysOfParts(Len(UniqueKey[v])) /\ Len(UniqueKey[v]) \in Nat \ {0}
           /\ \A w \in Values : /\ Len(MultiKey[w]) = Len(MultiKey[v])
                                /\ Len(UniqueKey[w]) = Len(UniqueKey[v])
<1> DEFINE mk == MultiKey[v]
           uk == UniqueKey[v]
<1>1. /\ mk \in KeysOfParts(Len(mk)) /\ uk \in KeysOfParts(Len(uk))
      /\ mk # <<>> /\ Len(Last(mk)) < 65535 /\ uk # <<>>
  BY CollectionsAssumption
<1> HIDE DEF mk, uk
<1>2. mk \in Seq(Bytes) /\ uk \in Seq(Bytes) /\ \A i \in 1 .. Len(mk) - 1 : Len(mk[i]) < 65535
  BY <1>1 DEF KeysOfParts, Bytes
<1>3. Len(mk) \in Nat \ {0} /\ Len(uk) \in Nat \ {0}
  BY <1>1, <1>2, EmptySeq
<1>4. ASSUME NEW i \in 1 .. Len(mk) PROVE mk[i] \in Short
  <2>1. mk[i] \in Bytes
    BY <1>2
  <2>2. Len(mk[i]) < 65535
    <3>1. CASE i = Len(mk)
      BY <1>1, <3>1 DEF Last
    <3>2. CASE i # Len(mk)
      <4>1. i \in 1 .. Len(mk) - 1
        BY <1>3, <3>2
      <4>2. QED
        BY <1>2, <4>1
    <3>3. QED
      BY <3>1, <3>2
  <2>3. QED
    BY <2>1, <2>2 DEF Short
<1>5. mk \in Seq(Short)
  <2>1. mk \in [1 .. Len(mk) -> Short]
    BY <1>2, <1>4
  <2>2. QED
    BY <1>3, <2>1
<1>6. ASSUME NEW w \in Values
      PROVE  Len(MultiKey[w]) = Len(mk) /\ Len(UniqueKey[w]) = Len(uk)
  <2>1. MultiKey[w] \in KeysOfParts(Len(mk)) /\ UniqueKey[w] \in KeysOfParts(Len(uk))
    BY CollectionsAssumption DEF mk, uk
  <2>2. QED
    BY <2>1 DEF KeysOfParts
<1>7. QED
  BY <1>1, <1>3, <1>5, <1>6 DEF mk, uk

\* Every path is a namespace and the bytes of a key.
LEMMA PathsAre ==
    /\ \A a \in Accounts : /\ a \in KeysOfParts(1) /\ joined_key(a) \in Bytes
                           /\ AccountPath[a] = length_prefixed_with_key(AccountsNamespace, joined_key(a))
    /\ \A k \in Records : /\ k \in KeysOfParts(2) /\ joined_key(k) \in Bytes
                          /\ RecordPath[k] = length_prefixed_with_key(RecordsNamespace, joined_key(k))
    /\ \A k \in Records, v \in Values :
         /\ MultiKey[v] \o k \in KeysOfParts(Len(MultiKey[v]) + 2)
         /\ joined_key(MultiKey[v] \o k) \in Bytes
         /\ MPath(k, v) = length_prefixed_with_key(MultiNamespace, joined_key(MultiKey[v] \o k))
    /\ \A v \in Values :
         /\ joined_key(UniqueKey[v]) \in Bytes
         /\ UPath(v) = length_prefixed_with_key(UniqueNamespace, joined_key(UniqueKey[v]))
<1>1. /\ AccountsNamespace \in Short /\ RecordsNamespace \in Short
      /\ MultiNamespace \in Short /\ UniqueNamespace \in Short
  BY NamespaceFacts
<1>2. ASSUME NEW a \in Accounts
      PROVE  /\ a \in KeysOfParts(1) /\ joined_key(a) \in Bytes
             /\ AccountPath[a] = length_prefixed_with_key(AccountsNamespace, joined_key(a))
  <2>1. a \in KeysOfParts(1)
    BY CollectionsAssumption
  <2>2. AccountPath[a] = Path(AccountsNamespace, a)
    BY DEF AccountPath
  <2> DEFINE m == 1
  <2>3. m \in Nat /\ m >= 1 /\ a \in KeysOfParts(m)
    BY <2>1
  <2> HIDE DEF m
  <2>4. Path(AccountsNamespace, a) = length_prefixed_with_key(AccountsNamespace, joined_key(a))
    BY <1>1, <2>3, PathIs
  <2>5. joined_key(a) \in Bytes
    BY <2>3, JoinedType
  <2>6. QED
    BY <2>1, <2>2, <2>4, <2>5
<1>3. ASSUME NEW k \in Records
      PROVE  /\ k \in KeysOfParts(2) /\ joined_key(k) \in Bytes
             /\ RecordPath[k] = length_prefixed_with_key(RecordsNamespace, joined_key(k))
  <2>1. k \in KeysOfParts(2)
    BY CollectionsAssumption
  <2>2. RecordPath[k] = Path(RecordsNamespace, k)
    BY DEF RecordPath
  <2> DEFINE m == 2
  <2>3. m \in Nat /\ m >= 1 /\ k \in KeysOfParts(m)
    BY <2>1
  <2> HIDE DEF m
  <2>4. Path(RecordsNamespace, k) = length_prefixed_with_key(RecordsNamespace, joined_key(k))
    BY <1>1, <2>3, PathIs
  <2>5. joined_key(k) \in Bytes
    BY <2>3, JoinedType
  <2>6. QED
    BY <2>1, <2>2, <2>4, <2>5
<1>4. ASSUME NEW k \in Records, NEW v \in Values
      PROVE  /\ MultiKey[v] \o k \in KeysOfParts(Len(MultiKey[v]) + 2)
             /\ joined_key(MultiKey[v] \o k) \in Bytes
             /\ MPath(k, v) = length_prefixed_with_key(MultiNamespace, joined_key(MultiKey[v] \o k))
  <2> DEFINE mk == MultiKey[v]
             pk == joined_key(k)
             x == to_length_prefixed_nested(mk) \o pk
             m == 2
             n == Len(mk) + 2
  <2>1. mk \in Seq(Short) /\ Len(mk) \in Nat
    BY IndexKeys
  <2>2. k \in KeysOfParts(m) /\ m \in Nat /\ m >= 1 /\ n = Len(mk) + m /\ n \in Nat /\ n >= 1
    BY <1>3, <2>1
  <2>3. MPath(k, v) = Path(MultiNamespace, <<x>>)
    BY DEF MPath, MultiPath, multi, joined_extra_key, namespaces_with_key
  <2> HIDE DEF mk, pk, m, n
  <2>4. mk \o k \in KeysOfParts(n) /\ x = joined_key(mk \o k)
    BY <2>1, <2>2, JoinedConcat DEF pk
  <2>5. joined_key(mk \o k) \in Bytes
    BY <2>2, <2>4, JoinedType
  <2> HIDE DEF x
  <2> DEFINE o == 1
             xs == <<x>>
  <2>6. xs \in KeysOfParts(1) /\ xs[1] = x
    BY <2>4, <2>5 DEF KeysOfParts, Bytes
  <2> HIDE DEF xs
  <2>7. joined_key(xs) = x
    BY <2>6, JoinedOne
  <2>8. o \in Nat /\ o >= 1 /\ xs \in KeysOfParts(o)
    BY <2>6
  <2> HIDE DEF o
  <2>9. Path(MultiNamespace, xs) = length_prefixed_with_key(MultiNamespace, joined_key(xs))
    BY <1>1, <2>8, PathIs
  <2>10. QED
    BY <2>3, <2>4, <2>5, <2>7, <2>9 DEF mk, n, xs
<1>5. ASSUME NEW v \in Values
      PROVE  /\ joined_key(UniqueKey[v]) \in Bytes
             /\ UPath(v) = length_prefixed_with_key(UniqueNamespace, joined_key(UniqueKey[v]))
  <2> DEFINE uk == UniqueKey[v]
             n == Len(uk)
  <2>1. uk \in KeysOfParts(n) /\ n \in Nat /\ n >= 1
    BY IndexKeys
  <2>2. UPath(v) = Path(UniqueNamespace, uk)
    BY DEF UPath, UniquePath, unique
  <2> HIDE DEF uk, n
  <2>3. QED
    BY <1>1, <2>1, <2>2, PathIs, JoinedType DEF uk
<1>6. QED
  BY <1>2, <1>3, <1>4, <1>5

\* Different keys have different paths, and so have the keys of different maps.
LEMMA PathsApart ==
    /\ \A a, b \in Accounts : AccountPath[a] = AccountPath[b] => a = b
    /\ \A j, k \in Records : RecordPath[j] = RecordPath[k] => j = k
    /\ \A j, k \in Records, v, w \in Values :
         MPath(j, v) = MPath(k, w) <=> j = k /\ MultiKey[v] = MultiKey[w]
    /\ \A v, w \in Values : UPath(v) = UPath(w) <=> UniqueKey[v] = UniqueKey[w]
    /\ \A a \in Accounts, k \in Records : AccountPath[a] # RecordPath[k]
    /\ \A a \in Accounts, k \in Records, v \in Values : AccountPath[a] # MPath(k, v)
    /\ \A a \in Accounts, v \in Values : AccountPath[a] # UPath(v)
    /\ \A j, k \in Records, v \in Values : RecordPath[j] # MPath(k, v)
    /\ \A k \in Records, v \in Values : RecordPath[k] # UPath(v)
    /\ \A k \in Records, v, w \in Values : MPath(k, v) # UPath(w)
    /\ \A a \in Accounts : AccountPath[a] # ItemName
    /\ \A k \in Records : RecordPath[k] # ItemName
    /\ \A k \in Records, v \in Values : MPath(k, v) # ItemName
    /\ \A v \in Values : UPath(v) # ItemName
<1>1. \A x, y \in Namespaces : \A r, s \in Bytes :
        length_prefixed_with_key(x, r) = length_prefixed_with_key(y, s) => x = y /\ r = s
  BY NamespaceFacts, PrefixedOrder
<1>2. \A x \in Namespaces : \A r \in Bytes : ItemName # length_prefixed_with_key(x, r)
  BY ItemApart
<1>3. /\ AccountsNamespace \in Namespaces /\ RecordsNamespace \in Namespaces
      /\ MultiNamespace \in Namespaces /\ UniqueNamespace \in Namespaces
  BY DEF Namespaces
<1>4. \A m \in Nat : m >= 1 =>
        \A j, k \in KeysOfParts(m) : joined_key(j) = joined_key(k) => j = k
  BY JoinedOrder
<1>5. ASSUME NEW a \in Accounts, NEW b \in Accounts, AccountPath[a] = AccountPath[b]
      PROVE  a = b
  <2>1. joined_key(a) = joined_key(b)
    BY <1>1, <1>3, <1>5, PathsAre
  <2>2. a \in KeysOfParts(1) /\ b \in KeysOfParts(1) /\ 1 \in Nat /\ 1 >= 1
    BY PathsAre
  <2>3. QED
    BY <1>4, <2>1, <2>2
<1>6. ASSUME NEW j \in Records, NEW k \in Records, RecordPath[j] = RecordPath[k]
      PROVE  j = k
  <2>1. joined_key(j) = joined_key(k)
    BY <1>1, <1>3, <1>6, PathsAre
  <2>2. j \in KeysOfParts(2) /\ k \in KeysOfParts(2) /\ 2 \in Nat /\ 2 >= 1
    BY PathsAre
  <2>3. QED
    BY <1>4, <2>1, <2>2
<1>7. ASSUME NEW j \in Records, NEW k \in Records, NEW v \in Values, NEW w \in Values
      PROVE  MPath(j, v) = MPath(k, w) <=> j = k /\ MultiKey[v] = MultiKey[w]
  <2> DEFINE x == MultiKey[v]
             y == MultiKey[w]
             n == Len(x) + 2
             s == x \o j
             t == y \o k
  <2>1. /\ s \in KeysOfParts(n) /\ joined_key(s) \in Bytes
        /\ MPath(j, v) = length_prefixed_with_key(MultiNamespace, joined_key(s))
    BY PathsAre
  <2>2. Len(y) = Len(x) /\ x \in Seq(Short) /\ y \in Seq(Short) /\ n \in Nat /\ n >= 1
    BY IndexKeys
  <2>3. /\ t \in KeysOfParts(n) /\ joined_key(t) \in Bytes
        /\ MPath(k, w) = length_prefixed_with_key(MultiNamespace, joined_key(t))
    BY <2>2, PathsAre
  <2>4. MPath(j, v) = MPath(k, w) => s = t
    <3> HIDE DEF n, s, t
    <3>1. MPath(j, v) = MPath(k, w) => joined_key(s) = joined_key(t)
      BY <1>1, <1>3, <2>1, <2>3
    <3>2. joined_key(s) = joined_key(t) => s = t
      BY <1>4, <2>1, <2>2, <2>3
    <3>3. QED
      BY <3>1, <3>2
  <2>5. s = t => x = y /\ j = k
    <3>1. j \in Seq(Bytes) /\ k \in Seq(Bytes)
      BY PathsAre DEF KeysOfParts, Bytes
    <3>2. x \in Seq(Bytes) /\ y \in Seq(Bytes)
      <4>1. Short \subseteq Bytes
        BY DEF Short
      <4>2. QED
        BY <2>2, <4>1, SeqMonotonic
    <3>3. /\ Len(x) \in Nat /\ \A i \in 1 .. Len(x) : s[i] = x[i] /\ t[i] = y[i]
      BY <2>2, <3>1, <3>2, Concat
    <3> SUFFICES ASSUME s = t PROVE x = y /\ j = k
      OBVIOUS
    <3>4. x \o j = y \o k
      OBVIOUS
    <3> HIDE DEF s, t, x, y
    <3>5. x = y
      BY <2>2, <3>2, <3>3, SameSeq
    <3>6. x \o j = x \o k
      BY <3>4, <3>5
    <3>7. j = k
      BY <3>1, <3>2, <3>6, ConcatSimplifications
    <3>8. QED
      BY <3>5, <3>7
  <2>6. x = y /\ j = k => s = t
    OBVIOUS
  <2>7. s = t => MPath(j, v) = MPath(k, w)
    <3> HIDE DEF s, t
    <3>1. QED
      BY <2>1, <2>3
  <2> HIDE DEF s, t
  <2>8. QED
    BY <2>4, <2>5, <2>6, <2>7
<1>8. ASSUME NEW v \in Values, NEW w \in Values
      PROVE  UPath(v) = UPath(w) <=> UniqueKey[v] = UniqueKey[w]
  <2> DEFINE n == Len(UniqueKey[v])
  <2>1. UniqueKey[v] \in KeysOfParts(n) /\ UniqueKey[w] \in KeysOfParts(n) /\ n \in Nat /\ n >= 1
    BY IndexKeys
  <2>2. UPath(v) = UPath(w) => joined_key(UniqueKey[v]) = joined_key(UniqueKey[w])
    BY <1>1, <1>3, PathsAre
  <2> HIDE DEF n
  <2>3. UPath(v) = UPath(w) => UniqueKey[v] = UniqueKey[w]
    BY <1>4, <2>1, <2>2
  <2>4. UniqueKey[v] = UniqueKey[w] => UPath(v) = UPath(w)
    BY PathsAre
  <2>5. QED
    BY <2>3, <2>4
<1>9. \A a \in Accounts, k \in Records : AccountPath[a] # RecordPath[k]
  BY <1>1, <1>3, PathsAre, NamespaceFacts
<1>10. \A a \in Accounts, k \in Records, v \in Values : AccountPath[a] # MPath(k, v)
  BY <1>1, <1>3, PathsAre, NamespaceFacts
<1>11. \A a \in Accounts, v \in Values : AccountPath[a] # UPath(v)
  BY <1>1, <1>3, PathsAre, NamespaceFacts
<1>12. \A j, k \in Records, v \in Values : RecordPath[j] # MPath(k, v)
  BY <1>1, <1>3, PathsAre, NamespaceFacts
<1>13. \A k \in Records, v \in Values : RecordPath[k] # UPath(v)
  BY <1>1, <1>3, PathsAre, NamespaceFacts
<1>14. \A k \in Records, v, w \in Values : MPath(k, v) # UPath(w)
  BY <1>1, <1>3, PathsAre, NamespaceFacts
<1>15. /\ \A a \in Accounts : AccountPath[a] # ItemName
       /\ \A k \in Records : RecordPath[k] # ItemName
       /\ \A k \in Records, v \in Values : MPath(k, v) # ItemName
       /\ \A v \in Values : UPath(v) # ItemName
  BY <1>2, <1>3, PathsAre
<1>16. QED
  BY <1>5, <1>6, <1>7, <1>8, <1>9, <1>10, <1>11, <1>12, <1>13, <1>14, <1>15

-----------------------------------------------------------------------------
(* What a storage of the collections holds.                                *)
\* The records a storage holds, with None where it holds none.
RecordsIn(s) == [k \in Records |-> get(s, RecordPath[k])]

\* The indexes hold an entry for each record, and no other.
IndexesMatch(s, r) ==
    /\ \A k \in Records, v \in Values :
         get(s, MPath(k, v)) = IF r[k] # None /\ MultiKey[r[k]] = MultiKey[v]
                               THEN Len(joined_key(k)) ELSE None
    /\ \A k \in Records : r[k] # None => get(s, UPath(r[k])) = UniqueRef(joined_key(k), r[k])
    /\ \A v \in Values : get(s, UPath(v)) # None =>
         \E k \in Records : r[k] # None /\ UniqueKey[r[k]] = UniqueKey[v]

IsPath(x) ==
    \/ x = ItemName
    \/ \E a \in Accounts : x = AccountPath[a]
    \/ \E k \in Records : x = RecordPath[k]
    \/ \E k \in Records, v \in Values : x = MPath(k, v)
    \/ \E v \in Values : x = UPath(v)

StoreOk(s) ==
    /\ Storage(s)
    /\ \A x \in DOMAIN s : IsPath(x)
    /\ get(s, ItemName) \in {Stored, None}
    /\ \A a \in Accounts : get(s, AccountPath[a]) \in {Stored, None}
    /\ \A k \in Records : get(s, RecordPath[k]) \in Values \cup {None}
    /\ IndexesMatch(s, RecordsIn(s))

Holdings == [Records -> Values \cup {None}]

LEMMA NoneApart ==
    /\ None \notin Values /\ None # Stored
    /\ \A k \in Records : Len(joined_key(k)) \in Nat /\ Len(joined_key(k)) # None
    /\ \A k \in Records, v \in Values : UniqueRef(joined_key(k), v) # None
<1>1. \A k \in Records : joined_key(k) \in Bytes
  BY PathsAre
<1>2. None \notin Values \cup {Stored} \cup Nat /\ None \notin [pk : Bytes, value : Values]
  BY CollectionsAssumption DEF Bytes
<1>3. ASSUME NEW k \in Records
      PROVE  Len(joined_key(k)) \in Nat
  BY <1>1 DEF Bytes
<1>4. ASSUME NEW k \in Records, NEW v \in Values
      PROVE  UniqueRef(joined_key(k), v) \in [pk : Bytes, value : Values]
  BY <1>1 DEF UniqueRef
<1>5. QED
  BY <1>2, <1>3, <1>4

\* No two records share a unique index key.
LEMMA OneHolder ==
    ASSUME NEW s, NEW r \in Holdings, IndexesMatch(s, r),
           NEW j \in Records, NEW k \in Records, r[j] # None, r[k] # None,
           UniqueKey[r[j]] = UniqueKey[r[k]]
    PROVE  j = k
<1>1. r[j] \in Values /\ r[k] \in Values
  BY DEF Holdings
<1>2. UPath(r[j]) = UPath(r[k])
  BY <1>1, PathsApart
<1>3. UniqueRef(joined_key(j), r[j]) = UniqueRef(joined_key(k), r[k])
  BY <1>2 DEF IndexesMatch
<1>4. UniqueRef(joined_key(j), r[j]).pk = joined_key(j) /\ UniqueRef(joined_key(k), r[k]).pk = joined_key(k)
  BY DEF UniqueRef
<1>5. joined_key(j) = joined_key(k)
  BY <1>3, <1>4
<1>6. j \in KeysOfParts(2) /\ k \in KeysOfParts(2) /\ 2 \in Nat /\ 2 >= 1
  BY PathsAre
<1>7. QED
  BY <1>5, <1>6, JoinedOrder

\* A write to the item or to an account leaves the indexed map as it is.
LEMMA PlainWrite ==
    ASSUME NEW s, StoreOk(s), NEW t, NEW path, NEW value \in {Stored, None},
           path = ItemName \/ \E a \in Accounts : path = AccountPath[a],
           Differs(s, t, path, value)
    PROVE  /\ StoreOk(t)
           /\ RecordsIn(t) = RecordsIn(s)
<1>1. IsPath(path)
  BY DEF IsPath
<1>2. \A k \in Records, v \in Values : path # RecordPath[k] /\ path # MPath(k, v) /\ path # UPath(v)
  <2>1. CASE path = ItemName
    BY <2>1, PathsApart
  <2>2. ASSUME NEW a \in Accounts, path = AccountPath[a]
        PROVE  \A k \in Records, v \in Values :
                 path # RecordPath[k] /\ path # MPath(k, v) /\ path # UPath(v)
    BY <2>2, PathsApart
  <2>3. QED
    BY <2>1, <2>2
<1>2a. \A k \in Records : path # RecordPath[k]
  BY PathsApart
<1>2b. \A v \in Values : path # UPath(v)
  BY PathsApart
<1>3. \A x : get(t, x) = IF x = path THEN value ELSE get(s, x)
  BY DEF Differs
<1>4. \A k \in Records : get(t, RecordPath[k]) = get(s, RecordPath[k])
  BY <1>2a, <1>3
<1>5. RecordsIn(t) = RecordsIn(s)
  BY <1>4 DEF RecordsIn
<1>6. \A k \in Records, v \in Values : get(t, MPath(k, v)) = get(s, MPath(k, v))
  BY <1>2, <1>3
<1>7. \A v \in Values : get(t, UPath(v)) = get(s, UPath(v))
  BY <1>2b, <1>3
<1>8. \A k \in Records : RecordsIn(s)[k] # None => RecordsIn(s)[k] \in Values
  BY DEF StoreOk, RecordsIn
<1>9. IndexesMatch(t, RecordsIn(s))
  <2>1. IndexesMatch(s, RecordsIn(s))
    BY DEF StoreOk
  <2> DEFINE r == RecordsIn(s)
  <2> HIDE DEF r
  <2>2. QED
    BY <1>6, <1>7, <1>8, <2>1 DEF IndexesMatch, r
<1>10. Storage(t) /\ \A x \in DOMAIN t : IsPath(x)
  BY <1>1 DEF Differs, StoreOk
<1>11. /\ get(t, ItemName) \in {Stored, None}
       /\ \A a \in Accounts : get(t, AccountPath[a]) \in {Stored, None}
  BY <1>3 DEF StoreOk
<1>12. \A k \in Records : get(t, RecordPath[k]) \in Values \cup {None}
  BY <1>4 DEF StoreOk
<1>13. QED
  BY <1>5, <1>9, <1>10, <1>11, <1>12 DEF StoreOk

-----------------------------------------------------------------------------
(* IndexedMap::replace: the old value leaves the indexes, the new one is   *)
(* put in them, and then the record is written.                            *)
LEMMA WithoutIs ==
    ASSUME NEW s, NEW pk, NEW old, old # None
    PROVE  WithoutOld(s, records, pk, old)
             = remove(remove(s, MultiPath(multi, pk, old)), UniquePath(unique, old))
<1> DEFINE Solves(h) == h = [n \in 0 .. Len(records.idx) |->
                          IF n = 0 THEN s ELSE index_remove(h[n-1], records.idx[n], pk, old)]
           d == CHOOSE h : Solves(h)
           s1 == remove(s, MultiPath(multi, pk, old))
           s2 == remove(s1, UniquePath(unique, old))
           f == [n \in 0 .. 2 |-> IF n = 0 THEN s ELSE IF n = 1 THEN s1 ELSE s2]
<1>1. Len(records.idx) = 2 /\ records.idx[1] = multi /\ records.idx[2] = unique
  BY DEF records
<1>2. \A x : index_remove(x, multi, pk, old) = remove(x, MultiPath(multi, pk, old))
  BY DEF index_remove, multi_remove, multi
<1>3. \A x : index_remove(x, unique, pk, old) = remove(x, UniquePath(unique, old))
  BY DEF index_remove, unique_remove, unique
<1>4. WithoutOld(s, records, pk, old) = d[Len(records.idx)]
  BY DEF WithoutOld
<1>5. index_remove(s, multi, pk, old) = s1 /\ index_remove(s1, unique, pk, old) = s2
  BY <1>2, <1>3
<1> HIDE DEF s1, s2
<1>6. Solves(f)
  <2>1. f[0] = s /\ f[1] = s1 /\ f[2] = s2
    OBVIOUS
  <2>2. ASSUME NEW n \in 0 .. 2
        PROVE  f[n] = IF n = 0 THEN s ELSE index_remove(f[n-1], records.idx[n], pk, old)
    <3>1. n = 0 \/ n = 1 \/ n = 2
      OBVIOUS
    <3> HIDE DEF f
    <3>2. QED
      BY <1>1, <1>5, <2>1, <3>1
  <2>3. f = [n \in 0 .. 2 |->
               IF n = 0 THEN s ELSE index_remove(f[n-1], records.idx[n], pk, old)]
    BY <2>2
  <2>4. QED
    BY <1>1, <2>3
<1> HIDE DEF f
<1>7. Solves(d)
  BY <1>6
<1> HIDE DEF d
<1>8. \A n \in 0 .. 2 :
        d[n] = IF n = 0 THEN s ELSE index_remove(d[n-1], records.idx[n], pk, old)
  BY <1>1, <1>7
<1>9. d[0] = s /\ d[1] = index_remove(d[0], multi, pk, old)
      /\ d[2] = index_remove(d[1], unique, pk, old)
  BY <1>1, <1>8
<1>10. QED
  BY <1>1, <1>4, <1>5, <1>9 DEF s2, s1

LEMMA WithIs ==
    ASSUME NEW s, NEW pk, NEW data
    PROVE  WithNew(s, records, pk, data)
             = unique_save(save(s, MultiPath(multi, pk, data), Len(pk)), unique, pk, data)
<1> DEFINE Step(w, n) == CASE n = 0 -> Ok(s)
                           [] n > 0 /\ w.ok -> index_save(w.store, records.idx[n], pk, data)
                           [] OTHER -> w
           Solves(h) == h = [n \in 0 .. Len(records.idx) |->
                          CASE n = 0 -> Ok(s)
                            [] n > 0 /\ h[n-1].ok -> index_save(h[n-1].store, records.idx[n], pk, data)
                            [] OTHER -> h[n-1]]
           d == CHOOSE h : Solves(h)
           s1 == Ok(save(s, MultiPath(multi, pk, data), Len(pk)))
           s2 == unique_save(s1.store, unique, pk, data)
           f == [n \in 0 .. 2 |-> IF n = 0 THEN Ok(s) ELSE IF n = 1 THEN s1 ELSE s2]
<1>1. Len(records.idx) = 2 /\ records.idx[1] = multi /\ records.idx[2] = unique
  BY DEF records
<1>2. index_save(Ok(s).store, multi, pk, data) = s1 /\ Ok(s).ok /\ s1.ok
  BY DEF index_save, multi_save, multi, Ok
<1>3. index_save(s1.store, unique, pk, data) = s2
  BY DEF index_save, unique
<1>4. WithNew(s, records, pk, data) = d[Len(records.idx)]
  BY DEF WithNew
<1>5. s1.store = save(s, MultiPath(multi, pk, data), Len(pk))
  BY DEF Ok
<1> DEFINE o == Ok(s)
<1> HIDE DEF s1, s2, o
<1>6. Solves(f)
  <2>1. f[0] = o /\ f[1] = s1 /\ f[2] = s2
    BY DEF o
  <2>2. ASSUME NEW n \in 0 .. 2
        PROVE  f[n] = CASE n = 0 -> Ok(s)
                        [] n > 0 /\ f[n-1].ok -> index_save(f[n-1].store, records.idx[n], pk, data)
                        [] OTHER -> f[n-1]
    <3> HIDE DEF f
    <3>1. CASE n = 0
      BY <2>1, <3>1 DEF o
    <3>2. CASE n = 1
      <4>1. f[n-1] = o /\ n > 0 /\ n # 0 /\ records.idx[n] = multi
        BY <1>1, <2>1, <3>2
      <4>2. o.ok /\ index_save(o.store, multi, pk, data) = s1
        BY <1>2 DEF o
      <4>3. QED
        BY <2>1, <3>2, <4>1, <4>2
    <3>3. CASE n = 2
      <4>1. f[n-1] = s1 /\ n > 0 /\ n # 0 /\ records.idx[n] = unique
        BY <1>1, <2>1, <3>3
      <4>2. QED
        BY <1>2, <1>3, <2>1, <3>3, <4>1
    <3>4. QED
      BY <3>1, <3>2, <3>3
  <2>3. f = [n \in 0 .. 2 |->
               CASE n = 0 -> Ok(s)
                 [] n > 0 /\ f[n-1].ok -> index_save(f[n-1].store, records.idx[n], pk, data)
                 [] OTHER -> f[n-1]]
    BY <2>2
  <2>4. QED
    BY <1>1, <2>3
<1> HIDE DEF f
<1>7. Solves(d)
  BY <1>6
<1> HIDE DEF d
<1>8. \A n \in 0 .. 2 :
        d[n] = CASE n = 0 -> Ok(s)
                 [] n > 0 /\ d[n-1].ok -> index_save(d[n-1].store, records.idx[n], pk, data)
                 [] OTHER -> d[n-1]
  BY <1>1, <1>7
<1>9. d[0] = o
  BY <1>8 DEF o
<1>10. d[1] = s1
  <2>1. 1 \in 0 .. 2 /\ 1 > 0 /\ 1 # 0 /\ 1 - 1 = 0
    OBVIOUS
  <2>2. d[0].ok /\ index_save(d[0].store, multi, pk, data) = s1
    BY <1>2, <1>9 DEF o
  <2>3. QED
    BY <1>1, <1>8, <2>1, <2>2
<1>11. d[2] = s2
  <2>1. 2 \in 0 .. 2 /\ 2 > 0 /\ 2 # 0 /\ 2 - 1 = 1
    OBVIOUS
  <2>2. QED
    BY <1>1, <1>2, <1>3, <1>8, <1>10, <2>1
<1>12. QED
  BY <1>1, <1>4, <1>5, <1>11 DEF s2

\* An entry leaves the indexes.
LEMMA OldLeaves ==
    ASSUME NEW s, Storage(s), NEW r \in Holdings, IndexesMatch(s, r), NEW key \in Records
    PROVE  LET t == WithoutOld(s, records, joined_key(key), r[key])
           IN  /\ Storage(t) /\ \A x \in DOMAIN t : x \in DOMAIN s \/ IsPath(x)
               /\ IndexesMatch(t, [r EXCEPT ![key] = None])
               /\ get(t, ItemName) = get(s, ItemName)
               /\ \A a \in Accounts : get(t, AccountPath[a]) = get(s, AccountPath[a])
               /\ \A k \in Records : get(t, RecordPath[k]) = get(s, RecordPath[k])
<1> DEFINE old == r[key]
           pk == joined_key(key)
           t == WithoutOld(s, records, pk, old)
           q == [r EXCEPT ![key] = None]
<1>0. SUFFICES /\ Storage(t) /\ \A x \in DOMAIN t : x \in DOMAIN s \/ IsPath(x)
               /\ IndexesMatch(t, q)
               /\ get(t, ItemName) = get(s, ItemName)
               /\ \A a \in Accounts : get(t, AccountPath[a]) = get(s, AccountPath[a])
               /\ \A k \in Records : get(t, RecordPath[k]) = get(s, RecordPath[k])
  OBVIOUS
<1>1. q \in Holdings /\ q[key] = None /\ \A k \in Records : k # key => q[k] = r[k]
  BY DEF Holdings
<1>2. CASE old = None
  <2>1. t = s
    BY <1>2 DEF WithoutOld
  <2>2. q = r
    BY <1>2 DEF Holdings
  <2> HIDE DEF t, q
  <2>3. QED
    BY <2>1, <2>2
<1>3. CASE old # None
  <2> DEFINE p1 == MPath(key, old)
             p2 == UPath(old)
             s1 == remove(s, p1)
  <2>1. old \in Values
    BY <1>3 DEF Holdings
  <2>2. t = remove(s1, p2)
    BY <1>3, WithoutIs DEF MPath, UPath
  <2>3. Differs(s, s1, p1, None)
    BY RemoveReads
  <2> HIDE DEF s1, p1, p2
  <2>4. Storage(s1)
    BY <2>3 DEF Differs
  <2>5. Differs(s1, t, p2, None)
    BY <2>2, <2>4, RemoveReads
  <2> HIDE DEF t
  <2>6. \A x : get(t, x) = IF x = p1 \/ x = p2 THEN None ELSE get(s, x)
    BY <2>3, <2>5 DEF Differs
  <2>7. IsPath(p1) /\ IsPath(p2)
    BY <2>1 DEF IsPath, p1, p2
  <2>8. Storage(t) /\ \A x \in DOMAIN t : x \in DOMAIN s \/ IsPath(x)
    BY <2>3, <2>5, <2>7 DEF Differs
  <2>9. get(t, ItemName) = get(s, ItemName)
    BY <2>1, <2>6, PathsApart DEF p1, p2
  <2>10. \A a \in Accounts : get(t, AccountPath[a]) = get(s, AccountPath[a])
    BY <2>1, <2>6, PathsApart DEF p1, p2
  <2>11. \A k \in Records : get(t, RecordPath[k]) = get(s, RecordPath[k])
    BY <2>1, <2>6, PathsApart DEF p1, p2
  <2> HIDE DEF q, old
  <2>12. ASSUME NEW k \in Records, NEW v \in Values
         PROVE  get(t, MPath(k, v)) = IF q[k] # None /\ MultiKey[q[k]] = MultiKey[v]
                                      THEN Len(joined_key(k)) ELSE None
    <3>1. MPath(k, v) # p2
      BY <2>1, PathsApart DEF p2
    <3>2. get(s, MPath(k, v)) = IF r[k] # None /\ MultiKey[r[k]] = MultiKey[v]
                                THEN Len(joined_key(k)) ELSE None
      BY DEF IndexesMatch
    <3>3. MPath(k, v) = p1 <=> k = key /\ MultiKey[v] = MultiKey[old]
      BY <2>1, PathsApart DEF p1
    <3>4. CASE k = key
      <4>1. r[k] = old
        BY <3>4 DEF old
      <4>2. q[k] = None
        BY <1>1, <3>4
      <4>3. get(t, MPath(k, v)) = None
        BY <2>6, <3>1, <3>2, <3>3, <3>4, <4>1
      <4>4. QED
        BY <4>2, <4>3
    <3>5. CASE k # key
      BY <1>1, <2>6, <3>1, <3>2, <3>3, <3>5
    <3>6. QED
      BY <3>4, <3>5
  <2>13. ASSUME NEW k \in Records, q[k] # None
         PROVE  get(t, UPath(q[k])) = UniqueRef(joined_key(k), q[k])
    <3>1. k # key /\ q[k] = r[k] /\ r[k] # None /\ r[k] \in Values
      BY <1>1, <2>13 DEF Holdings
    <3>2. r[key] = old
      BY DEF old
    <3>3. UniqueKey[r[k]] # UniqueKey[old]
      BY <1>3, <3>1, <3>2, OneHolder
    <3>4. UPath(r[k]) # p2
      BY <2>1, <3>1, <3>3, PathsApart DEF p2
    <3>5. UPath(r[k]) # p1
      BY <2>1, <3>1, PathsApart DEF p1
    <3>6. get(s, UPath(r[k])) = UniqueRef(joined_key(k), r[k])
      BY <3>1 DEF IndexesMatch
    <3>7. QED
      BY <2>6, <3>1, <3>4, <3>5, <3>6
  <2>14. ASSUME NEW v \in Values, get(t, UPath(v)) # None
         PROVE  \E k \in Records : q[k] # None /\ UniqueKey[q[k]] = UniqueKey[v]
    <3>1. UPath(v) # p2 /\ get(s, UPath(v)) # None
      BY <2>6, <2>14
    <3>2. PICK k \in Records : r[k] # None /\ UniqueKey[r[k]] = UniqueKey[v]
      BY <3>1 DEF IndexesMatch
    <3>3. k # key
      <4>1. UniqueKey[old] # UniqueKey[v]
        BY <2>1, <3>1, PathsApart DEF p2
      <4>2. QED
        BY <3>2, <4>1 DEF old
    <3>4. QED
      BY <1>1, <3>2, <3>3
  <2>15. IndexesMatch(t, q)
    BY <2>12, <2>13, <2>14 DEF IndexesMatch
  <2>16. QED
    BY <2>8, <2>9, <2>10, <2>11, <2>15
<1>4. QED
  BY <1>2, <1>3

\* A storage differs from another in the indexes only.
OnlyIndexesDiffer(s, t) ==
    /\ Storage(t)
    /\ \A x \in DOMAIN t : x \in DOMAIN s \/ IsPath(x)
    /\ get(t, ItemName) = get(s, ItemName)
    /\ \A a \in Accounts : get(t, AccountPath[a]) = get(s, AccountPath[a])
    /\ \A k \in Records : get(t, RecordPath[k]) = get(s, RecordPath[k])

\* An entry is put in the indexes, unless the unique index has it.
LEMMA NewEnters ==
    ASSUME NEW s, Storage(s), NEW q \in Holdings, IndexesMatch(s, q), NEW key \in Records,
           q[key] = None, NEW data \in Values,
           WithNew(s, records, joined_key(key), data).ok
    PROVE  /\ OnlyIndexesDiffer(s, WithNew(s, records, joined_key(key), data).store)
           /\ IndexesMatch(WithNew(s, records, joined_key(key), data).store,
                           [q EXCEPT ![key] = data])
           /\ \A k \in Records : q[k] # None => UniqueKey[q[k]] # UniqueKey[data]
<1> DEFINE pk == joined_key(key)
           w == WithNew(s, records, pk, data)
           t == w.store
           r == [q EXCEPT ![key] = data]
           p1 == MPath(key, data)
           p2 == UPath(data)
           s1 == save(s, p1, Len(pk))
           ref == UniqueRef(pk, data)
<1>1. SUFFICES /\ OnlyIndexesDiffer(s, t) /\ IndexesMatch(t, r)
               /\ \A k \in Records : q[k] # None => UniqueKey[q[k]] # UniqueKey[data]
  OBVIOUS
<1>2. r \in Holdings /\ r[key] = data /\ \A k \in Records : k # key => r[k] = q[k]
  BY DEF Holdings
<1>3. w = unique_save(s1, unique, pk, data)
  BY WithIs DEF MPath
<1>4. w.ok
  OBVIOUS
<1> HIDE DEF w, t, r, pk
<1>5. ~has(s1, p2) /\ t = save(s1, p2, ref)
  BY <1>3, <1>4 DEF unique_save, Ok, Err, UPath, t
<1>6. Len(pk) # None /\ ref # None
  BY NoneApart DEF pk
<1> HIDE DEF ref
<1>7. Differs(s, s1, p1, Len(pk))
  BY <1>6, SetReads DEF save
<1> HIDE DEF s1
<1>8. Storage(s1)
  BY <1>7 DEF Differs
<1>9. Differs(s1, t, p2, ref)
  BY <1>5, <1>6, <1>8, SetReads DEF save
<1>10. p1 # p2
  BY PathsApart
<1>11. get(s, p2) = None
  <2>1. get(s1, p2) = None
    BY <1>5, <1>8, HasIs
  <2>2. QED
    BY <1>7, <1>10, <2>1 DEF Differs
<1>12. IsPath(p1) /\ IsPath(p2)
  BY DEF IsPath
<1> HIDE DEF p1, p2
<1>13. \A x : get(t, x) = IF x = p2 THEN ref ELSE IF x = p1 THEN Len(pk) ELSE get(s, x)
  BY <1>7, <1>9 DEF Differs
<1>14. OnlyIndexesDiffer(s, t)
  <2>1. Storage(t) /\ \A x \in DOMAIN t : x \in DOMAIN s \/ IsPath(x)
    BY <1>7, <1>9, <1>12 DEF Differs
  <2>2. get(t, ItemName) = get(s, ItemName)
    BY <1>13, PathsApart DEF p1, p2
  <2>3. \A a \in Accounts : get(t, AccountPath[a]) = get(s, AccountPath[a])
    BY <1>13, PathsApart DEF p1, p2
  <2>4. \A k \in Records : get(t, RecordPath[k]) = get(s, RecordPath[k])
    BY <1>13, PathsApart DEF p1, p2
  <2>5. QED
    BY <2>1, <2>2, <2>3, <2>4 DEF OnlyIndexesDiffer
<1>15. ASSUME NEW k \in Records, q[k] # None
       PROVE  UniqueKey[q[k]] # UniqueKey[data]
  <2>1. q[k] \in Values
    BY <1>15 DEF Holdings
  <2>2. get(s, UPath(q[k])) = UniqueRef(joined_key(k), q[k])
    BY <1>15 DEF IndexesMatch
  <2>3. UniqueRef(joined_key(k), q[k]) # None
    BY <2>1, NoneApart
  <2>4. UPath(q[k]) # p2
    BY <1>11, <2>2, <2>3
  <2>5. QED
    BY <2>1, <2>4, PathsApart DEF p2
<1>16. ASSUME NEW k \in Records, NEW v \in Values
       PROVE  get(t, MPath(k, v)) = IF r[k] # None /\ MultiKey[r[k]] = MultiKey[v]
                                    THEN Len(joined_key(k)) ELSE None
  <2>1. MPath(k, v) # p2
    BY PathsApart DEF p2
  <2>2. get(s, MPath(k, v)) = IF q[k] # None /\ MultiKey[q[k]] = MultiKey[v]
                              THEN Len(joined_key(k)) ELSE None
    BY DEF IndexesMatch
  <2>3. MPath(k, v) = p1 <=> k = key /\ MultiKey[v] = MultiKey[data]
    BY PathsApart DEF p1
  <2>4. CASE k = key
    <3>1. r[k] = data /\ data # None
      BY <1>2, <2>4, NoneApart
    <3>2. CASE MultiKey[v] = MultiKey[data]
      BY <1>13, <2>1, <2>3, <2>4, <3>1, <3>2 DEF pk
    <3>3. CASE MultiKey[v] # MultiKey[data]
      <4>1. get(t, MPath(k, v)) = get(s, MPath(k, v))
        BY <1>13, <2>1, <2>3, <3>3
      <4>2. get(s, MPath(k, v)) = None
        BY <2>2, <2>4
      <4>3. QED
        BY <3>1, <3>3, <4>1, <4>2
    <3>4. QED
      BY <3>2, <3>3
  <2>5. CASE k # key
    BY <1>2, <1>13, <2>1, <2>2, <2>3, <2>5
  <2>6. QED
    BY <2>4, <2>5
<1>17. ASSUME NEW k \in Records, r[k] # None
       PROVE  get(t, UPath(r[k])) = UniqueRef(joined_key(k), r[k])
  <2>1. CASE k = key
    BY <1>2, <1>13, <2>1 DEF p2, ref, pk
  <2>2. CASE k # key
    <3>1. r[k] = q[k] /\ q[k] # None /\ q[k] \in Values
      BY <1>2, <1>17, <2>2 DEF Holdings
    <3>2. UPath(q[k]) # p2
      BY <1>15, <3>1, PathsApart DEF p2
    <3>3. UPath(q[k]) # p1
      BY <3>1, PathsApart DEF p1
    <3>4. get(s, UPath(q[k])) = UniqueRef(joined_key(k), q[k])
      BY <3>1 DEF IndexesMatch
    <3>5. QED
      BY <1>13, <3>1, <3>2, <3>3, <3>4
  <2>3. QED
    BY <2>1, <2>2
<1>18. ASSUME NEW v \in Values, get(t, UPath(v)) # None
       PROVE  \E k \in Records : r[k] # None /\ UniqueKey[r[k]] = UniqueKey[v]
  <2>1. UPath(v) # p1
    BY PathsApart DEF p1
  <2>2. CASE UPath(v) = p2
    <3>1. UniqueKey[v] = UniqueKey[data]
      BY <2>2, PathsApart DEF p2
    <3>2. r[key] # None /\ UniqueKey[r[key]] = UniqueKey[v]
      BY <1>2, <3>1, NoneApart
    <3>3. QED
      BY <3>2
  <2>3. CASE UPath(v) # p2
    <3>1. get(s, UPath(v)) # None
      BY <1>13, <1>18, <2>1, <2>3
    <3>2. PICK k \in Records : q[k] # None /\ UniqueKey[q[k]] = UniqueKey[v]
      BY <3>1 DEF IndexesMatch
    <3>3. k # key
      BY <3>2
    <3>4. QED
      BY <1>2, <3>2, <3>3
  <2>4. QED
    BY <2>2, <2>3
<1>19. IndexesMatch(t, r)
  BY <1>16, <1>17, <1>18 DEF IndexesMatch
<1>20. QED
  BY <1>14, <1>15, <1>19

\* What a storage holds beside the indexes.
ItemIn(s) == [k \in {ItemName} |-> get(s, ItemPath(k))]

AccountsIn(s) == [a \in Accounts |-> get(s, AccountPath[a])]

\* A record is given a value that no other shares an index key with, or is removed.
LEMMA Replaced ==
    ASSUME NEW s, StoreOk(s), NEW key \in Records, NEW data \in Values \cup {None},
           replace(s, records, key, data, get(s, RecordPath[key])).ok
    PROVE  LET t == replace(s, records, key, data, get(s, RecordPath[key])).store
           IN  /\ StoreOk(t)
               /\ RecordsIn(t) = [RecordsIn(s) EXCEPT ![key] = data]
               /\ ItemIn(t) = ItemIn(s) /\ AccountsIn(t) = AccountsIn(s)
               /\ data # None =>
                    \A k \in Records \ {key} : RecordsIn(s)[k] # None =>
                      UniqueKey[RecordsIn(s)[k]] # UniqueKey[data]
<1> DEFINE pk == joined_key(key)
           r == RecordsIn(s)
           old == r[key]
           path == RecordPath[key]
           out == WithoutOld(s, records, pk, old)
           with == WithNew(out, records, pk, data)
           w == replace(s, records, key, data, old)
           t == w.store
           q == [r EXCEPT ![key] = None]
<1>1. old = get(s, RecordPath[key]) /\ Path(RecordsNamespace, key) = path
  BY DEF RecordsIn, RecordPath
<1>2. r \in Holdings
  BY DEF Holdings, RecordsIn, StoreOk
<1>3. w = CASE data = None -> Ok(remove(out, path))
            [] data # None /\ with.ok -> Ok(save(with.store, path, data))
            [] OTHER -> with
  BY <1>1 DEF replace, records
<1>4. w.ok
  BY <1>1
<1>5. SUFFICES /\ StoreOk(t)
               /\ RecordsIn(t) = [r EXCEPT ![key] = data]
               /\ ItemIn(t) = ItemIn(s) /\ AccountsIn(t) = AccountsIn(s)
               /\ data # None =>
                    \A k \in Records \ {key} : r[k] # None => UniqueKey[r[k]] # UniqueKey[data]
  BY <1>1
<1>6. Storage(s) /\ IndexesMatch(s, r)
  BY DEF StoreOk
<1> HIDE DEF r
<1>7. OnlyIndexesDiffer(s, out) /\ IndexesMatch(out, q)
  BY <1>2, <1>6, OldLeaves DEF OnlyIndexesDiffer
<1>8. q \in Holdings /\ q[key] = None /\ \A k \in Records : k # key => q[k] = r[k]
  BY <1>2 DEF Holdings
<1>9. IsPath(path)
  BY DEF IsPath
<1> HIDE DEF w, t, out, with, q, old, path, pk
\* Whatever the indexes hold, writing the record keeps them.
<1>10. ASSUME NEW u, OnlyIndexesDiffer(s, u), NEW new \in Values \cup {None},
              IndexesMatch(u, [r EXCEPT ![key] = new]), Differs(u, t, path, new)
       PROVE  /\ StoreOk(t) /\ RecordsIn(t) = [r EXCEPT ![key] = new]
              /\ ItemIn(t) = ItemIn(s) /\ AccountsIn(t) = AccountsIn(s)
  <2> DEFINE n == [r EXCEPT ![key] = new]
  <2>0. n \in Holdings /\ n[key] = new /\ \A k \in Records : k # key => n[k] = r[k]
    BY <1>2 DEF Holdings
  <2> HIDE DEF n
  <2>1. \A x : get(t, x) = IF x = path THEN new ELSE get(u, x)
    BY <1>10 DEF Differs
  <2>2. \A k \in Records : get(t, RecordPath[k]) = n[k]
    <3>1. SUFFICES ASSUME NEW k \in Records PROVE get(t, RecordPath[k]) = n[k]
      OBVIOUS
    <3>2. CASE k = key
      BY <2>0, <2>1, <3>2 DEF path
    <3>3. CASE k # key
      <4>1. RecordPath[k] # path
        BY <3>3, PathsApart DEF path
      <4>2. get(u, RecordPath[k]) = r[k]
        BY <1>10 DEF OnlyIndexesDiffer, r, RecordsIn
      <4>3. QED
        BY <2>0, <2>1, <3>3, <4>1, <4>2
    <3>4. QED
      BY <3>2, <3>3
  <2>3. RecordsIn(t) = n
    <3>1. RecordsIn(t) = [k \in Records |-> n[k]]
      BY <2>2 DEF RecordsIn
    <3>2. QED
      BY <2>0, <3>1 DEF Holdings
  <2>4. get(t, ItemName) = get(s, ItemName)
        /\ \A a \in Accounts : get(t, AccountPath[a]) = get(s, AccountPath[a])
    BY <1>10, <2>1, PathsApart DEF OnlyIndexesDiffer, path
  <2>5. ItemIn(t) = ItemIn(s) /\ AccountsIn(t) = AccountsIn(s)
    BY <2>4 DEF ItemIn, AccountsIn, ItemPath
  <2>6. \A k \in Records, v \in Values : get(t, MPath(k, v)) = get(u, MPath(k, v))
    BY <2>1, PathsApart DEF path
  <2>7. \A v \in Values : get(t, UPath(v)) = get(u, UPath(v))
    BY <2>1, PathsApart DEF path
  <2>8. \A k \in Records : n[k] # None => n[k] \in Values
    BY <2>0 DEF Holdings
  <2>9. IndexesMatch(u, n)
    BY <1>10 DEF n
  <2>10. IndexesMatch(t, n)
    BY <2>6, <2>7, <2>8, <2>9 DEF IndexesMatch
  <2>11. Storage(t) /\ \A x \in DOMAIN t : IsPath(x)
    BY <1>9, <1>10 DEF Differs, OnlyIndexesDiffer, StoreOk
  <2>12. StoreOk(t)
    <3>1. /\ get(t, ItemName) \in {Stored, None}
          /\ \A a \in Accounts : get(t, AccountPath[a]) \in {Stored, None}
      BY <2>4 DEF StoreOk
    <3>2. \A k \in Records : get(t, RecordPath[k]) \in Values \cup {None}
      BY <2>0, <2>2 DEF Holdings
    <3>3. QED
      BY <2>3, <2>10, <2>11, <3>1, <3>2 DEF StoreOk
  <2>13. QED
    BY <2>3, <2>5, <2>12 DEF n
<1>11. CASE data = None
  <2>1. t = remove(out, path)
    BY <1>3, <1>11 DEF t, Ok
  <2>2. Differs(out, t, path, None)
    BY <1>7, <2>1, RemoveReads DEF OnlyIndexesDiffer
  <2>3. QED
    BY <1>7, <1>10, <1>11, <2>2 DEF q
<1>12. CASE data # None
  <2>1. data \in Values
    BY <1>12
  <2>2. with.ok
    BY <1>3, <1>4, <1>12
  <2>3. t = save(with.store, path, data)
    BY <1>3, <1>12, <2>2 DEF t, Ok
  <2>4. Storage(out)
    BY <1>7 DEF OnlyIndexesDiffer
  <2>5. /\ OnlyIndexesDiffer(out, with.store)
        /\ IndexesMatch(with.store, [q EXCEPT ![key] = data])
        /\ \A k \in Records : q[k] # None => UniqueKey[q[k]] # UniqueKey[data]
    BY <1>7, <1>8, <2>1, <2>2, <2>4, NewEnters DEF with, pk
  <2>6. [q EXCEPT ![key] = data] = [r EXCEPT ![key] = data]
    BY <1>2 DEF q, Holdings
  <2>7. OnlyIndexesDiffer(s, with.store)
    BY <1>7, <2>5 DEF OnlyIndexesDiffer
  <2>8. Differs(with.store, t, path, data)
    BY <1>12, <2>3, <2>7, SetReads DEF OnlyIndexesDiffer, save
  <2>9. /\ StoreOk(t) /\ RecordsIn(t) = [r EXCEPT ![key] = data]
        /\ ItemIn(t) = ItemIn(s) /\ AccountsIn(t) = AccountsIn(s)
    BY <1>10, <2>1, <2>5, <2>6, <2>7, <2>8
  <2>10. \A k \in Records \ {key} : r[k] # None => UniqueKey[r[k]] # UniqueKey[data]
    BY <1>8, <2>5
  <2>11. QED
    BY <2>9, <2>10
<1>13. QED
  BY <1>11, <1>12

-----------------------------------------------------------------------------
(* The writers keep the storage as it must be, and write what they say.    *)
\* One value of one collection changes, as KeyedRecords allows.
Writes(s, t) ==
    \/ /\ \E v \in {Stored, None} : ItemIn(t) = [ItemIn(s) EXCEPT ![ItemName] = v]
       /\ AccountsIn(t) = AccountsIn(s) /\ RecordsIn(t) = RecordsIn(s)
    \/ /\ \E a \in Accounts, v \in {Stored, None} :
            AccountsIn(t) = [AccountsIn(s) EXCEPT ![a] = v]
       /\ ItemIn(t) = ItemIn(s) /\ RecordsIn(t) = RecordsIn(s)
    \/ /\ \E key \in Records, data \in Values \cup {None} :
            /\ RecordsIn(t) = [RecordsIn(s) EXCEPT ![key] = data]
            /\ data # None =>
                 \A k \in Records \ {key} : RecordsIn(s)[k] # None =>
                   UniqueKey[RecordsIn(s)[k]] # UniqueKey[data]
       /\ ItemIn(t) = ItemIn(s) /\ AccountsIn(t) = AccountsIn(s)
    \/ t = s

LEMMA ItemWrite ==
    ASSUME NEW s, StoreOk(s), NEW t, NEW v \in {Stored, None}, Differs(s, t, ItemName, v)
    PROVE  StoreOk(t) /\ Writes(s, t)
<1>1. StoreOk(t) /\ RecordsIn(t) = RecordsIn(s)
  <2> DEFINE path == ItemName
  <2>1. path = ItemName /\ Differs(s, t, path, v)
    OBVIOUS
  <2> HIDE DEF path
  <2>2. QED
    BY <2>1, PlainWrite
<1>2. \A x : get(t, x) = IF x = ItemName THEN v ELSE get(s, x)
  BY DEF Differs
<1>3. AccountsIn(t) = AccountsIn(s)
  BY <1>2, PathsApart DEF AccountsIn
<1>4. ItemIn(t) = [ItemIn(s) EXCEPT ![ItemName] = v]
  BY <1>2 DEF ItemIn, ItemPath
<1>5. QED
  BY <1>1, <1>3, <1>4 DEF Writes

LEMMA AccountWrite ==
    ASSUME NEW s, StoreOk(s), NEW t, NEW a \in Accounts, NEW v \in {Stored, None},
           Differs(s, t, AccountPath[a], v)
    PROVE  StoreOk(t) /\ Writes(s, t)
<1>1. StoreOk(t) /\ RecordsIn(t) = RecordsIn(s)
  <2> DEFINE path == AccountPath[a]
  <2>1. (\E b \in Accounts : path = AccountPath[b]) /\ Differs(s, t, path, v)
    OBVIOUS
  <2> HIDE DEF path
  <2>2. QED
    BY <2>1, PlainWrite
<1>2. \A x : get(t, x) = IF x = AccountPath[a] THEN v ELSE get(s, x)
  BY DEF Differs
<1>3. ItemIn(t) = ItemIn(s)
  BY <1>2, PathsApart DEF ItemIn, ItemPath
<1>4. AccountsIn(t) = [AccountsIn(s) EXCEPT ![a] = v]
  <2>1. \A b \in Accounts : get(t, AccountPath[b]) = IF b = a THEN v ELSE get(s, AccountPath[b])
    BY <1>2, PathsApart
  <2>2. QED
    BY <2>1 DEF AccountsIn
<1>5. QED
  BY <1>1, <1>3, <1>4 DEF Writes

LEMMA RecordWrite ==
    ASSUME NEW s, StoreOk(s), NEW t, NEW key \in Records, NEW data \in Values \cup {None},
           LET w == replace(s, records, key, data, get(s, RecordPath[key]))
           IN  t = IF w.ok THEN w.store ELSE s
    PROVE  StoreOk(t) /\ Writes(s, t)
<1> DEFINE w == replace(s, records, key, data, get(s, RecordPath[key]))
<1>1. CASE w.ok
  <2>1. t = w.store
    BY <1>1
  <2>2. /\ StoreOk(w.store)
        /\ RecordsIn(w.store) = [RecordsIn(s) EXCEPT ![key] = data]
        /\ ItemIn(w.store) = ItemIn(s) /\ AccountsIn(w.store) = AccountsIn(s)
        /\ data # None =>
             \A k \in Records \ {key} : RecordsIn(s)[k] # None =>
               UniqueKey[RecordsIn(s)[k]] # UniqueKey[data]
    BY <1>1, Replaced
  <2> HIDE DEF w
  <2>3. QED
    BY <2>1, <2>2 DEF Writes
<1>2. CASE ~w.ok
  <2>1. t = s
    BY <1>2
  <2>2. QED
    BY <2>1 DEF Writes
<1>3. QED
  BY <1>1, <1>2

\* What a writer does to the storage.
LEMMA WriterWrites ==
    ASSUME StoreOk(store), Writers
    PROVE  StoreOk(store') /\ Writes(store, store')
<1>0. Storage(store) /\ get(store, ItemName) \in {Stored, None}
      /\ \A a \in Accounts : get(store, AccountPath[a]) \in {Stored, None}
  BY DEF StoreOk
<1>a. Stored # None /\ None \notin Values /\ NotFound # Stored /\ Failed # Stored /\ Failed \notin Values
  BY NoneApart, CollectionsAssumption
<1>b. store' = store => StoreOk(store') /\ Writes(store, store')
  BY DEF Writes
<1>c. ASSUME NEW v \in {Stored, None}, Differs(store, store', ItemName, v)
      PROVE  StoreOk(store') /\ Writes(store, store')
  BY <1>c, ItemWrite
<1>d. ASSUME NEW a \in Accounts, NEW v \in {Stored, None},
             Differs(store, store', AccountPath[a], v)
      PROVE  StoreOk(store') /\ Writes(store, store')
  BY <1>d, AccountWrite
<1>1. CASE ItemSave
  <2>1. store' = set(store, ItemName, Stored)
    BY <1>1 DEF ItemSave, Write, save, ItemPath
  <2>2. Differs(store, store', ItemName, Stored)
    BY <1>0, <1>a, <2>1, SetReads
  <2>3. QED
    BY <1>c, <2>2
<1>2. CASE ItemRemove
  <2>1. store' = remove(store, ItemName)
    BY <1>2 DEF ItemRemove, Write, ItemPath
  <2>2. Differs(store, store', ItemName, None)
    BY <1>0, <2>1, RemoveReads
  <2>3. QED
    BY <1>c, <2>2
<1>3. ASSUME NEW output \in {Stored, Failed}, ItemUpdate(output)
      PROVE  StoreOk(store') /\ Writes(store, store')
  <2>1. store' = IF load(store, ItemName) = NotFound \/ output = Failed THEN store
                 ELSE set(store, ItemName, output)
    BY <1>3 DEF ItemUpdate, Write, item_update, save, ItemPath
  <2>2. CASE store' = store
    BY <1>b, <2>2
  <2>3. CASE store' = set(store, ItemName, Stored)
    <3>1. Differs(store, store', ItemName, Stored)
      BY <1>0, <1>a, <2>3, SetReads
    <3>2. QED
      BY <1>c, <3>1
  <2>4. QED
    BY <2>1, <2>2, <2>3
<1>4. ASSUME NEW account \in Accounts, MapSave(account)
      PROVE  StoreOk(store') /\ Writes(store, store')
  <2>1. store' = set(store, AccountPath[account], Stored)
    BY <1>4 DEF MapSave, Write, save
  <2>2. Differs(store, store', AccountPath[account], Stored)
    BY <1>0, <1>a, <2>1, SetReads
  <2>3. QED
    BY <1>d, <2>2
<1>5. ASSUME NEW account \in Accounts, MapRemove(account)
      PROVE  StoreOk(store') /\ Writes(store, store')
  <2>1. store' = remove(store, AccountPath[account])
    BY <1>5 DEF MapRemove, Write
  <2>2. Differs(store, store', AccountPath[account], None)
    BY <1>0, <2>1, RemoveReads
  <2>3. QED
    BY <1>d, <2>2
<1>6. ASSUME NEW account \in Accounts, NEW output \in {Stored, Failed}, MapUpdate(account, output)
      PROVE  StoreOk(store') /\ Writes(store, store')
  <2>1. store' = IF output = Failed THEN store ELSE set(store, AccountPath[account], output)
    BY <1>6 DEF MapUpdate, Write, update, save
  <2>2. CASE store' = store
    BY <1>b, <2>2
  <2>3. CASE store' = set(store, AccountPath[account], Stored)
    <3>1. Differs(store, store', AccountPath[account], Stored)
      BY <1>0, <1>a, <2>3, SetReads
    <3>2. QED
      BY <1>d, <3>1
  <2>4. QED
    BY <2>1, <2>2, <2>3
<1> DEFINE w(key, data) == replace(store, records, key, data, get(store, RecordPath[key]))
<1>e. ASSUME NEW key \in Records, NEW data \in Values \cup {None},
             store' = IF w(key, data).ok THEN w(key, data).store ELSE store
      PROVE  StoreOk(store') /\ Writes(store, store')
  BY <1>e, RecordWrite
<1>f. \A key \in Records : indexed_may_load(store, records, key) = get(store, RecordPath[key])
  BY DEF indexed_may_load, may_load, records, RecordPath
<1>7. ASSUME NEW key \in Records, NEW data \in Values, IndexedSave(key, data)
      PROVE  StoreOk(store') /\ Writes(store, store')
  <2>1. indexed_save(store, records, key, data) = w(key, data)
    BY <1>f DEF indexed_save
  <2> HIDE DEF w
  <2>2. store' = IF w(key, data).ok THEN w(key, data).store ELSE store
    BY <1>7, <2>1 DEF IndexedSave, Handled, Write
  <2>3. QED
    BY <1>e, <2>2
<1>8. ASSUME NEW key \in Records, IndexedRemove(key)
      PROVE  StoreOk(store') /\ Writes(store, store')
  <2>1. indexed_remove(store, records, key) = w(key, None)
    BY <1>f DEF indexed_remove
  <2> HIDE DEF w
  <2>2. store' = IF w(key, None).ok THEN w(key, None).store ELSE store
    BY <1>8, <2>1 DEF IndexedRemove, Handled, Write
  <2>3. QED
    BY <1>e, <2>2
<1>9. ASSUME NEW key \in Records, NEW output \in Values \cup {Failed}, IndexedUpdate(key, output)
      PROVE  StoreOk(store') /\ Writes(store, store')
  <2>1. CASE output = Failed
    <3> DEFINE result == indexed_update(store, records, key, LAMBDA v : output)
    <3>1. result = Err(store)
      BY <2>1 DEF indexed_update
    <3>2. Handled(result)
      BY <1>9 DEF IndexedUpdate
    <3>3. ~result.ok
      BY <3>1 DEF Err
    <3> HIDE DEF result
    <3>4. store' = store
      BY <3>2, <3>3 DEF Handled, Write
    <3>5. QED
      BY <1>b, <3>4
  <2>2. CASE output \in Values
    <3> DEFINE result == indexed_update(store, records, key, LAMBDA v : output)
    <3>0. output # Failed
      BY <1>a, <2>2
    <3>1. result = w(key, output)
      BY <1>f, <3>0 DEF indexed_update
    <3>2. Handled(result)
      BY <1>9 DEF IndexedUpdate
    <3> HIDE DEF result, w
    <3>3. store' = IF w(key, output).ok THEN w(key, output).store ELSE store
      BY <3>1, <3>2 DEF Handled, Write
    <3>4. QED
      BY <1>e, <2>2, <3>3
  <2>3. QED
    BY <2>1, <2>2
<1>10. QED
  BY <1>1, <1>2, <1>3, <1>4, <1>5, <1>6, <1>7, <1>8, <1>9 DEF Writers

LEMMA EmptyStoreOk == StoreOk(<<>>)
<1> DEFINE s == <<>>
<1>1. DOMAIN s = {} /\ s = [x \in DOMAIN s |-> s[x]]
  OBVIOUS
<1> HIDE DEF s
<1>2. Storage(s)
  BY <1>1, FS_EmptySet DEF Storage
<1>3. \A x : get(s, x) = None
  BY <1>1 DEF get
<1>4. \A k \in Records : RecordsIn(s)[k] = None
  BY <1>3 DEF RecordsIn
<1>5. IndexesMatch(s, RecordsIn(s))
  BY <1>3, <1>4 DEF IndexesMatch
<1>6. StoreOk(s)
  BY <1>1, <1>2, <1>3, <1>5 DEF StoreOk
<1>7. QED
  BY <1>6 DEF s

StoreInv == StoreOk(store)

\* The storage is at any time what the collections make of it: each path is that of
\* one key, each record is in both indexes with its current value, and nothing else is.
THEOREM StoreIsConsistent == Spec => []StoreInv
<1>1. Init => StoreInv
  BY EmptyStoreOk DEF Init, StoreInv
<1>2. StoreInv /\ [Next]_vars => StoreInv'
  <2> SUFFICES ASSUME StoreInv, [Next]_vars PROVE StoreOk(store')
    BY DEF StoreInv
  <2>1. CASE Writers
    BY <2>1, WriterWrites DEF StoreInv
  <2>2. CASE Client
    <3>1. store' = store
      BY <2>2 DEF Client, Begin, NextPage, EmptyPage
    <3>2. QED
      BY <3>1 DEF StoreInv
  <2>3. CASE UNCHANGED vars
    BY <2>3 DEF StoreInv, vars
  <2>4. QED
    BY <2>1, <2>2, <2>3 DEF Next
<1>3. QED
  BY <1>1, <1>2, PTL DEF Spec

-----------------------------------------------------------------------------
(* The collections are keyed records.                                      *)
Names == {"item", "accounts", "records"}

KeysOf == [item |-> {ItemName}, accounts |-> Accounts, records |-> Records]

ValuesOf == [item |-> {Stored}, accounts |-> {Stored}, records |-> Values]

Conflicts == [item |-> {}, accounts |-> {},
              records |-> {p \in Values \X Values : UniqueKey[p[1]] = UniqueKey[p[2]]}]

ContentOf(s) == [item |-> ItemIn(s), accounts |-> AccountsIn(s), records |-> RecordsIn(s)]

LEMMA ContentIs == Content = ContentOf(store)
  BY DEF Content, ContentOf, ItemIn, AccountsIn, RecordsIn, record_at, may_load

LEMMA ContentInit == ASSUME Init PROVE KR!Init
<1>1. store = <<>>
  BY DEF Init
<1>2. \A x : get(store, x) = None
  BY <1>1 DEF get
<1>3. /\ ItemIn(store) = [k \in {ItemName} |-> None]
      /\ AccountsIn(store) = [k \in Accounts |-> None]
      /\ RecordsIn(store) = [k \in Records |-> None]
  BY <1>2 DEF ItemIn, AccountsIn, RecordsIn
<1>4. ContentOf(store) = [c \in Names |-> [k \in KeysOf[c] |-> None]]
  <2>1. [c \in Names |-> [k \in KeysOf[c] |-> None]]
          = [item |-> [k \in {ItemName} |-> None], accounts |-> [k \in Accounts |-> None],
             records |-> [k \in Records |-> None]]
    BY DEF Names, KeysOf
  <2>2. QED
    BY <1>3, <2>1 DEF ContentOf
<1>5. QED
  BY <1>4, ContentIs DEF KR!Init, Names, KeysOf

\* A step of the abstract specification, its names expanded.
Puts(c, d, name, k) ==
    /\ d[name][k] \in ValuesOf[name]
    /\ ~\E other \in KeysOf[name] \ {k} :
          /\ c[name][other] # None
          /\ <<c[name][other], d[name][k]>> \in Conflicts[name]
    /\ d = [c EXCEPT ![name] = [@ EXCEPT ![k] = d[name][k]]]

Deletes(c, d, name, k) == d = [c EXCEPT ![name] = [@ EXCEPT ![k] = None]]

LEMMA AbstractStep ==
    ASSUME NEW name \in Names, NEW k \in KeysOf[name],
           Puts(Content, Content', name, k) \/ Deletes(Content, Content', name, k)
    PROVE  KR!Next
<1>1. KR!Put(name, k) \/ KR!Delete(name, k)
  BY DEF KR!Put, KR!Delete, KR!Taken, KR!Assign, Puts, Deletes, ValuesOf, KeysOf, Conflicts
<1>2. name \in {"item", "accounts", "records"}
      /\ k \in [item |-> {ItemName}, accounts |-> Accounts, records |-> Records][name]
  BY DEF Names, KeysOf
<1>3. QED
  BY <1>1, <1>2 DEF KR!Next

LEMMA ContentStep ==
    ASSUME NEW s, NEW t, StoreOk(s), StoreOk(t), Writes(s, t)
    PROVE  \/ ContentOf(t) = ContentOf(s)
           \/ \E name \in Names : \E k \in KeysOf[name] :
                \/ Puts(ContentOf(s), ContentOf(t), name, k)
                \/ Deletes(ContentOf(s), ContentOf(t), name, k)
<1> DEFINE c == ContentOf(s)
           d == ContentOf(t)
<1>1. /\ DOMAIN c = Names /\ c["item"] = ItemIn(s) /\ c["accounts"] = AccountsIn(s)
      /\ c["records"] = RecordsIn(s)
      /\ d["item"] = ItemIn(t) /\ d["accounts"] = AccountsIn(t) /\ d["records"] = RecordsIn(t)
      /\ "item" \in Names /\ "accounts" \in Names /\ "records" \in Names
  BY DEF ContentOf, Names
<1>2. c = [item |-> ItemIn(s), accounts |-> AccountsIn(s), records |-> RecordsIn(s)]
      /\ d = [item |-> ItemIn(t), accounts |-> AccountsIn(t), records |-> RecordsIn(t)]
  BY DEF ContentOf
<1>3. /\ KeysOf["item"] = {ItemName} /\ KeysOf["accounts"] = Accounts /\ KeysOf["records"] = Records
      /\ ValuesOf["item"] = {Stored} /\ ValuesOf["accounts"] = {Stored} /\ ValuesOf["records"] = Values
      /\ Conflicts["item"] = {} /\ Conflicts["accounts"] = {}
      /\ Conflicts["records"] = {p \in Values \X Values : UniqueKey[p[1]] = UniqueKey[p[2]]}
  BY DEF KeysOf, ValuesOf, Conflicts
<1> HIDE DEF c, d
<1>4. ASSUME NEW v \in {Stored, None}, ItemIn(t) = [ItemIn(s) EXCEPT ![ItemName] = v],
             AccountsIn(t) = AccountsIn(s), RecordsIn(t) = RecordsIn(s)
      PROVE  Puts(c, d, "item", ItemName) \/ Deletes(c, d, "item", ItemName)
  <2>1. d = [c EXCEPT !["item"] = [@ EXCEPT ![ItemName] = v]]
    BY <1>2, <1>4
  <2>2. d["item"][ItemName] = v
    BY <1>1, <1>4 DEF ItemIn
  <2>3. CASE v = None
    BY <2>1, <2>3 DEF Deletes
  <2>4. CASE v = Stored
    BY <1>3, <2>1, <2>2, <2>4 DEF Puts
  <2>5. QED
    BY <2>3, <2>4
<1>5. ASSUME NEW a \in Accounts, NEW v \in {Stored, None},
             AccountsIn(t) = [AccountsIn(s) EXCEPT ![a] = v],
             ItemIn(t) = ItemIn(s), RecordsIn(t) = RecordsIn(s)
      PROVE  Puts(c, d, "accounts", a) \/ Deletes(c, d, "accounts", a)
  <2>1. d = [c EXCEPT !["accounts"] = [@ EXCEPT ![a] = v]]
    BY <1>2, <1>5
  <2>2. d["accounts"][a] = v
    BY <1>1, <1>5 DEF AccountsIn
  <2>3. CASE v = None
    BY <2>1, <2>3 DEF Deletes
  <2>4. CASE v = Stored
    BY <1>3, <2>1, <2>2, <2>4 DEF Puts
  <2>5. QED
    BY <2>3, <2>4
<1>6. ASSUME NEW key \in Records, NEW data \in Values \cup {None},
             RecordsIn(t) = [RecordsIn(s) EXCEPT ![key] = data],
             data # None => \A k \in Records \ {key} : RecordsIn(s)[k] # None =>
                              UniqueKey[RecordsIn(s)[k]] # UniqueKey[data],
             ItemIn(t) = ItemIn(s), AccountsIn(t) = AccountsIn(s)
      PROVE  Puts(c, d, "records", key) \/ Deletes(c, d, "records", key)
  <2>1. d = [c EXCEPT !["records"] = [@ EXCEPT ![key] = data]]
    BY <1>2, <1>6
  <2>2. d["records"][key] = data
    BY <1>1, <1>6 DEF RecordsIn
  <2>3. CASE data = None
    BY <2>1, <2>3 DEF Deletes
  <2>4. CASE data # None
    <3>1. data \in Values
      BY <2>4
    <3>2. ASSUME NEW other \in Records \ {key}, RecordsIn(s)[other] # None
          PROVE  <<RecordsIn(s)[other], data>> \notin Conflicts["records"]
      BY <1>3, <1>6, <2>4, <3>2
    <3>3. QED
      BY <1>1, <1>3, <2>1, <2>2, <3>1, <3>2 DEF Puts
  <2>5. QED
    BY <2>3, <2>4
<1>7. t = s => d = c
  BY <1>2
<1>8. CASE t = s
  BY <1>7, <1>8 DEF c, d
<1>9. CASE t # s
  <2>1. \E name \in Names : \E k \in KeysOf[name] : Puts(c, d, name, k) \/ Deletes(c, d, name, k)
    BY <1>1, <1>3, <1>4, <1>5, <1>6, <1>9 DEF Writes
  <2>2. QED
    BY <2>1 DEF c, d
<1>10. QED
  BY <1>8, <1>9

LEMMA ImplementsStep ==
    ASSUME StoreInv, StoreInv', [Next]_vars
    PROVE  [KR!Next]_Content
<1>1. CASE store' = store
  <2>1. Content' = Content
    BY <1>1 DEF Content, record_at, may_load, get
  <2>2. QED
    BY <2>1
<1>2. CASE Writers
  <2>1. Writes(store, store') /\ StoreOk(store) /\ StoreOk(store')
    BY <1>2, WriterWrites DEF StoreInv
  <2>2. Content = ContentOf(store) /\ Content' = ContentOf(store')
    <3>1. Content' = ContentOf(store')
      BY DEF Content, ContentOf, ItemIn, AccountsIn, RecordsIn, record_at, may_load
    <3>2. QED
      BY <3>1, ContentIs
  <2>3. \/ Content' = Content
        \/ \E name \in Names : \E k \in KeysOf[name] :
             Puts(Content, Content', name, k) \/ Deletes(Content, Content', name, k)
    BY <2>1, <2>2, ContentStep
  <2>4. QED
    BY <2>3, AbstractStep
<1>3. CASE Client
  <2>1. store' = store
    BY <1>3 DEF Client, Begin, NextPage, EmptyPage
  <2>2. QED
    BY <1>1, <2>1
<1>4. CASE UNCHANGED vars
  BY <1>1, <1>4 DEF vars
<1>5. QED
  BY <1>2, <1>3, <1>4 DEF Next

\* The item, the accounts and the records are written and read as if each were a
\* function of its own from keys to values, one value at a time, though they share a
\* storage of byte strings with the indexes; and a unique index lets no two records
\* have the same index key.
THEOREM CollectionsImplementKeyedRecords == Spec => ImplementsKeyedRecords
<1>1. Init => KR!Init
  BY ContentInit
<1>2. StoreInv /\ StoreInv' /\ [Next]_vars => [KR!Next]_Content
  BY ImplementsStep
<1>3. Spec => []StoreInv
  BY StoreIsConsistent
<1>4. QED
  BY <1>1, <1>2, <1>3, PTL DEF Spec, ImplementsKeyedRecords, KR!Spec

\* The keys of a storage are byte strings.
LEMMA StorageBytes ==
    ASSUME NEW s, StoreOk(s)
    PROVE  \A x \in DOMAIN s : x \in Bytes
<1>1. /\ AccountsNamespace \in Short /\ RecordsNamespace \in Short
      /\ MultiNamespace \in Short /\ UniqueNamespace \in Short
  BY NamespaceFacts
<1>2. \A n \in Short, x \in Bytes : length_prefixed_with_key(n, x) \in Bytes
  BY PrefixedOrder
<1>3. ItemName \in Bytes
  BY CollectionsAssumption DEF Bytes
<1>4. \A a \in Accounts : AccountPath[a] \in Bytes
  BY <1>1, <1>2, PathsAre
<1>5. \A k \in Records : RecordPath[k] \in Bytes
  BY <1>1, <1>2, PathsAre
<1>6. \A k \in Records, v \in Values : MPath(k, v) \in Bytes
  BY <1>1, <1>2, PathsAre
<1>7. \A v \in Values : UPath(v) \in Bytes
  BY <1>1, <1>2, PathsAre
<1>8. \A x \in DOMAIN s : IsPath(x)
  BY DEF StoreOk
<1>9. QED
  BY <1>3, <1>4, <1>5, <1>6, <1>7, <1>8 DEF IsPath

\* What begins with a name is a key of the collection of that name.
LEMMA OfNamespace ==
    ASSUME NEW s, StoreOk(s), NEW x \in DOMAIN s, NEW ns \in Namespaces, NEW r \in Bytes,
           x = length_prefixed_with_key(ns, r)
    PROVE  /\ ns = AccountsNamespace =>
                \E a \in Accounts : x = AccountPath[a] /\ r = joined_key(a)
           /\ ns = RecordsNamespace =>
                \E k \in Records : x = RecordPath[k] /\ r = joined_key(k)
           /\ ns = MultiNamespace =>
                \E k \in Records, v \in Values :
                  x = MPath(k, v) /\ r = joined_key(MultiKey[v] \o k)
           /\ ns = UniqueNamespace =>
                \E v \in Values : x = UPath(v) /\ r = joined_key(UniqueKey[v])
<1>1. IsPath(x)
  BY DEF StoreOk
<1>2. x # ItemName
  BY ItemApart
<1>3. \A n \in Namespaces, y \in Bytes :
        x = length_prefixed_with_key(n, y) => n = ns /\ y = r
  <2>1. \A n \in Namespaces : n \in Short
    BY NamespaceFacts
  <2>2. ASSUME NEW n \in Namespaces, NEW y \in Bytes, x = length_prefixed_with_key(n, y)
        PROVE  n = ns /\ y = r
    <3>1. n \in Short /\ ns \in Short /\ length_prefixed_with_key(n, y) = length_prefixed_with_key(ns, r)
      BY <2>1, <2>2
    <3>2. QED
      BY <3>1, PrefixedOrder
  <2>3. QED
    BY <2>2
<1>4. /\ AccountsNamespace \in Namespaces /\ RecordsNamespace \in Namespaces
      /\ MultiNamespace \in Namespaces /\ UniqueNamespace \in Namespaces
      /\ RecordsNamespace # AccountsNamespace /\ RecordsNamespace # MultiNamespace
      /\ RecordsNamespace # UniqueNamespace /\ AccountsNamespace # MultiNamespace
      /\ AccountsNamespace # UniqueNamespace /\ MultiNamespace # UniqueNamespace
  BY NamespaceFacts
<1>5. CASE \E a \in Accounts : x = AccountPath[a]
  <2>1. PICK a \in Accounts : x = AccountPath[a]
    BY <1>5
  <2>2. AccountsNamespace = ns /\ joined_key(a) = r
    BY <1>3, <1>4, <2>1, PathsAre
  <2>3. QED
    BY <1>4, <2>1, <2>2
<1>6. CASE \E k \in Records : x = RecordPath[k]
  <2>1. PICK k \in Records : x = RecordPath[k]
    BY <1>6
  <2>2. RecordsNamespace = ns /\ joined_key(k) = r
    BY <1>3, <1>4, <2>1, PathsAre
  <2>3. QED
    BY <1>4, <2>1, <2>2
<1>7. CASE \E k \in Records, v \in Values : x = MPath(k, v)
  <2>1. PICK k \in Records, v \in Values : x = MPath(k, v)
    BY <1>7
  <2>2. MultiNamespace = ns /\ joined_key(MultiKey[v] \o k) = r
    BY <1>3, <1>4, <2>1, PathsAre
  <2>3. QED
    BY <1>4, <2>1, <2>2
<1>8. CASE \E v \in Values : x = UPath(v)
  <2>1. PICK v \in Values : x = UPath(v)
    BY <1>8
  <2>2. UniqueNamespace = ns /\ joined_key(UniqueKey[v]) = r
    BY <1>3, <1>4, <2>1, PathsAre
  <2>3. QED
    BY <1>4, <2>1, <2>2
<1>9. QED
  BY <1>1, <1>2, <1>5, <1>6, <1>7, <1>8 DEF IsPath

LEMMA NamePrefix ==
    ASSUME NEW s, StoreOk(s), NEW ns \in Namespaces
    PROVE  GoodPrefix(s, Prefix(ns, <<>>)) /\ Prefix(ns, <<>>) = to_length_prefixed(ns)
<1>1. ns \in Text
  BY NamespaceFacts DEF Text
<1>2. \A x \in DOMAIN s : x \in Bytes
  BY StorageBytes
<1>3. QED
  BY <1>1, <1>2, TextPrefix

LEMMA SubPrefix ==
    ASSUME NEW s, StoreOk(s), NEW ns \in Namespaces, NEW sub \in Seq(Short), sub # <<>>,
           NEW m \in Nat, m >= 1,
           \A x \in DOMAIN s, r \in Bytes : x = length_prefixed_with_key(ns, r) =>
             \E key \in KeysOfParts(Len(sub) + m) : r = joined_key(key)
    PROVE  GoodPrefix(s, Prefix(ns, sub))
<1>1. ns \in Short
  BY NamespaceFacts
<1>2. \A x \in DOMAIN s : x \in Bytes
  BY StorageBytes
<1>3. QED
  BY <1>1, <1>2, PartsPrefix

-----------------------------------------------------------------------------
(* Listing page by page.                                                   *)
\* The parts that records are listed below.
LEMMA FirstPartsAre ==
    ASSUME NEW p \in FirstParts
    PROVE  /\ p \in Seq(Short) /\ Len(p) = 1 /\ p # <<>>
           /\ p[1] \in Short /\ p = <<p[1]>>
<1>1. PICK k \in Records : p = Front(k)
  BY DEF FirstParts
<1>2. k \in KeysOfParts(2) /\ 2 \in Nat /\ 2 >= 1
  BY PathsAre
<1>3. Front(k) \in Seq(Short) /\ Len(Front(k)) = 2 - 1
  BY <1>2, KeyType
<1> HIDE DEF FirstParts
<1>4. p \in Seq(Short) /\ Len(p) = 1
  BY <1>1, <1>3
<1>5. p[1] \in Short /\ p # <<>>
  BY <1>4, EmptySeq
<1>6. p = <<p[1]>>
  BY <1>4
<1>7. QED
  BY <1>4, <1>5, <1>6

\* The keys below a first part are those that have it.
LEMMA FirstPartPrefix ==
    ASSUME NEW s, StoreOk(s), NEW p \in FirstParts
    PROVE  GoodPrefix(s, Prefix(RecordsNamespace, p))
<1>1. p \in Seq(Short) /\ Len(p) = 1 /\ p # <<>>
  BY FirstPartsAre
<1>2. RecordsNamespace \in Namespaces
  BY NamespaceFacts
<1>3. ASSUME NEW x \in DOMAIN s, NEW r \in Bytes,
             x = length_prefixed_with_key(RecordsNamespace, r)
      PROVE  \E key \in KeysOfParts(Len(p) + 1) : r = joined_key(key)
  <2>1. \E k \in Records : x = RecordPath[k] /\ r = joined_key(k)
    BY <1>2, <1>3, OfNamespace
  <2>2. Len(p) + 1 = 2
    BY <1>1
  <2>3. QED
    BY <2>1, <2>2, PathsAre
<1>4. 1 \in Nat /\ 1 >= 1
  OBVIOUS
<1>5. QED
  BY <1>1, <1>2, <1>3, <1>4, SubPrefix

LEMMA ListingPrefix ==
    ASSUME NEW s, StoreOk(s), NEW prefix \in Listings
    PROVE  GoodPrefix(s, prefix)
<1>1. AccountsNamespace \in Namespaces
  BY NamespaceFacts
<1>2. GoodPrefix(s, Prefix(AccountsNamespace, <<>>))
  BY <1>1, NamePrefix
<1>3. \A p \in FirstParts : GoodPrefix(s, Prefix(RecordsNamespace, p))
  BY FirstPartPrefix
<1>4. QED
  BY <1>2, <1>3 DEF Listings

\* The keys that are listed from a start on.
LEMMA KeysFound ==
    ASSUME NEW s, StoreOk(s), NEW E, GoodPrefix(s, E), NEW start, NEW lo \in Bytes,
           calc_start_bound(E, start) = E \o lo,
           NEW S, S = TailsIn(s, E, lo, <<>>), NEW l, l = Ranked(S, ByteOrder(S)),
           NEW n, n = Cardinality(S)
    PROVE  /\ S \in SUBSET Bytes /\ IsFiniteSet(S) /\ n \in Nat
           /\ keys(s, E, 1, start, None, "Ascending") = [i \in 1 .. n |-> <<l[i]>>]
<1>1. Storage(s) /\ \A x \in DOMAIN s : x \in Bytes
  BY StorageBytes DEF StoreOk
<1>2. <<>> \in Ends
  BY DEF Ends
<1>3. calc_end_bound(E, None) = EndAt(E, <<>>)
  BY DEF calc_end_bound, EndAt
<1> DEFINE F == [i \in 1 .. n |-> <<l[i], s[E \o l[i]]>>]
<1>4. /\ S \in SUBSET Bytes /\ IsFiniteSet(S) /\ n \in Nat
      /\ Trimmed(E, storage_range(s, E \o lo, EndAt(E, <<>>), "Ascending")) = F
  BY <1>1, <1>2, RangeFinds
<1>5. range_with_prefix(s, E, start, None, "Ascending") = F
  BY <1>3, <1>4 DEF range_with_prefix
<1>6. DOMAIN F = 1 .. n /\ Len(F) = n /\ \A i \in 1 .. n : F[i][1] = l[i]
  <2>1. DOMAIN F = 1 .. n /\ \A i \in 1 .. n : F[i][1] = l[i]
    OBVIOUS
  <2> HIDE DEF F
  <2>2. QED
    BY <1>4, <2>1
<1> HIDE DEF F
<1> DEFINE G == [i \in 1 .. n |-> <<<<F[i][1]>>, F[i][2]>>]
<1>7. range(s, E, 1, start, None, "Ascending") = G
  BY <1>5, <1>6 DEF range, MapEach, deserialize_kv, from_vec
<1>8. DOMAIN G = 1 .. n /\ Len(G) = n /\ \A i \in 1 .. n : Head(G[i]) = <<l[i]>>
  <2>1. DOMAIN G = 1 .. n /\ \A i \in 1 .. n : Head(G[i]) = <<F[i][1]>>
    OBVIOUS
  <2> HIDE DEF G
  <2>2. QED
    BY <1>4, <1>6, <2>1
<1> HIDE DEF G
<1>9. keys(s, E, 1, start, None, "Ascending") = [i \in 1 .. Len(G) |-> Head(G[i])]
  BY <1>7 DEF keys, MapEach
<1>10. QED
  BY <1>4, <1>8, <1>9

LEMMA PresentIs ==
    ASSUME NEW s, StoreOk(s), NEW E, GoodPrefix(s, E)
    PROVE  Present(s, E) = {<<r>> : r \in Tails(s, E)}
<1> DEFINE S == TailsIn(s, E, <<>>, <<>>)
           l == Ranked(S, ByteOrder(S))
           n == Cardinality(S)
<1>1. E \in Bytes /\ <<>> \in Bytes
  BY BytesEmpty DEF GoodPrefix
<1>2. calc_start_bound(E, None) = E \o <<>>
  BY <1>1, BytesEmpty DEF calc_start_bound
<1>3. S = Tails(s, E)
  BY EmptyFirst DEF TailsIn, Tails, UpTo
<1>a. /\ S = TailsIn(s, E, <<>>, <<>>) /\ l = Ranked(S, ByteOrder(S))
      /\ n = Cardinality(S)
  OBVIOUS
<1> HIDE DEF S, l, n
<1>4. /\ S \in SUBSET Bytes /\ IsFiniteSet(S) /\ n \in Nat
      /\ keys(s, E, 1, None, None, "Ascending") = [i \in 1 .. n |-> <<l[i]>>]
  <2> DEFINE lo == <<>>
  <2>1. lo \in Bytes /\ calc_start_bound(E, None) = E \o lo /\ S = TailsIn(s, E, lo, <<>>)
    BY <1>1, <1>2, <1>a
  <2> HIDE DEF lo
  <2>2. QED
    BY ONLY StoreOk(s), GoodPrefix(s, E), <1>a, <2>1, KeysFound
<1>5. TotalOn(S, ByteOrder(S))
  BY <1>4, ByteOrderTotal
<1>6. l \in [1 .. n -> S] /\ \A r \in S : \E i \in 1 .. n : l[i] = r
  BY <1>4, <1>5, <1>a, RankedList
<1> DEFINE K == [i \in 1 .. n |-> <<l[i]>>]
<1>7. Present(s, E) = {K[i] : i \in DOMAIN K}
  BY <1>4 DEF Present, ToSet
<1>8. {K[i] : i \in DOMAIN K} = {<<r>> : r \in S}
  <2>1. ASSUME NEW i \in 1 .. n
        PROVE  K[i] \in {<<r>> : r \in S}
    BY <1>6
  <2>2. ASSUME NEW r \in S
        PROVE  <<r>> \in {K[i] : i \in 1 .. n}
    BY <1>6
  <2>3. QED
    BY <2>1, <2>2
<1>9. QED
  BY <1>3, <1>7, <1>8

-----------------------------------------------------------------------------
(* One page.                                                               *)
LEMMA MinOfTwo ==
    ASSUME NEW a \in Nat, NEW b \in Nat
    PROVE  Min({a, b}) \in {a, b} /\ Min({a, b}) <= a /\ Min({a, b}) <= b
<1>1. \E x \in {a, b} : \A y \in {a, b} : x <= y
  OBVIOUS
<1>2. QED
  BY <1>1 DEF Min

\* A page has at least a record, if there is one.
LEMMA LimitAllows ==
    ASSUME NEW limit \in Limits \cup {None}
    PROVE  Limit(limit) \in Nat /\ Limit(limit) >= 1
<1>1. /\ DEFAULT_LIMIT \in Nat \ {0} /\ MAX_LIMIT \in Nat \ {0}
      /\ limit \in (Nat \ {0}) \cup {None}
  BY CollectionsAssumption
<1> DEFINE a == IF limit = None THEN DEFAULT_LIMIT ELSE limit
<1>2. a \in Nat \ {0}
  BY <1>1
<1> HIDE DEF a
<1>3. Min({a, MAX_LIMIT}) \in {a, MAX_LIMIT}
  BY <1>1, <1>2, MinOfTwo
<1>4. Limit(limit) = Min({a, MAX_LIMIT})
  BY DEF Limit, a
<1>5. QED
  BY <1>1, <1>2, <1>3, <1>4

\* What a client has not been given yet, when b is the last of what it was.
Later(s, E, start_after) ==
    {r \in Tails(s, E) : start_after = None \/ BytesBefore(start_after, r)}

KeysOfOne == {<<b>> : b \in Bytes}

\* A page is the beginning of that, and only empty when nothing is left.
LEMMA PageIs ==
    ASSUME StoreOk(store), GoodPrefix(store, listing), NEW start_after \in Bytes \cup {None},
           NEW limit \in Limits \cup {None},
           NEW S, S = Later(store, listing, start_after),
           NEW l, l = Ranked(S, ByteOrder(S)), NEW n, n = Cardinality(S)
    PROVE  /\ S \in SUBSET Bytes /\ IsFiniteSet(S) /\ n \in Nat
           /\ \E c \in 0 .. n : /\ query_page(start_after, limit) = [i \in 1 .. c |-> <<l[i]>>]
                                /\ c = 0 => n = 0
<1> DEFINE E == listing
           start == IF start_after = None THEN None ELSE ExclusiveRaw(start_after)
           lo == IF start_after = None THEN <<>> ELSE Append(start_after, 0)
           found == keys(store, E, 1, start, None, "Ascending")
<1>1. E \in Bytes /\ <<>> \in Bytes
  BY BytesEmpty DEF GoodPrefix
<1>2. lo \in Bytes
  <2>1. 0 \in Byte
    BY DEF Byte
  <2>2. start_after \in Bytes => Append(start_after, 0) \in Bytes
    BY <2>1 DEF Bytes
  <2>3. QED
    BY <1>1, <2>2
<1>3. calc_start_bound(E, start) = E \o lo
  <2>1. CASE start_after = None
    <3>1. start = None /\ lo = <<>>
      BY <2>1
    <3>2. calc_start_bound(E, None) = E
      BY DEF calc_start_bound
    <3>3. E \o <<>> = E
      BY <1>1, BytesEmpty
    <3>4. QED
      BY <3>1, <3>2, <3>3
  <2>2. CASE start_after # None
    <3> DEFINE bound == [kind |-> "Exclusive", limit |-> start_after]
    <3>1. start = bound /\ lo = Append(start_after, 0)
      BY <2>2 DEF ExclusiveRaw, RawBound
    <3>2. bound # None
      <4>1. bound \in [kind : {"Inclusive", "Exclusive"}, limit : Seq(Byte)]
        BY <2>2 DEF Bytes
      <4> HIDE DEF bound
      <4>2. QED
        BY <4>1, CollectionsAssumption
    <3>3. bound.kind = "Exclusive" /\ bound.limit = start_after
      OBVIOUS
    <3> HIDE DEF bound
    <3>4. calc_start_bound(E, bound) = E \o Append(start_after, 0)
      BY <3>2, <3>3 DEF calc_start_bound, concat, extend_one_byte
    <3>5. QED
      BY <3>1, <3>4
  <2>3. QED
    BY <2>1, <2>2
<1>4. S = TailsIn(store, E, lo, <<>>)
  <2>1. ASSUME NEW r \in Bytes
        PROVE  start_after = None \/ BytesBefore(start_after, r) <=> ~BytesBefore(r, lo)
    <3>1. CASE start_after = None
      BY <3>1, EmptyFirst
    <3>2. CASE start_after # None
      <4>1. start_after \in Bytes /\ lo = Append(start_after, 0)
        BY <3>2
      <4>2. BytesBefore(r, lo) <=> r = start_after \/ BytesBefore(r, start_after)
        BY <4>1, FirstExtension
      <4>3. /\ ~BytesBefore(r, r)
            /\ BytesBefore(start_after, r) \/ start_after = r \/ BytesBefore(r, start_after)
            /\ BytesBefore(start_after, r) => start_after # r /\ ~BytesBefore(r, start_after)
        BY <4>1, BytesOrder
      <4>4. QED
        BY <3>2, <4>2, <4>3
    <3>3. QED
      BY <3>1, <3>2
  <2> HIDE DEF lo
  <2>2. Tails(store, E) \subseteq Bytes
    BY DEF Tails
  <2>3. QED
    BY <2>1, <2>2 DEF Later, TailsIn, UpTo
<1> HIDE DEF lo, start
<1>5. /\ S \in SUBSET Bytes /\ IsFiniteSet(S) /\ n \in Nat
      /\ found = [i \in 1 .. n |-> <<l[i]>>]
  BY <1>2, <1>3, <1>4, KeysFound
<1> HIDE DEF found
<1>6. l \in [1 .. n -> S]
  BY <1>5, ByteOrderTotal, RankedList
<1>7. found \in Seq(KeysOfOne) /\ Len(found) = n
  BY <1>5, <1>6 DEF KeysOfOne
<1> DEFINE c == Min({Limit(limit), Len(found)})
<1>8. c \in 0 .. n /\ (c = 0 => n = 0)
  <2>1. Limit(limit) \in Nat /\ Limit(limit) >= 1
    BY LimitAllows
  <2>2. c \in {Limit(limit), Len(found)} /\ c <= Limit(limit) /\ c <= Len(found)
    BY <1>5, <1>7, <2>1, MinOfTwo
  <2> HIDE DEF c
  <2>3. QED
    BY <1>5, <1>7, <2>1, <2>2
<1>9. query_page(start_after, limit) = SubSeq(found, 1, c)
  BY DEF query_page, found, start
<1> HIDE DEF c
<1>10. SubSeq(found, 1, c) = [i \in 1 .. c |-> found[i]]
  BY <1>5, <1>7, <1>8
<1>11. [i \in 1 .. c |-> found[i]] = [i \in 1 .. c |-> <<l[i]>>]
  BY <1>5, <1>8
<1>12. QED
  BY <1>5, <1>8, <1>9, <1>10, <1>11

-----------------------------------------------------------------------------
(* What a client was given.                                                *)
GivenInOrder(l) == \A i, j \in 1 .. Len(l) : i < j => BytesBefore(l[i][1], l[j][1])

Given(k, l) == \E i \in 1 .. Len(l) : l[i] = k

\* The key is not given yet, and comes later than the keys that are.
ToBeGiven(k, l) == l = <<>> \/ BytesBefore(l[Len(l)][1], k[1])

\* The keys that were there all along are there, and behind what was given there are all
\* of them that were not given.
ListInv ==
    listing # None =>
      /\ listing \in Listings
      /\ listed \in Seq(KeysOfOne)
      /\ GivenInOrder(listed)
      /\ \A k \in kept : /\ \E b \in Tails(store, listing) : k = <<b>>
                         /\ Given(k, listed) \/ ToBeGiven(k, listed)

\* Writers leave a key among those kept only if it is there.
LEMMA WritersKeep ==
    ASSUME Writers
    PROVE  /\ listing' = listing /\ listed' = listed
           /\ listing # None => kept' = kept \cap Present(store', listing)
<1> DEFINE P == /\ listing' = listing /\ listed' = listed
                /\ listing # None => kept' = kept \cap Present(store', listing)
<1>1. ASSUME NEW s, Write(s)
      PROVE  P
  <2>1. store' = s /\ listing' = listing /\ listed' = listed
    BY <1>1 DEF Write
  <2>2. kept' = IF listing = None THEN {} ELSE kept \cap Present(s, listing)
    BY <1>1 DEF Write
  <2>3. QED
    BY <2>1, <2>2
<1>2. ASSUME NEW result, Handled(result)
      PROVE  P
  BY <1>1, <1>2 DEF Handled
<1> HIDE DEF P
<1>3. ASSUME ItemSave
      PROVE  P
  <2>1. Write(save(store, ItemPath(ItemName), Stored))
    BY <1>3 DEF ItemSave
  <2>2. QED
    BY <1>1, <2>1
<1>4. ASSUME ItemRemove
      PROVE  P
  <2>1. Write(remove(store, ItemPath(ItemName)))
    BY <1>4 DEF ItemRemove
  <2>2. QED
    BY <1>1, <2>1
<1>5. ASSUME NEW output, ItemUpdate(output)
      PROVE  P
  <2> DEFINE s == item_update(store, ItemPath(ItemName), LAMBDA v : output)
  <2>1. Write(s)
    BY <1>5 DEF ItemUpdate
  <2> HIDE DEF s
  <2>2. QED
    BY <1>1, <2>1
<1>6. ASSUME NEW account, MapSave(account) \/ MapRemove(account)
      PROVE  P
  BY <1>1, <1>6 DEF MapSave, MapRemove
<1>7. ASSUME NEW account, NEW output, MapUpdate(account, output)
      PROVE  P
  <2> DEFINE s == update(store, AccountPath[account], LAMBDA v : output)
  <2>1. Write(s)
    BY <1>7 DEF MapUpdate
  <2> HIDE DEF s
  <2>2. QED
    BY <1>1, <2>1
<1>8. ASSUME NEW key, NEW data, IndexedSave(key, data)
      PROVE  P
  BY <1>2, <1>8 DEF IndexedSave
<1>9. ASSUME NEW key, IndexedRemove(key)
      PROVE  P
  BY <1>2, <1>9 DEF IndexedRemove
<1>10. ASSUME NEW key, NEW output, IndexedUpdate(key, output)
       PROVE  P
  <2> DEFINE result == indexed_update(store, records, key, LAMBDA v : output)
  <2>1. Handled(result)
    BY <1>10 DEF IndexedUpdate
  <2> HIDE DEF result
  <2>2. QED
    BY <1>2, <2>1
<1>11. \/ ItemSave \/ ItemRemove
       \/ \E output : ItemUpdate(output)
       \/ \E account : MapSave(account) \/ MapRemove(account)
       \/ \E account, output : MapUpdate(account, output)
       \/ \E key, data : IndexedSave(key, data)
       \/ \E key : IndexedRemove(key)
       \/ \E key, output : IndexedUpdate(key, output)
  BY DEF Writers
<1>12. P
  BY ONLY <1>3, <1>4, <1>5, <1>6, <1>7, <1>8, <1>9, <1>10, <1>11
<1>13. QED
  BY <1>12 DEF P

-----------------------------------------------------------------------------
LEMMA KeysConcat ==
    ASSUME NEW a \in Seq(KeysOfOne), NEW b \in Seq(KeysOfOne), NEW d, d = a \o b,
           NEW q, q = Len(a), NEW c, c = Len(b)
    PROVE  /\ d \in Seq(KeysOfOne) /\ Len(d) = q + c
           /\ \A i \in 1 .. q : d[i] = a[i]
           /\ \A i \in 1 .. c : d[q + i] = b[i]
  BY Concat

LEMMA LastIs ==
    ASSUME listed \in Seq(KeysOfOne)
    PROVE  /\ LastListed \in Bytes \cup {None}
           /\ listed = <<>> => LastListed = None
           /\ listed # <<>> => /\ LastListed # None /\ Len(listed) \in 1 .. Len(listed)
                               /\ LastListed = listed[Len(listed)][1]
<1>1. listed # <<>> => Len(listed) \in 1 .. Len(listed) /\ listed[Len(listed)] \in KeysOfOne
  BY EmptySeq
<1>2. \A k \in KeysOfOne : k[1] \in Bytes
  BY DEF KeysOfOne
<1>3. None \notin Bytes
  BY CollectionsAssumption DEF Bytes
<1>4. QED
  BY <1>1, <1>2, <1>3 DEF LastListed, Last

\* The next page goes on behind the last key given, and skips none.
LEMMA PageKeepsOrder ==
    ASSUME StoreInv, ListInv, listing # None, NEW limit \in Limits, NextPage(limit)
    PROVE  ListInv'
<1> DEFINE b == LastListed
           S == Later(store, listing, b)
           l == Ranked(S, ByteOrder(S))
           n == Cardinality(S)
           p == query_page(b, limit)
<1>1. /\ StoreOk(store) /\ GoodPrefix(store, listing)
      /\ listing \in Listings /\ listed \in Seq(KeysOfOne) /\ GivenInOrder(listed)
      /\ \A k \in kept : /\ \E x \in Tails(store, listing) : k = <<x>>
                         /\ Given(k, listed) \/ ToBeGiven(k, listed)
  BY ListingPrefix DEF StoreInv, ListInv
<1>2. /\ b \in Bytes \cup {None}
      /\ listed = <<>> => b = None
      /\ listed # <<>> => /\ b # None /\ Len(listed) \in 1 .. Len(listed)
                          /\ b = listed[Len(listed)][1]
  BY <1>1, LastIs
<1>3. /\ listed' = listed \o p /\ p # <<>>
      /\ store' = store /\ listing' = listing /\ kept' = kept
  BY DEF NextPage
<1>a. /\ S = Later(store, listing, b) /\ l = Ranked(S, ByteOrder(S)) /\ n = Cardinality(S)
      /\ p = query_page(b, limit)
  OBVIOUS
<1> HIDE DEF b, S, l, n, p
<1>4. /\ S \in SUBSET Bytes /\ IsFiniteSet(S) /\ n \in Nat
      /\ \E c \in 0 .. n : p = [i \in 1 .. c |-> <<l[i]>>] /\ (c = 0 => n = 0)
  <2>1. limit \in Limits \cup {None}
    OBVIOUS
  <2>2. QED
    BY ONLY <1>1, <1>2, <1>a, <2>1, PageIs
<1>5. PICK c \in 0 .. n : p = [i \in 1 .. c |-> <<l[i]>>]
  BY <1>4
<1>6. TotalOn(S, ByteOrder(S)) /\ \A x, y \in S : <<x, y>> \in ByteOrder(S) <=> BytesBefore(x, y)
  BY <1>4, ByteOrderTotal
<1>7. /\ l \in [1 .. n -> S]
      /\ \A x \in S : \E i \in 1 .. n : l[i] = x
      /\ \A i, j \in 1 .. n : i < j <=> <<l[i], l[j]>> \in ByteOrder(S)
  BY <1>4, <1>6, <1>a, RankedList
<1>8. \A i, j \in 1 .. n : i < j => BytesBefore(l[i], l[j])
  BY <1>6, <1>7
<1> DEFINE q == Len(listed)
<1>9. q \in Nat /\ c \in Nat /\ n \in Nat /\ c <= n
  BY <1>1, <1>4, <1>5, LenProperties
<1>10. /\ p \in Seq(KeysOfOne) /\ Len(p) = c /\ \A i \in 1 .. c : p[i] = <<l[i]>> /\ l[i] \in Bytes
  <2>1. \A i \in 1 .. c : l[i] \in Bytes
    BY <1>4, <1>7, <1>9
  <2>2. QED
    BY <1>5, <1>9, <2>1 DEF KeysOfOne
<1>11. c >= 1
  <2>1. ASSUME c = 0
        PROVE  p = <<>>
    BY <1>10, <2>1, EmptySeq
  <2>2. QED
    BY <1>3, <1>9, <2>1
<1> DEFINE d == listed \o p
<1>12. /\ d \in Seq(KeysOfOne) /\ Len(d) = q + c
       /\ \A i \in 1 .. q : d[i] = listed[i]
       /\ \A i \in 1 .. c : d[q + i] = p[i]
  <2>1. d = listed \o p /\ q = Len(listed)
    OBVIOUS
  <2>2. c = Len(p) /\ p \in Seq(KeysOfOne) /\ listed \in Seq(KeysOfOne)
    BY <1>1, <1>10
  <2> HIDE DEF d, q
  <2>3. QED
    BY ONLY <2>1, <2>2, KeysConcat
<1> HIDE DEF d
<1>13. \A i \in 1 .. c : d[q + i][1] = l[i]
  BY <1>10, <1>12
<1>14. \A i \in 1 .. q : listed[i][1] \in Bytes
  <2>1. \A i \in 1 .. q : listed[i] \in KeysOfOne
    BY <1>1
  <2>2. QED
    BY <2>1 DEF KeysOfOne
\* What was given comes before what is given now.
<1>15. ASSUME NEW i \in 1 .. q, NEW x \in S
       PROVE  BytesBefore(listed[i][1], x)
  <2>1. b # None /\ q \in 1 .. q /\ b = listed[q][1] /\ b \in Bytes
    <3>1. listed # <<>>
      BY <1>9, EmptySeq
    <3>2. QED
      BY <1>2, <1>14, <3>1
  <2>2. BytesBefore(b, x) /\ x \in Bytes
    BY <1>4, <1>a, <2>1 DEF Later
  <2>3. i = q \/ BytesBefore(listed[i][1], b)
    BY <1>1, <1>9, <2>1 DEF GivenInOrder
  <2>4. CASE i = q
    BY <2>1, <2>2, <2>4
  <2>5. CASE BytesBefore(listed[i][1], b)
    <3> DEFINE y == listed[i][1]
    <3>1. y \in Bytes /\ BytesBefore(y, b)
      BY <1>14, <2>5
    <3> HIDE DEF y
    <3>2. BytesBefore(y, x)
      BY <2>1, <2>2, <3>1, BytesTransitive
    <3>3. QED
      BY <3>2 DEF y
  <2>6. QED
    BY <2>3, <2>4, <2>5
<1>16. GivenInOrder(d)
  <2>1. ASSUME NEW i \in 1 .. q + c, NEW j \in 1 .. q + c, i < j
        PROVE  BytesBefore(d[i][1], d[j][1])
    <3>1. CASE j <= q
      <4>1. i \in 1 .. q /\ j \in 1 .. q
        BY <1>9, <2>1, <3>1
      <4>2. d[i] = listed[i] /\ d[j] = listed[j]
        BY <1>12, <4>1
      <4>3. QED
        BY <1>1, <2>1, <4>1, <4>2 DEF GivenInOrder
    <3>2. CASE i <= q /\ j > q
      <4>1. i \in 1 .. q /\ j - q \in 1 .. c /\ j = q + (j - q)
        BY <1>9, <2>1, <3>2
      <4> DEFINE h == j - q
      <4>2. h \in 1 .. c /\ j = q + h
        BY <4>1
      <4> HIDE DEF h
      <4>3. d[i] = listed[i] /\ d[j][1] = l[h]
        BY <1>12, <1>13, <4>1, <4>2
      <4>4. h \in 1 .. n /\ l[h] \in S
        BY <1>7, <1>9, <4>2
      <4>5. QED
        BY <1>15, <4>1, <4>3, <4>4
    <3>3. CASE i > q
      <4> DEFINE g == i - q
                 h == j - q
      <4>1. g \in 1 .. c /\ h \in 1 .. c /\ g < h /\ i = q + g /\ j = q + h
        BY <1>9, <2>1, <3>3
      <4> HIDE DEF g, h
      <4>2. d[i][1] = l[g] /\ d[j][1] = l[h]
        BY <1>13, <4>1
      <4>3. g \in 1 .. n /\ h \in 1 .. n
        BY <1>9, <4>1
      <4>4. BytesBefore(l[g], l[h])
        BY <1>8, <4>1, <4>3
      <4>5. QED
        BY <4>2, <4>4
    <3>4. QED
      BY <1>9, <3>1, <3>2, <3>3
  <2>2. QED
    BY <1>12, <2>1 DEF GivenInOrder
<1>17. ASSUME NEW k \in kept
       PROVE  Given(k, d) \/ ToBeGiven(k, d)
  <2>1. PICK x \in Tails(store, listing) : k = <<x>>
    BY <1>1
  <2>2. CASE Given(k, listed)
    <3>1. PICK i \in 1 .. q : listed[i] = k
      BY <2>2 DEF Given
    <3>2. d[i] = k /\ i \in 1 .. q + c
      BY <1>9, <1>12, <3>1
    <3>3. QED
      BY <1>12, <3>2 DEF Given
  <2>3. CASE ToBeGiven(k, listed)
    <3>1. b = None \/ BytesBefore(b, x)
      BY <1>2, <2>1, <2>3 DEF ToBeGiven
    <3>2. x \in S
      BY <1>a, <3>1 DEF Later
    <3>3. PICK i \in 1 .. n : l[i] = x
      BY <1>7, <3>2
    <3>4. CASE i <= c
      <4>1. i \in 1 .. c
        BY <1>9, <3>4
      <4>2. d[q + i] = k /\ q + i \in 1 .. q + c
        BY <1>9, <1>10, <1>12, <2>1, <3>3, <4>1
      <4>3. QED
        BY <1>12, <4>2 DEF Given
    <3>5. CASE i > c
      <4>1. c \in 1 .. n /\ BytesBefore(l[c], l[i])
        BY <1>8, <1>9, <1>11, <3>5
      <4>2. d[q + c][1] = l[c] /\ c \in 1 .. c
        BY <1>9, <1>11, <1>13
      <4>3. BytesBefore(d[Len(d)][1], k[1])
        BY <1>12, <2>1, <3>3, <4>1, <4>2
      <4>4. QED
        BY <4>3 DEF ToBeGiven
    <3>6. QED
      BY <1>9, <3>4, <3>5
  <2>4. QED
    BY <1>1, <2>2, <2>3
<1>18. listed' = d
  BY <1>3 DEF d
<1>19. QED
  BY <1>1, <1>3, <1>12, <1>16, <1>17, <1>18 DEF ListInv

\* A writer takes from the keys kept those it removes, and what is listed stays as it is.
LEMMA WritersKeepOrder ==
    ASSUME StoreInv', ListInv, listing # None, Writers
    PROVE  ListInv'
<1>1. /\ listing' = listing /\ listed' = listed
      /\ kept' = kept \cap Present(store', listing)
  BY WritersKeep
<1>2. /\ listing \in Listings /\ listed \in Seq(KeysOfOne) /\ GivenInOrder(listed)
      /\ \A k \in kept : Given(k, listed) \/ ToBeGiven(k, listed)
  BY DEF ListInv
<1>3. StoreOk(store')
  BY DEF StoreInv
<1>4. GoodPrefix(store', listing)
  BY <1>2, <1>3, ListingPrefix
<1>5. Present(store', listing) = {<<r>> : r \in Tails(store', listing)}
  BY <1>3, <1>4, PresentIs
<1>6. \A k \in kept' : k \in kept /\ \E b \in Tails(store', listing) : k = <<b>>
  BY <1>1, <1>5
<1>7. QED
  BY <1>1, <1>2, <1>6 DEF ListInv

LEMMA BeginKeepsOrder ==
    ASSUME StoreInv, NEW prefix \in Listings, Begin(prefix)
    PROVE  ListInv'
<1>1. listing' = prefix /\ listed' = <<>> /\ kept' = Present(store, prefix) /\ store' = store
  BY DEF Begin
<1>2. GoodPrefix(store, prefix)
  BY ListingPrefix DEF StoreInv
<1>3. Present(store, prefix) = {<<r>> : r \in Tails(store, prefix)}
  BY <1>2, PresentIs DEF StoreInv
<1>4. listed' \in Seq(KeysOfOne) /\ Len(listed') = 0
  BY <1>1, EmptySeq
<1>5. GivenInOrder(listed')
  BY <1>4 DEF GivenInOrder
<1>6. \A k \in kept' : \E b \in Tails(store', listing') : k = <<b>>
  BY <1>1, <1>3
<1>7. \A k \in kept' : ToBeGiven(k, listed')
  BY <1>1 DEF ToBeGiven
<1>8. QED
  BY <1>1, <1>4, <1>5, <1>6, <1>7 DEF ListInv

LEMMA ListStep ==
    ASSUME StoreInv, StoreInv', ListInv, [Next]_vars
    PROVE  ListInv'
<1>1. CASE Writers
  <2>1. CASE listing = None
    BY <1>1, <2>1, WritersKeep DEF ListInv
  <2>2. CASE listing # None
    BY <1>1, <2>2, WritersKeepOrder
  <2>3. QED
    BY <2>1, <2>2
<1>2. ASSUME NEW prefix \in Listings, Begin(prefix)
      PROVE  ListInv'
  BY <1>2, BeginKeepsOrder
<1>3. ASSUME NEW limit \in Limits, NextPage(limit)
      PROVE  ListInv'
  <2>1. listing # None
    BY <1>3 DEF NextPage
  <2>2. QED
    BY <1>3, <2>1, PageKeepsOrder
<1>4. CASE EmptyPage
  BY <1>4 DEF EmptyPage, ListInv
<1>5. CASE UNCHANGED vars
  BY <1>5 DEF vars, ListInv
<1>6. QED
  BY <1>1, <1>2, <1>3, <1>4, <1>5 DEF Next, Client

\* The last page was empty: nothing is left to be given.
LEMMA LastPage ==
    ASSUME StoreInv, ListInv, listing # None, EmptyPage
    PROVE  \A k \in kept : Given(k, listed)
<1> DEFINE b == LastListed
           S == Later(store, listing, b)
           l == Ranked(S, ByteOrder(S))
           n == Cardinality(S)
           p == query_page(b, None)
<1>1. /\ StoreOk(store) /\ GoodPrefix(store, listing) /\ listed \in Seq(KeysOfOne)
      /\ \A k \in kept : /\ \E x \in Tails(store, listing) : k = <<x>>
                         /\ Given(k, listed) \/ ToBeGiven(k, listed)
  BY ListingPrefix DEF StoreInv, ListInv
<1>2. /\ b \in Bytes \cup {None}
      /\ listed = <<>> => b = None
      /\ listed # <<>> => b = listed[Len(listed)][1]
  BY <1>1, LastIs
<1>3. p = <<>>
  BY DEF EmptyPage
<1>a. /\ S = Later(store, listing, b) /\ l = Ranked(S, ByteOrder(S)) /\ n = Cardinality(S)
      /\ p = query_page(b, None)
  OBVIOUS
<1> HIDE DEF b, S, l, n, p
<1>4. /\ S \in SUBSET Bytes /\ IsFiniteSet(S) /\ n \in Nat
      /\ \E c \in 0 .. n : p = [i \in 1 .. c |-> <<l[i]>>] /\ (c = 0 => n = 0)
  <2> DEFINE limit == None
  <2>1. limit \in Limits \cup {None} /\ p = query_page(b, limit)
    BY <1>a
  <2> HIDE DEF limit
  <2>2. QED
    BY ONLY <1>1, <1>2, <1>a, <2>1, PageIs
<1>5. PICK c \in 0 .. n : p = [i \in 1 .. c |-> <<l[i]>>] /\ (c = 0 => n = 0)
  BY <1>4
<1>6. DOMAIN p = 1 .. c
  BY <1>5
<1>7. c = 0
  <2>1. DOMAIN p = {}
    BY <1>3
  <2>2. c \in Nat /\ (c >= 1 => 1 \in 1 .. c)
    BY <1>4, <1>5
  <2>3. QED
    BY <1>6, <2>1, <2>2
<1>8. S = {}
  BY <1>4, <1>5, <1>7, <1>a, FS_EmptySet
<1>9. ASSUME NEW k \in kept, ToBeGiven(k, listed)
      PROVE  FALSE
  <2>1. PICK x \in Tails(store, listing) : k = <<x>>
    BY <1>1
  <2>2. b = None \/ BytesBefore(b, x)
    BY <1>2, <1>9, <2>1 DEF ToBeGiven
  <2>3. x \in S
    BY <1>a, <2>2 DEF Later
  <2>4. QED
    BY <1>8, <2>3
<1>10. QED
  BY <1>1, <1>9

LEMMA ListingEnds ==
    ASSUME StoreInv, ListInv, [Next]_vars, listing # None, listing' = None
    PROVE  /\ kept \subseteq ToSet(listed)
           /\ \A i, j \in 1 .. Len(listed) : i < j => KeyBefore(listed[i], listed[j])
<1>1. EmptyPage
  <2>1. CASE Writers
    BY <2>1, WritersKeep
  <2>2. ASSUME NEW prefix, Begin(prefix)
        PROVE  FALSE
    BY <2>2 DEF Begin
  <2>3. ASSUME NEW limit, NextPage(limit)
        PROVE  FALSE
    BY <2>3 DEF NextPage
  <2>4. CASE UNCHANGED vars
    BY <2>4 DEF vars
  <2>5. QED
    BY <2>1, <2>2, <2>3, <2>4 DEF Next, Client
<1>2. \A k \in kept : Given(k, listed)
  BY <1>1, LastPage
<1>3. listed \in Seq(KeysOfOne) /\ GivenInOrder(listed)
  BY DEF ListInv
<1>4. kept \subseteq ToSet(listed)
  <2>1. DOMAIN listed = 1 .. Len(listed)
    BY <1>3, LenProperties
  <2>2. QED
    BY <1>2, <2>1 DEF Given, ToSet
<1>5. ASSUME NEW i \in 1 .. Len(listed), NEW j \in 1 .. Len(listed), i < j
      PROVE  KeyBefore(listed[i], listed[j])
  <2>1. \A k \in KeysOfOne : k \in KeysOfParts(1)
    <3>1. ASSUME NEW x \in Bytes
          PROVE  <<x>> \in KeysOfParts(1)
      <4> DEFINE k == <<x>>
                 m == 1
      <4>1. k \in Seq(Bytes) /\ Len(k) = m /\ m \in Nat /\ \A n \in 1 .. m - 1 : Len(k[n]) < 65535
        OBVIOUS
      <4> HIDE DEF k, m
      <4>2. k \in KeysOfParts(m)
        BY <4>1, KeyOfParts
      <4>3. QED
        BY <4>2 DEF k, m
    <3>2. QED
      BY <3>1 DEF KeysOfOne
  <2>2. listed[i] \in KeysOfOne /\ listed[j] \in KeysOfOne
    BY <1>3
  <2>3. BytesBefore(listed[i][1], listed[j][1])
    BY <1>3, <1>5 DEF GivenInOrder
  <2> DEFINE g == listed[i]
             h == listed[j]
  <2>4. g \in KeysOfParts(1) /\ h \in KeysOfParts(1) /\ BytesBefore(g[1], h[1])
    BY <2>1, <2>2, <2>3
  <2> HIDE DEF g, h
  <2>5. KeyBefore(g, h)
    BY <2>4, KeyBeforeOne
  <2>6. QED
    BY <2>5 DEF g, h
<1>6. QED
  BY <1>4, <1>5

\* At any time a client that lists page by page has been given keys in their order, each
\* once, and each key that was there all along is among them or comes later.
THEOREM ListingsGoOn == Spec => []ListInv
<1>1. Init => ListInv
  BY DEF Init, ListInv
<1>2. StoreInv /\ StoreInv' /\ ListInv /\ [Next]_vars => ListInv'
  BY ListStep
<1>3. QED
  BY <1>1, <1>2, StoreIsConsistent, PTL DEF Spec

\* A client that lists the accounts, or the records below a first part, page by page is
\* at the end given every key that was there all along, in order and none twice,
\* whatever was written meanwhile (query_all_accounts, query_all_allowances).
THEOREM ListingsStayComplete == Spec => ListingsAreComplete
<1> DEFINE Complete == listing # None /\ listing' = None =>
                       /\ kept \subseteq ToSet(listed)
                       /\ \A i, j \in 1 .. Len(listed) : i < j => KeyBefore(listed[i], listed[j])
<1>1. StoreInv /\ ListInv /\ [Next]_vars => [Complete]_vars
  BY ListingEnds
<1>2. QED
  BY <1>1, StoreIsConsistent, ListingsGoOn, PTL DEF Spec, ListingsAreComplete

-----------------------------------------------------------------------------
(* Where a range with bounds begins and ends.                              *)
KeyAfter(k, min) ==
    min = None \/ KeyBefore(min[2], k) \/ <<min[1], k>> = <<"Inclusive", min[2]>>

KeyUntil(k, max) ==
    max = None \/ KeyBefore(k, max[2]) \/ <<max[1], k>> = <<"Inclusive", max[2]>>

\* A bound of a client is no bound, or a kind and a key.
LEMMA BoundIs ==
    ASSUME NEW K \in SUBSET Seq(Bytes), NEW b \in BoundsOn(K), b # None
    PROVE  b[1] \in {"Inclusive", "Exclusive"} /\ b[2] \in K
  BY DEF BoundsOn

LEMMA RawBoundIs ==
    ASSUME NEW kind \in {"Inclusive", "Exclusive"}, NEW x \in Bytes
    PROVE  /\ RawBound(kind, x) # None
           /\ RawBound(kind, x).kind = kind /\ RawBound(kind, x).limit = x
<1> DEFINE r == [kind |-> kind, limit |-> x]
<1>1. r \in [kind : {"Inclusive", "Exclusive"}, limit : Seq(Byte)]
  BY DEF Bytes
<1>2. r.kind = kind /\ r.limit = x
  OBVIOUS
<1> HIDE DEF r
<1>3. r # None
  BY <1>1, CollectionsAssumption
<1>4. QED
  BY <1>2, <1>3 DEF RawBound, r

LEMMA StartIs ==
    ASSUME NEW m \in Nat, m >= 1, NEW K \in SUBSET KeysOfParts(m), NEW min \in BoundsOn(K),
           NEW E \in Bytes
    PROVE  \E lo \in Bytes :
             /\ calc_start_bound(E, AsBound(min)) = E \o lo
             /\ \A k \in KeysOfParts(m) : KeyAfter(k, min) <=> ~BytesBefore(joined_key(k), lo)
<1> DEFINE Start(lo) == calc_start_bound(E, AsBound(min)) = E \o lo
           From(lo) == \A k \in KeysOfParts(m) : KeyAfter(k, min) <=> ~BytesBefore(joined_key(k), lo)
<1>a. \A k \in KeysOfParts(m) : joined_key(k) \in Bytes
  BY JoinedType
<1>1. CASE min = None
  <2>1. <<>> \in Bytes /\ E \o <<>> = E
    BY BytesEmpty
  <2>2. calc_start_bound(E, AsBound(min)) = E
    BY <1>1 DEF AsBound, calc_start_bound
  <2>3. From(<<>>)
    BY <1>a, <1>1, EmptyFirst DEF KeyAfter
  <2>4. Start(<<>>)
    BY <2>1, <2>2
  <2> HIDE DEF Start, From
  <2>5. \E lo \in Bytes : Start(lo) /\ From(lo)
    BY <2>1, <2>3, <2>4
  <2>6. QED
    BY <2>5 DEF Start, From
<1>2. CASE min # None
  <2> DEFINE j == min[2]
             x == joined_key(j)
             r == RawBound(min[1], x)
  <2>1. min[1] \in {"Inclusive", "Exclusive"} /\ j \in KeysOfParts(m)
    BY <1>2 DEF BoundsOn
  <2>2. x \in Bytes
    BY <1>a, <2>1
  <2>3. AsBound(min) = r
    BY <1>2 DEF AsBound
  <2>4. \A k \in KeysOfParts(m) :
          /\ BytesBefore(x, joined_key(k)) <=> KeyBefore(j, k)
          /\ x = joined_key(k) <=> j = k
    BY <2>1, JoinedOrder
  <2> HIDE DEF x
  <2>5. r # None /\ r.kind = min[1] /\ r.limit = x
    BY <2>1, <2>2, RawBoundIs
  <2> HIDE DEF r, j
  <2>6. CASE min[1] = "Inclusive"
    <3>1. calc_start_bound(E, AsBound(min)) = E \o x
      BY <2>3, <2>5, <2>6 DEF calc_start_bound, concat
    <3>2. \A k \in KeysOfParts(m) : KeyAfter(k, min) <=> KeyBefore(j, k) \/ j = k
      BY <1>2, <2>6 DEF KeyAfter, j
    <3>3. \A k \in KeysOfParts(m) : ~BytesBefore(joined_key(k), x) <=> KeyBefore(j, k) \/ j = k
      BY <1>a, <2>2, <2>4, BytesFrom
    <3>4. From(x) /\ Start(x)
      BY <3>1, <3>2, <3>3
    <3> HIDE DEF Start, From
    <3>5. \E lo \in Bytes : Start(lo) /\ From(lo)
      BY <2>2, <3>4
    <3>6. QED
      BY <3>5 DEF Start, From
  <2>7. CASE min[1] = "Exclusive"
    <3> DEFINE z == Append(x, 0)
    <3>1. calc_start_bound(E, AsBound(min)) = E \o z
      BY <2>3, <2>5, <2>7 DEF calc_start_bound, concat, extend_one_byte
    <3>2. \A k \in KeysOfParts(m) : KeyAfter(k, min) <=> KeyBefore(j, k)
      BY <1>2, <2>7 DEF KeyAfter, j
    <3>3. \A k \in KeysOfParts(m) : ~BytesBefore(joined_key(k), z) <=> KeyBefore(j, k)
      BY <1>a, <2>2, <2>4, BytesFrom
    <3>4. z \in Bytes
      BY <2>2, BytesFrom
    <3> HIDE DEF z
    <3>5. From(z) /\ Start(z)
      BY <3>1, <3>2, <3>3
    <3> HIDE DEF Start, From
    <3>6. \E lo \in Bytes : Start(lo) /\ From(lo)
      BY <3>4, <3>5
    <3>7. QED
      BY <3>6 DEF Start, From
  <2>8. QED
    BY <2>1, <2>6, <2>7
<1>3. QED
  BY <1>1, <1>2

LEMMA EndIs ==
    ASSUME NEW m \in Nat, m >= 1, NEW K \in SUBSET KeysOfParts(m), NEW max \in BoundsOn(K),
           NEW E \in Bytes
    PROVE  \E hi \in Ends :
             /\ calc_end_bound(E, AsBound(max)) = EndAt(E, hi)
             /\ \A k \in KeysOfParts(m) : KeyUntil(k, max) <=> UpTo(joined_key(k), hi)
<1> DEFINE End(hi) == calc_end_bound(E, AsBound(max)) = EndAt(E, hi)
           Under(hi) == \A k \in KeysOfParts(m) : KeyUntil(k, max) <=> UpTo(joined_key(k), hi)
<1>a. \A k \in KeysOfParts(m) : joined_key(k) \in Bytes
  BY JoinedType
<1>b. ASSUME NEW z \in Bytes
      PROVE  <<z>> \in Ends /\ EndAt(E, <<z>>) = E \o z /\ \A y : UpTo(y, <<z>>) <=> BytesBefore(y, z)
  BY DEF Ends, EndAt, UpTo
<1>1. CASE max = None
  <2>1. <<>> \in Ends
    BY DEF Ends
  <2>2. End(<<>>)
    BY <1>1 DEF AsBound, calc_end_bound, EndAt
  <2>3. Under(<<>>)
    BY <1>1 DEF KeyUntil, UpTo
  <2> HIDE DEF End, Under
  <2>4. \E hi \in Ends : End(hi) /\ Under(hi)
    BY <2>1, <2>2, <2>3
  <2>5. QED
    BY <2>4 DEF End, Under
<1>2. CASE max # None
  <2> DEFINE j == max[2]
             x == joined_key(j)
             r == RawBound(max[1], x)
  <2>1. max[1] \in {"Inclusive", "Exclusive"} /\ j \in KeysOfParts(m)
    BY <1>2 DEF BoundsOn
  <2>2. x \in Bytes
    BY <1>a, <2>1
  <2>3. AsBound(max) = r
    BY <1>2 DEF AsBound
  <2>4. \A k \in KeysOfParts(m) :
          /\ BytesBefore(joined_key(k), x) <=> KeyBefore(k, j)
          /\ x = joined_key(k) <=> j = k
    BY <2>1, JoinedOrder
  <2> HIDE DEF x
  <2>5. r # None /\ r.kind = max[1] /\ r.limit = x
    BY <2>1, <2>2, RawBoundIs
  <2> HIDE DEF r, j
  <2>6. CASE max[1] = "Exclusive"
    <3>1. calc_end_bound(E, AsBound(max)) = E \o x
      BY <2>3, <2>5, <2>6 DEF calc_end_bound, concat
    <3>2. \A k \in KeysOfParts(m) : KeyUntil(k, max) <=> KeyBefore(k, j)
      BY <1>2, <2>6 DEF KeyUntil, j
    <3>3. Under(<<x>>)
      BY <1>b, <2>2, <2>4, <3>2
    <3>4. End(<<x>>) /\ <<x>> \in Ends
      BY <1>b, <2>2, <3>1
    <3> HIDE DEF End, Under
    <3>5. \E hi \in Ends : End(hi) /\ Under(hi)
      BY <3>3, <3>4
    <3>6. QED
      BY <3>5 DEF End, Under
  <2>7. CASE max[1] = "Inclusive"
    <3> DEFINE z == Append(x, 0)
    <3>1. calc_end_bound(E, AsBound(max)) = E \o z
      BY <2>3, <2>5, <2>7 DEF calc_end_bound, concat, extend_one_byte
    <3>2. \A k \in KeysOfParts(m) : KeyUntil(k, max) <=> KeyBefore(k, j) \/ j = k
      BY <1>2, <2>7 DEF KeyUntil, j
    <3>3. \A k \in KeysOfParts(m) : BytesBefore(joined_key(k), z) <=> KeyBefore(k, j) \/ j = k
      BY <1>a, <2>2, <2>4, BytesFrom
    <3>4. z \in Bytes
      BY <2>2, BytesFrom
    <3> HIDE DEF z
    <3>5. Under(<<z>>)
      BY <1>b, <3>2, <3>3, <3>4
    <3>6. End(<<z>>) /\ <<z>> \in Ends
      BY <1>b, <3>1, <3>4
    <3> HIDE DEF End, Under
    <3>7. \E hi \in Ends : End(hi) /\ Under(hi)
      BY <3>5, <3>6
    <3>8. QED
      BY <3>7 DEF End, Under
  <2>8. QED
    BY <2>1, <2>6, <2>7
<1>3. QED
  BY <1>1, <1>2

LEMMA RangeDecoded ==
    ASSUME NEW s, StoreOk(s), NEW E, GoodPrefix(s, E), NEW lo \in Bytes, NEW hi \in Ends,
           NEW S, S = TailsIn(s, E, lo, hi), NEW T, NEW Q,
           NEW f \in [S -> T], \A y \in T : \E x \in S : f[x] = y,
           \A x, y \in S : BytesBefore(x, y) <=> <<f[x], f[y]>> \in Q
    PROVE  Decodes(s, E, lo, hi, S, T, Q, f)
<1>1. Storage(s) /\ \A x \in DOMAIN s : x \in Bytes
  BY StorageBytes DEF StoreOk
<1>2. QED
  BY <1>1, TailsDecoded

-----------------------------------------------------------------------------
(* The records, whole.                                                     *)
LEMMA SavedTails ==
    ASSUME StoreOk(store), NEW E, E = Prefix(RecordsNamespace, <<>>)
    PROVE  /\ GoodPrefix(store, E)
           /\ \A r \in Tails(store, E) : \E k \in Saved : r = joined_key(k)
           /\ \A k \in Saved : /\ k \in Records /\ k \in KeysOfParts(2)
                               /\ E \o joined_key(k) = RecordPath[k]
                               /\ joined_key(k) \in Tails(store, E)
                               /\ store[RecordPath[k]] = record_at(k)
                               /\ record_at(k) \in Values
<1>1. RecordsNamespace \in Namespaces /\ RecordsNamespace \in Short
  BY NamespaceFacts
<1>2. GoodPrefix(store, E) /\ E = to_length_prefixed(RecordsNamespace)
  BY <1>1, NamePrefix
<1>3. \A k \in Records : /\ k \in KeysOfParts(2) /\ joined_key(k) \in Bytes
                         /\ RecordPath[k] = length_prefixed_with_key(RecordsNamespace, joined_key(k))
  BY PathsAre
<1>4. \A r : E \o r = length_prefixed_with_key(RecordsNamespace, r)
  BY <1>2 DEF length_prefixed_with_key
<1>5. \A k \in Records : record_at(k) = get(store, RecordPath[k])
  BY DEF record_at, may_load
<1>6. Storage(store) /\ \A k \in Records : get(store, RecordPath[k]) \in Values \cup {None}
  BY DEF StoreOk
<1>7. ASSUME NEW r \in Tails(store, E)
      PROVE  \E k \in Saved : r = joined_key(k)
  <2> DEFINE x == E \o r
  <2>1. r \in Bytes /\ x \in DOMAIN store /\ x = length_prefixed_with_key(RecordsNamespace, r)
    BY <1>4 DEF Tails
  <2> HIDE DEF x
  <2>2. PICK k \in Records : x = RecordPath[k] /\ r = joined_key(k)
    BY <1>1, <2>1, OfNamespace
  <2>3. get(store, RecordPath[k]) # None
    BY <1>6, <2>1, <2>2 DEF Storage, get
  <2>4. k \in Saved
    BY <1>5, <2>3 DEF Saved
  <2>5. QED
    BY <2>2, <2>4
<1>8. ASSUME NEW k \in Saved
      PROVE  /\ k \in Records /\ k \in KeysOfParts(2)
             /\ E \o joined_key(k) = RecordPath[k]
             /\ joined_key(k) \in Tails(store, E)
             /\ store[RecordPath[k]] = record_at(k)
             /\ record_at(k) \in Values
  <2>1. k \in Records /\ record_at(k) # None
    BY DEF Saved
  <2>2. E \o joined_key(k) = RecordPath[k]
    BY <1>3, <1>4, <2>1
  <2>3. RecordPath[k] \in DOMAIN store /\ store[RecordPath[k]] = record_at(k)
    BY <1>5, <2>1 DEF get
  <2>4. joined_key(k) \in Tails(store, E)
    BY <1>3, <2>1, <2>2, <2>3 DEF Tails
  <2>5. record_at(k) \in Values
    BY <1>5, <1>6, <2>1
  <2>6. QED
    BY <1>3, <2>1, <2>2, <2>3, <2>4, <2>5
<1>9. QED
  BY <1>2, <1>7, <1>8

\* A range over whole keys answers the saved records within it.
LEMMA RecordsFound ==
    ASSUME StoreOk(store), NEW E, E = Prefix(RecordsNamespace, <<>>),
           NEW lo \in Bytes, NEW hi \in Ends, NEW T \in SUBSET Saved,
           \A k \in Saved : k \in T <=> ~BytesBefore(joined_key(k), lo) /\ UpTo(joined_key(k), hi)
    PROVE  MapEach(Trimmed(E, storage_range(store, E \o lo, EndAt(E, hi), "Ascending")),
                   LAMBDA record : deserialize_kv(2, record))
             = Sorted(T, KeyBefore)
<1> DEFINE S == TailsIn(store, E, lo, hi)
           Q == KeyOrder(T)
           c == Cardinality(T)
           up == Trimmed(E, storage_range(store, E \o lo, EndAt(E, hi), "Ascending"))
           sorted == InOrder(T, KeyBefore)
<1>1. /\ GoodPrefix(store, E)
      /\ \A r \in Tails(store, E) : \E k \in Saved : r = joined_key(k)
      /\ \A k \in Saved : /\ k \in Records /\ k \in KeysOfParts(2)
                          /\ E \o joined_key(k) = RecordPath[k]
                          /\ joined_key(k) \in Tails(store, E)
                          /\ store[RecordPath[k]] = record_at(k)
  BY SavedTails
<1>2. \A k \in Saved : from_vec(2, joined_key(k)) = k
  BY <1>1, KeyRead
<1>3. ASSUME NEW x \in S
      PROVE  /\ from_vec(2, x) \in T /\ x = joined_key(from_vec(2, x))
             /\ store[E \o x] = record_at(from_vec(2, x))
  <2>1. x \in Tails(store, E) /\ ~BytesBefore(x, lo) /\ UpTo(x, hi)
    BY DEF TailsIn
  <2>2. PICK k \in Saved : x = joined_key(k)
    BY <1>1, <2>1
  <2>3. k \in T
    BY <2>1, <2>2
  <2>4. from_vec(2, x) = k
    BY <1>2, <2>2
  <2>5. QED
    BY <1>1, <2>2, <2>3, <2>4
<1>4. \A k \in T : joined_key(k) \in S
  BY <1>1 DEF TailsIn
<1> HIDE DEF S
<1> DEFINE f == [x \in S |-> from_vec(2, x)]
<1>5. f \in [S -> T] /\ \A x \in S : f[x] = from_vec(2, x)
  BY <1>3
<1>6. \A y \in T : \E x \in S : f[x] = y
  BY <1>2, <1>4, <1>5
<1>7. \A x, y \in S : BytesBefore(x, y) <=> <<f[x], f[y]>> \in Q
  <2>1. ASSUME NEW x \in S, NEW y \in S
        PROVE  BytesBefore(x, y) <=> <<f[x], f[y]>> \in Q
    <3> DEFINE j == from_vec(2, x)
               k == from_vec(2, y)
    <3>1. j \in T /\ k \in T /\ x = joined_key(j) /\ y = joined_key(k) /\ f[x] = j /\ f[y] = k
      BY <1>3, <1>5
    <3> HIDE DEF j, k, f
    <3>2. j \in KeysOfParts(2) /\ k \in KeysOfParts(2) /\ 2 \in Nat /\ 2 >= 1
      BY <1>1, <3>1
    <3>3. BytesBefore(x, y) <=> KeyBefore(j, k)
      BY <3>1, <3>2, JoinedOrder
    <3>4. <<j, k>> \in Q <=> KeyBefore(j, k)
      BY <3>1 DEF KeyOrder
    <3>5. QED
      BY <3>1, <3>3, <3>4
  <2>2. QED
    BY <2>1
<1>8. S = TailsIn(store, E, lo, hi)
  BY DEF S
<1> HIDE DEF f, Q
<1>9. /\ c \in Nat
      /\ \E l \in [1 .. c -> S] : /\ up = [i \in 1 .. c |-> <<l[i], store[E \o l[i]]>>]
                                  /\ Ranked(T, Q) = [i \in 1 .. c |-> f[l[i]]]
  <2>1. StoreOk(store) /\ GoodPrefix(store, E) /\ lo \in Bytes /\ hi \in Ends
    BY <1>1
  <2>2. Decodes(store, E, lo, hi, S, T, Q, f)
    BY ONLY <1>5, <1>6, <1>7, <1>8, <2>1, RangeDecoded
  <2>3. QED
    BY <2>2 DEF Decodes
<1> HIDE DEF c
<1>10. PICK l \in [1 .. c -> S] : /\ up = [i \in 1 .. c |-> <<l[i], store[E \o l[i]]>>]
                                  /\ Ranked(T, Q) = [i \in 1 .. c |-> f[l[i]]]
  BY <1>9
<1>11. sorted = [i \in 1 .. c |-> f[l[i]]]
  BY <1>10, InKeyOrder DEF Q
<1> HIDE DEF sorted, up
<1> DEFINE g == [i \in 1 .. c |-> f[l[i]]]
           u == [i \in 1 .. c |-> <<l[i], store[E \o l[i]]>>]
<1>12. Len(g) = c /\ \A i \in 1 .. c : g[i] = f[l[i]]
  BY <1>9
<1>13. Len(u) = c /\ \A i \in 1 .. c : u[i][1] = l[i] /\ u[i][2] = store[E \o l[i]]
  BY <1>9
<1> HIDE DEF g, u
<1>14. Sorted(T, KeyBefore) = [i \in 1 .. Len(sorted) |-> <<sorted[i], record_at(sorted[i])>>]
  BY DEF Sorted, sorted
<1>15. Sorted(T, KeyBefore) = [i \in 1 .. c |-> <<f[l[i]], record_at(f[l[i]])>>]
  BY <1>11, <1>12, <1>14 DEF g
<1>16. MapEach(up, LAMBDA record : deserialize_kv(2, record))
         = [i \in 1 .. Len(up) |-> <<from_vec(2, up[i][1]), up[i][2]>>]
  BY DEF MapEach, deserialize_kv
<1>17. MapEach(up, LAMBDA record : deserialize_kv(2, record))
         = [i \in 1 .. c |-> <<from_vec(2, l[i]), store[E \o l[i]]>>]
  <2>1. up = u
    BY <1>10 DEF u
  <2>2. QED
    BY <1>13, <1>16, <2>1
<1>18. \A i \in 1 .. c : /\ from_vec(2, l[i]) = f[l[i]]
                         /\ store[E \o l[i]] = record_at(f[l[i]])
  BY <1>3, <1>5, <1>10
<1>19. MapEach(up, LAMBDA record : deserialize_kv(2, record)) = Sorted(T, KeyBefore)
  BY <1>15, <1>17, <1>18
<1>20. QED
  BY <1>19 DEF up

-----------------------------------------------------------------------------
(* The ranges over the records.                                            *)
LEMMA RecordKeys == Records \in SUBSET KeysOfParts(2)
  BY PathsAre

\* Between two keys.
LEMMA WholeRange ==
    ASSUME StoreOk(store), NEW min \in BoundsOn(Records), NEW max \in BoundsOn(Records)
    PROVE  range(store, Prefix(RecordsNamespace, <<>>), 2, AsBound(min), AsBound(max), "Ascending")
             = Sorted({k \in Saved : KeyAfter(k, min) /\ KeyUntil(k, max)}, KeyBefore)
<1> DEFINE E == Prefix(RecordsNamespace, <<>>)
           T == {k \in Saved : KeyAfter(k, min) /\ KeyUntil(k, max)}
<1>1. E \in Bytes /\ \A k \in Saved : k \in KeysOfParts(2)
  <2>1. E = Prefix(RecordsNamespace, <<>>)
    OBVIOUS
  <2> HIDE DEF E
  <2>2. GoodPrefix(store, E) /\ \A k \in Saved : k \in KeysOfParts(2)
    BY <2>1, SavedTails
  <2>3. QED
    BY <2>2 DEF GoodPrefix
<1>2. E = Prefix(RecordsNamespace, <<>>)
  OBVIOUS
<1> HIDE DEF E
<1> DEFINE m == 2
<1>3. m \in Nat /\ m >= 1 /\ m = 2 /\ Records \in SUBSET KeysOfParts(m)
  BY RecordKeys
<1> HIDE DEF m
<1>4. PICK lo \in Bytes :
        /\ calc_start_bound(E, AsBound(min)) = E \o lo
        /\ \A k \in KeysOfParts(m) : KeyAfter(k, min) <=> ~BytesBefore(joined_key(k), lo)
  BY <1>1, <1>3, StartIs
<1>5. PICK hi \in Ends :
        /\ calc_end_bound(E, AsBound(max)) = EndAt(E, hi)
        /\ \A k \in KeysOfParts(m) : KeyUntil(k, max) <=> UpTo(joined_key(k), hi)
  BY <1>1, <1>3, EndIs
<1>6. \A k \in Saved : k \in T <=> ~BytesBefore(joined_key(k), lo) /\ UpTo(joined_key(k), hi)
  BY <1>1, <1>3, <1>4, <1>5
<1>7. T \in SUBSET Saved
  OBVIOUS
<1> HIDE DEF T
<1>8. MapEach(Trimmed(E, storage_range(store, E \o lo, EndAt(E, hi), "Ascending")),
              LAMBDA record : deserialize_kv(2, record))
        = Sorted(T, KeyBefore)
  BY <1>2, <1>6, <1>7, RecordsFound
<1>9. range(store, E, 2, AsBound(min), AsBound(max), "Ascending")
        = MapEach(Trimmed(E, storage_range(store, E \o lo, EndAt(E, hi), "Ascending")),
                  LAMBDA record : deserialize_kv(2, record))
  BY <1>4, <1>5 DEF range, range_with_prefix
<1>10. range(store, E, 2, AsBound(min), AsBound(max), "Ascending") = Sorted(T, KeyBefore)
  BY <1>8, <1>9
<1>11. QED
  BY <1>2, <1>10 DEF T

-----------------------------------------------------------------------------
(* Between two first parts.                                                *)
PartAfter(p, b) ==
    b = None \/ PartBefore(b[2][1], p[1]) \/ <<b[1], p>> = <<"Inclusive", b[2]>>

PartUntil(p, b) ==
    b = None \/ PartBefore(p[1], b[2][1]) \/ <<b[1], p>> = <<"Inclusive", b[2]>>

LEMMA PartOrder ==
    ASSUME NEW a \in Short, NEW b \in Short
    PROVE  /\ ~PartBefore(a, b) <=> PartBefore(b, a) \/ a = b
           /\ PartBefore(a, b) => a # b
<1>1. Len(a) \in Nat /\ Len(b) \in Nat /\ a \in Bytes /\ b \in Bytes
  BY BytesType DEF Short
<1>2. /\ BytesBefore(a, b) \/ a = b \/ BytesBefore(b, a)
      /\ BytesBefore(a, b) => a # b /\ ~BytesBefore(b, a)
      /\ ~BytesBefore(a, a)
  BY <1>1, BytesOrder
<1>3. QED
  BY <1>1, <1>2 DEF PartBefore

LEMMA JoinedPrefix ==
    ASSUME NEW p \in FirstParts
    PROVE  joined_prefix(p) = to_length_prefixed(p[1]) /\ joined_prefix(p) \in Bytes
<1>1. p \in Seq(Short) /\ p[1] \in Short /\ p = <<p[1]>>
  BY FirstPartsAre
<1> DEFINE f == p[1]
           e == to_length_prefixed(f)
<1>2. f \in Short /\ p = <<f>>
  BY <1>1
<1> HIDE DEF f
<1>3. e \in Bytes
  BY <1>2, PrefixedType
<1>4. <<>> \in Seq(Short) /\ <<f>> \o <<>> = <<f>>
  BY <1>2, EmptySeq, ConcatEmptySeq
<1>5. /\ to_length_prefixed_nested(<<>>) = <<>>
      /\ to_length_prefixed_nested(<<f>> \o <<>>) = e \o to_length_prefixed_nested(<<>>)
  BY <1>2, <1>4, NestedFirst
<1> HIDE DEF e
<1>6. to_length_prefixed_nested(p) = e
  BY <1>2, <1>3, <1>4, <1>5, BytesEmpty
<1>7. joined_prefix(p) = e
  BY <1>3, <1>6, BytesEmpty DEF joined_prefix, namespaces_with_key
<1>8. QED
  BY <1>3, <1>7 DEF e, f

LEMMA PartStart ==
    ASSUME NEW min \in BoundsOn(FirstParts), NEW E \in Bytes
    PROVE  \E lo \in Bytes :
             /\ calc_prefix_start_bound(E, AsPrefixBound(min)) = E \o lo
             /\ \A k \in KeysOfParts(2) :
                  PartAfter(Front(k), min) <=> ~BytesBefore(joined_key(k), lo)
<1> DEFINE Start(lo) == calc_prefix_start_bound(E, AsPrefixBound(min)) = E \o lo
           From(lo) == \A k \in KeysOfParts(2) :
                         PartAfter(Front(k), min) <=> ~BytesBefore(joined_key(k), lo)
<1>a. \A k \in KeysOfParts(2) :
        /\ k[1] \in Short /\ k[2] \in Bytes /\ Front(k) = <<k[1]>>
        /\ joined_key(k) = length_prefixed_with_key(k[1], k[2])
  BY KeyOfTwo
<1>b. \A k \in KeysOfParts(2) : joined_key(k) \in Bytes
  BY <1>a, PrefixedOrder
<1>1. CASE min = None
  <2>1. <<>> \in Bytes /\ E \o <<>> = E
    BY BytesEmpty
  <2>2. calc_prefix_start_bound(E, AsPrefixBound(min)) = E
    BY <1>1 DEF AsPrefixBound, calc_prefix_start_bound
  <2>3. From(<<>>)
    BY <1>b, <1>1, EmptyFirst DEF PartAfter
  <2>4. Start(<<>>)
    BY <2>1, <2>2
  <2> HIDE DEF Start, From
  <2>5. \E lo \in Bytes : Start(lo) /\ From(lo)
    BY <2>1, <2>3, <2>4
  <2>6. QED
    BY <2>5 DEF Start, From
<1>2. CASE min # None
  <2> DEFINE p == min[2]
             f == p[1]
             x == to_length_prefixed(f)
             r == RawBound(min[1], joined_prefix(p))
  <2>1. min[1] \in {"Inclusive", "Exclusive"} /\ p \in FirstParts
    BY <1>2 DEF BoundsOn
  <2>2. f \in Short /\ p = <<f>> /\ joined_prefix(p) = x /\ x \in Bytes
    BY <2>1, FirstPartsAre, JoinedPrefix
  <2>3. AsPrefixBound(min) = r
    BY <1>2 DEF AsPrefixBound
  <2>4. r # None /\ r.kind = min[1] /\ r.limit = x
    BY <2>1, <2>2, RawBoundIs
  <2>5. ASSUME NEW k \in KeysOfParts(2)
        PROVE  /\ ~BytesBefore(joined_key(k), x) <=> PartBefore(f, k[1]) \/ k[1] = f
               /\ ~BytesBefore(joined_key(k), increment_last_byte(x)) <=> PartBefore(f, k[1])
               /\ increment_last_byte(x) \in Bytes
               /\ Front(k) = p <=> k[1] = f
    <3> DEFINE a == k[1]
               y == k[2]
    <3>1. a \in Short /\ y \in Bytes /\ Front(k) = <<a>> /\ joined_key(k) = length_prefixed_with_key(a, y)
      BY <1>a
    <3> HIDE DEF a, y, f, p
    <3>2. /\ BytesBefore(length_prefixed_with_key(a, y), to_length_prefixed(f)) <=> PartBefore(a, f)
          /\ BytesBefore(length_prefixed_with_key(a, y), increment_last_byte(to_length_prefixed(f)))
                <=> a = f \/ PartBefore(a, f)
          /\ increment_last_byte(to_length_prefixed(f)) \in Bytes
      BY <2>2, <3>1, PartBound
    <3>3. ~PartBefore(a, f) <=> PartBefore(f, a) \/ a = f
      BY <2>2, <3>1, PartOrder
    <3>4. PartBefore(f, a) => f # a
      BY <2>2, <3>1, PartOrder
    <3>5. Front(k) = p <=> a = f
      BY <2>2, <3>1
    <3>6. QED
      BY <3>1, <3>2, <3>3, <3>4, <3>5 DEF a
  <2>6. increment_last_byte(x) \in Bytes
    BY <2>2, PartBound, BytesEmpty
  <2> HIDE DEF r, x, f, p
  <2>7. CASE min[1] = "Inclusive"
    <3>1. Start(x)
      BY <2>3, <2>4, <2>7 DEF calc_prefix_start_bound, concat
    <3>2. \A k \in KeysOfParts(2) : PartAfter(Front(k), min) <=> PartBefore(f, k[1]) \/ Front(k) = p
      BY <1>a, <1>2, <2>7 DEF PartAfter, p, f
    <3>3. From(x)
      BY <2>5, <3>2
    <3> HIDE DEF Start, From
    <3>4. \E lo \in Bytes : Start(lo) /\ From(lo)
      BY <2>2, <3>1, <3>3
    <3>5. QED
      BY <3>4 DEF Start, From
  <2>8. CASE min[1] = "Exclusive"
    <3> DEFINE z == increment_last_byte(x)
    <3>1. Start(z)
      BY <2>3, <2>4, <2>8 DEF calc_prefix_start_bound, concat
    <3>2. \A k \in KeysOfParts(2) : PartAfter(Front(k), min) <=> PartBefore(f, k[1])
      BY <1>a, <1>2, <2>8 DEF PartAfter, p, f
    <3>3. From(z)
      BY <2>5, <3>2
    <3>4. z \in Bytes
      BY <2>6
    <3> HIDE DEF Start, From, z
    <3>5. \E lo \in Bytes : Start(lo) /\ From(lo)
      BY <3>1, <3>3, <3>4
    <3>6. QED
      BY <3>5 DEF Start, From
  <2>9. QED
    BY <2>1, <2>7, <2>8
<1>3. QED
  BY <1>1, <1>2

LEMMA PartEnd ==
    ASSUME NEW max \in BoundsOn(FirstParts), NEW E \in Bytes
    PROVE  \E hi \in Ends :
             /\ calc_prefix_end_bound(E, AsPrefixBound(max)) = EndAt(E, hi)
             /\ \A k \in KeysOfParts(2) :
                  PartUntil(Front(k), max) <=> UpTo(joined_key(k), hi)
<1> DEFINE End(hi) == calc_prefix_end_bound(E, AsPrefixBound(max)) = EndAt(E, hi)
           Under(hi) == \A k \in KeysOfParts(2) :
                          PartUntil(Front(k), max) <=> UpTo(joined_key(k), hi)
<1>a. \A k \in KeysOfParts(2) :
        /\ k[1] \in Short /\ k[2] \in Bytes /\ Front(k) = <<k[1]>>
        /\ joined_key(k) = length_prefixed_with_key(k[1], k[2])
  BY KeyOfTwo
<1>b. \A k \in KeysOfParts(2) : joined_key(k) \in Bytes
  BY <1>a, PrefixedOrder
<1>c. ASSUME NEW z \in Bytes
      PROVE  <<z>> \in Ends /\ EndAt(E, <<z>>) = E \o z /\ \A y : UpTo(y, <<z>>) <=> BytesBefore(y, z)
  BY DEF Ends, EndAt, UpTo
<1>1. CASE max = None
  <2>1. <<>> \in Ends
    BY DEF Ends
  <2>2. End(<<>>)
    BY <1>1 DEF AsPrefixBound, calc_prefix_end_bound, EndAt
  <2>3. Under(<<>>)
    BY <1>1 DEF PartUntil, UpTo
  <2> HIDE DEF End, Under
  <2>4. \E hi \in Ends : End(hi) /\ Under(hi)
    BY <2>1, <2>2, <2>3
  <2>5. QED
    BY <2>4 DEF End, Under
<1>2. CASE max # None
  <2> DEFINE p == max[2]
             f == p[1]
             x == to_length_prefixed(f)
             r == RawBound(max[1], joined_prefix(p))
  <2>1. max[1] \in {"Inclusive", "Exclusive"} /\ p \in FirstParts
    BY <1>2 DEF BoundsOn
  <2>2. f \in Short /\ p = <<f>> /\ joined_prefix(p) = x /\ x \in Bytes
    BY <2>1, FirstPartsAre, JoinedPrefix
  <2>3. AsPrefixBound(max) = r
    BY <1>2 DEF AsPrefixBound
  <2>4. r # None /\ r.kind = max[1] /\ r.limit = x
    BY <2>1, <2>2, RawBoundIs
  <2>5. ASSUME NEW k \in KeysOfParts(2)
        PROVE  /\ BytesBefore(joined_key(k), x) <=> PartBefore(k[1], f)
               /\ BytesBefore(joined_key(k), increment_last_byte(x))
                    <=> PartBefore(k[1], f) \/ k[1] = f
               /\ increment_last_byte(x) \in Bytes
               /\ Front(k) = p <=> k[1] = f
    <3> DEFINE a == k[1]
               y == k[2]
    <3>1. a \in Short /\ y \in Bytes /\ Front(k) = <<a>> /\ joined_key(k) = length_prefixed_with_key(a, y)
      BY <1>a
    <3> HIDE DEF a, y, f, p
    <3>2. /\ BytesBefore(length_prefixed_with_key(a, y), to_length_prefixed(f)) <=> PartBefore(a, f)
          /\ BytesBefore(length_prefixed_with_key(a, y), increment_last_byte(to_length_prefixed(f)))
                <=> a = f \/ PartBefore(a, f)
          /\ increment_last_byte(to_length_prefixed(f)) \in Bytes
      BY <2>2, <3>1, PartBound
    <3>5. Front(k) = p <=> a = f
      BY <2>2, <3>1
    <3>6. QED
      BY <3>1, <3>2, <3>5 DEF a
  <2>6. increment_last_byte(x) \in Bytes
    BY <2>2, PartBound, BytesEmpty
  <2> HIDE DEF r, x, f, p
  <2>7. CASE max[1] = "Exclusive"
    <3>1. calc_prefix_end_bound(E, AsPrefixBound(max)) = E \o x
      BY <2>3, <2>4, <2>7 DEF calc_prefix_end_bound, concat
    <3>2. \A k \in KeysOfParts(2) : PartUntil(Front(k), max) <=> PartBefore(k[1], f)
      BY <1>a, <1>2, <2>7 DEF PartUntil, p, f
    <3>3. Under(<<x>>)
      BY <1>c, <2>2, <2>5, <3>2
    <3>4. End(<<x>>) /\ <<x>> \in Ends
      BY <1>c, <2>2, <3>1
    <3> HIDE DEF End, Under
    <3>5. \E hi \in Ends : End(hi) /\ Under(hi)
      BY <3>3, <3>4
    <3>6. QED
      BY <3>5 DEF End, Under
  <2>8. CASE max[1] = "Inclusive"
    <3> DEFINE z == increment_last_byte(x)
    <3>1. calc_prefix_end_bound(E, AsPrefixBound(max)) = E \o z
      BY <2>3, <2>4, <2>8 DEF calc_prefix_end_bound, concat
    <3>2. \A k \in KeysOfParts(2) :
            PartUntil(Front(k), max) <=> PartBefore(k[1], f) \/ Front(k) = p
      BY <1>a, <1>2, <2>8 DEF PartUntil, p, f
    <3>3. z \in Bytes
      BY <2>6
    <3>4. Under(<<z>>)
      BY <1>c, <2>5, <3>2, <3>3
    <3>5. End(<<z>>) /\ <<z>> \in Ends
      BY <1>c, <3>1, <3>3
    <3> HIDE DEF End, Under
    <3>6. \E hi \in Ends : End(hi) /\ Under(hi)
      BY <3>4, <3>5
    <3>7. QED
      BY <3>6 DEF End, Under
  <2>9. QED
    BY <2>1, <2>7, <2>8
<1>3. QED
  BY <1>1, <1>2

LEMMA PrefixesRange ==
    ASSUME StoreOk(store), NEW min \in BoundsOn(FirstParts), NEW max \in BoundsOn(FirstParts)
    PROVE  prefix_range(store, RecordsNamespace, 2, AsPrefixBound(min), AsPrefixBound(max), "Ascending")
             = Sorted({k \in Saved : PartAfter(Front(k), min) /\ PartUntil(Front(k), max)}, KeyBefore)
<1> DEFINE E == Prefix(RecordsNamespace, <<>>)
           T == {k \in Saved : PartAfter(Front(k), min) /\ PartUntil(Front(k), max)}
<1>1. E \in Bytes /\ \A k \in Saved : k \in KeysOfParts(2)
  <2>1. E = Prefix(RecordsNamespace, <<>>)
    OBVIOUS
  <2> HIDE DEF E
  <2>2. GoodPrefix(store, E) /\ \A k \in Saved : k \in KeysOfParts(2)
    BY <2>1, SavedTails
  <2>3. QED
    BY <2>2 DEF GoodPrefix
<1>2. E = Prefix(RecordsNamespace, <<>>)
  OBVIOUS
<1> HIDE DEF E
<1>4. PICK lo \in Bytes :
        /\ calc_prefix_start_bound(E, AsPrefixBound(min)) = E \o lo
        /\ \A k \in KeysOfParts(2) : PartAfter(Front(k), min) <=> ~BytesBefore(joined_key(k), lo)
  BY <1>1, PartStart
<1>5. PICK hi \in Ends :
        /\ calc_prefix_end_bound(E, AsPrefixBound(max)) = EndAt(E, hi)
        /\ \A k \in KeysOfParts(2) : PartUntil(Front(k), max) <=> UpTo(joined_key(k), hi)
  BY <1>1, PartEnd
<1>6. \A k \in Saved : k \in T <=> ~BytesBefore(joined_key(k), lo) /\ UpTo(joined_key(k), hi)
  BY <1>1, <1>4, <1>5
<1>7. T \in SUBSET Saved
  OBVIOUS
<1> HIDE DEF T
<1>8. MapEach(Trimmed(E, storage_range(store, E \o lo, EndAt(E, hi), "Ascending")),
              LAMBDA record : deserialize_kv(2, record))
        = Sorted(T, KeyBefore)
  BY <1>2, <1>6, <1>7, RecordsFound
<1>9. prefix_range(store, RecordsNamespace, 2, AsPrefixBound(min), AsPrefixBound(max), "Ascending")
        = MapEach(Trimmed(E, storage_range(store, E \o lo, EndAt(E, hi), "Ascending")),
                  LAMBDA record : deserialize_kv(2, record))
  <2>1. namespaces_with_key(<<RecordsNamespace>>, <<>>) = E
    <3>1. <<RecordsNamespace>> \in Seq(Short) /\ <<RecordsNamespace>> \o <<>> = <<RecordsNamespace>>
      BY NamespaceFacts, ConcatEmptySeq
    <3>2. QED
      BY <1>2, <3>1 DEF Prefix, nested_namespaces_with_key
  <2>2. QED
    BY <1>4, <1>5, <2>1 DEF prefix_range, namespaced_prefix_range
<1>10. prefix_range(store, RecordsNamespace, 2, AsPrefixBound(min), AsPrefixBound(max), "Ascending") = Sorted(T, KeyBefore)
  BY <1>8, <1>9
<1>11. QED
  BY <1>2, <1>10 DEF T

LEMMA BelowTail ==
    ASSUME NEW first \in FirstParts, NEW x \in Bytes
    PROVE  /\ first \o <<x>> \in KeysOfParts(2)
           /\ Front(first \o <<x>>) = first /\ Last(first \o <<x>>) = x
           /\ joined_key(first \o <<x>>) = length_prefixed_with_key(first[1], x)
           /\ Prefix(RecordsNamespace, first) \o x
                = length_prefixed_with_key(RecordsNamespace, joined_key(first \o <<x>>))
<1> DEFINE a == first[1]
           k == first \o <<x>>
           t == <<x>>
           m == 1
<1>1. first \in Seq(Short) /\ Len(first) = 1 /\ a \in Short /\ first = <<a>> /\ a \in Bytes
  BY FirstPartsAre DEF Short
<1>2. t \in KeysOfParts(m) /\ joined_key(t) = x /\ m \in Nat /\ m >= 1
  BY OnePart
<1>3. RecordsNamespace \in Short
  BY NamespaceFacts
<1>4. k = first \o t /\ m = 1 /\ t \in Seq(Bytes) /\ Len(t) = 1 /\ t[1] = x
  OBVIOUS
<1> HIDE DEF t, m, k, a
<1>5. /\ first \o t \in KeysOfParts(Len(first) + m)
      /\ Prefix(RecordsNamespace, first) \o joined_key(t)
           = length_prefixed_with_key(RecordsNamespace, joined_key(first \o t))
  BY <1>1, <1>2, <1>3, SubTail
<1>6. k \in KeysOfParts(2)
  <2>1. Len(first) + m = 2
    BY <1>1, <1>4
  <2>2. QED
    BY <1>4, <1>5, <2>1
<1>7. k[1] = a /\ k[2] = x
  <2>1. (<<a>> \o t)[1] = a /\ \A i \in 1 .. Len(t) : (<<a>> \o t)[i + 1] = t[i]
    BY <1>1, <1>4, SeqFirst
  <2>2. k = <<a>> \o t
    BY <1>1, <1>4
  <2>3. 1 \in 1 .. Len(t)
    BY <1>4
  <2>4. k[1 + 1] = t[1]
    BY <2>1, <2>2, <2>3
  <2>5. k[2] = t[1]
    BY <2>4
  <2>6. QED
    BY <1>4, <2>1, <2>2, <2>5
<1>8. /\ Front(k) = <<k[1]>> /\ Last(k) = k[2]
      /\ joined_key(k) = length_prefixed_with_key(k[1], k[2])
  BY <1>6, KeyOfTwo
<1>9. /\ k \in KeysOfParts(2) /\ Front(k) = first /\ Last(k) = x
      /\ joined_key(k) = length_prefixed_with_key(a, x)
      /\ Prefix(RecordsNamespace, first) \o x
           = length_prefixed_with_key(RecordsNamespace, joined_key(k))
  BY <1>1, <1>2, <1>4, <1>5, <1>6, <1>7, <1>8
<1>10. QED
  BY <1>9 DEF k, t, a

LEMMA BelowTails ==
    ASSUME StoreOk(store), NEW first \in FirstParts,
           NEW E, E = Prefix(RecordsNamespace, first)
    PROVE  /\ \A x \in Tails(store, E) :
                /\ first \o <<x>> \in Saved /\ Front(first \o <<x>>) = first
                /\ Last(first \o <<x>>) = x /\ store[E \o x] = record_at(first \o <<x>>)
           /\ \A k \in Saved : Front(k) = first =>
                Last(k) \in Tails(store, E) /\ first \o <<Last(k)>> = k
           /\ \A x, y \in Bytes :
                BytesBefore(x, y) <=> KeyBefore(first \o <<x>>, first \o <<y>>)
<1>1. RecordsNamespace \in Namespaces /\ RecordsNamespace \in Short
  BY NamespaceFacts
<1>2. \A k \in Records : /\ k \in KeysOfParts(2) /\ joined_key(k) \in Bytes
                         /\ RecordPath[k] = length_prefixed_with_key(RecordsNamespace, joined_key(k))
  BY PathsAre
<1>3. \A k \in Records : record_at(k) = get(store, RecordPath[k])
  BY DEF record_at, may_load
<1>4. Storage(store)
  BY DEF StoreOk
<1>5. \A x \in Bytes :
        /\ first \o <<x>> \in KeysOfParts(2)
        /\ Front(first \o <<x>>) = first /\ Last(first \o <<x>>) = x
        /\ joined_key(first \o <<x>>) = length_prefixed_with_key(first[1], x)
        /\ E \o x = length_prefixed_with_key(RecordsNamespace, joined_key(first \o <<x>>))
  BY BelowTail
<1>6. ASSUME NEW x \in Tails(store, E)
      PROVE  /\ first \o <<x>> \in Saved /\ Front(first \o <<x>>) = first
             /\ Last(first \o <<x>>) = x /\ store[E \o x] = record_at(first \o <<x>>)
  <2> DEFINE k == first \o <<x>>
             y == E \o x
             r == joined_key(k)
  <2>1. /\ x \in Bytes /\ y \in DOMAIN store /\ k \in KeysOfParts(2)
        /\ Front(k) = first /\ Last(k) = x
        /\ y = length_prefixed_with_key(RecordsNamespace, r)
    BY <1>5 DEF Tails
  <2> HIDE DEF k, y
  <2>2. 2 \in Nat /\ 2 >= 1
    OBVIOUS
  <2>3. r \in Bytes
    BY <2>1, <2>2, JoinedType
  <2>4. PICK j \in Records : y = RecordPath[j] /\ r = joined_key(j)
    BY <1>1, <2>1, <2>3, OfNamespace
  <2>5. j = k
    BY <1>2, <2>1, <2>2, <2>4, JoinedOrder
  <2>6. store[y] = record_at(k) /\ record_at(k) # None
    BY <1>3, <1>4, <2>1, <2>4, <2>5 DEF get, Storage
  <2>7. k \in Saved
    BY <2>4, <2>5, <2>6 DEF Saved
  <2>8. QED
    BY <2>1, <2>6, <2>7 DEF k, y
<1>7. ASSUME NEW k \in Saved, Front(k) = first
      PROVE  Last(k) \in Tails(store, E) /\ first \o <<Last(k)>> = k
  <2> DEFINE x == Last(k)
  <2>1. k \in Records /\ record_at(k) # None
    BY DEF Saved
  <2>2. /\ k[2] \in Bytes /\ Front(k) = <<k[1]>> /\ Last(k) = k[2]
        /\ k = <<k[1]>> \o <<k[2]>>
    BY <1>2, <2>1, KeyOfTwo
  <2>3. x \in Bytes /\ first \o <<x>> = k
    BY <1>7, <2>2
  <2> HIDE DEF x
  <2>4. E \o x = RecordPath[k]
    BY <1>2, <1>5, <2>1, <2>3
  <2>5. RecordPath[k] \in DOMAIN store
    BY <1>3, <2>1 DEF get
  <2>6. x \in Tails(store, E)
    BY <2>3, <2>4, <2>5 DEF Tails
  <2>7. QED
    BY <2>3, <2>6 DEF x
<1>8. ASSUME NEW x \in Bytes, NEW y \in Bytes
      PROVE  BytesBefore(x, y) <=> KeyBefore(first \o <<x>>, first \o <<y>>)
  <2> DEFINE j == first \o <<x>>
             k == first \o <<y>>
             a == first[1]
  <2>1. /\ j \in KeysOfParts(2) /\ k \in KeysOfParts(2) /\ 2 \in Nat /\ 2 >= 1
        /\ joined_key(j) = length_prefixed_with_key(a, x)
        /\ joined_key(k) = length_prefixed_with_key(a, y)
    BY <1>5
  <2>2. a \in Short
    BY FirstPartsAre
  <2> HIDE DEF j, k, a
  <2>3. BytesBefore(joined_key(j), joined_key(k)) <=> KeyBefore(j, k)
    BY <2>1, JoinedOrder
  <2>4. BytesBefore(length_prefixed_with_key(a, x), length_prefixed_with_key(a, y))
          <=> PartBefore(a, a) \/ (a = a /\ BytesBefore(x, y))
    BY <2>2, PrefixedOrder
  <2>5. ~PartBefore(a, a)
    BY <2>2, PartOrder
  <2>6. BytesBefore(x, y) <=> KeyBefore(j, k)
    BY <2>1, <2>3, <2>4, <2>5
  <2>7. QED
    BY <2>6 DEF j, k
<1>9. QED
  BY <1>6, <1>7, <1>8

\* From a last part on, backwards.
LEMMA BelowRange ==
    ASSUME StoreOk(store), NEW first \in FirstParts,
           NEW min \in BoundsOn({<<Last(k)>> : k \in Records}),
           NEW T, T = {k \in Saved : Front(k) = first /\ KeyAfter(<<Last(k)>>, min)},
           NEW answer, answer = Reverse(Sorted(T, KeyBefore))
    PROVE  range(store, Prefix(RecordsNamespace, first), 1, AsBound(min), None, "Descending")
             = [i \in 1 .. Len(answer) |-> <<<<Last(answer[i][1])>>, answer[i][2]>>]
<1> DEFINE E == Prefix(RecordsNamespace, first)
           m == 1
           K == {<<Last(k)>> : k \in Records}
<1>1. m \in Nat /\ m >= 1 /\ m = 1 /\ E = Prefix(RecordsNamespace, first)
  OBVIOUS
<1>2. GoodPrefix(store, E) /\ E \in Bytes
  BY FirstPartPrefix DEF GoodPrefix
<1> HIDE DEF E, m
<1>3. K \in SUBSET KeysOfParts(m)
  <2>1. \A k \in Records : Last(k) \in Bytes
    BY PathsAre, KeyOfTwo
  <2>2. QED
    BY <1>1, <2>1, OnePart
<1>4. min \in BoundsOn(K)
  OBVIOUS
<1> HIDE DEF K
<1>5. PICK lo \in Bytes :
        /\ calc_start_bound(E, AsBound(min)) = E \o lo
        /\ \A k \in KeysOfParts(m) : KeyAfter(k, min) <=> ~BytesBefore(joined_key(k), lo)
  BY <1>1, <1>2, <1>3, <1>4, StartIs
<1>6. \A x \in Bytes : KeyAfter(<<x>>, min) <=> ~BytesBefore(x, lo)
  BY <1>1, <1>5, OnePart
<1> DEFINE hi == <<>>
           S == TailsIn(store, E, lo, hi)
           Q == KeyOrder(T)
           c == Cardinality(T)
           down == Trimmed(E, storage_range(store, E \o lo, EndAt(E, hi), "Descending"))
           f == [x \in S |-> first \o <<x>>]
<1>7. hi \in Ends /\ calc_end_bound(E, AsBound(None)) = EndAt(E, hi) /\ \A x : UpTo(x, hi)
  BY DEF Ends, AsBound, calc_end_bound, EndAt, UpTo
<1> HIDE DEF hi
<1>8. /\ \A x \in Tails(store, E) :
           /\ first \o <<x>> \in Saved /\ Front(first \o <<x>>) = first
           /\ Last(first \o <<x>>) = x /\ store[E \o x] = record_at(first \o <<x>>)
      /\ \A k \in Saved : Front(k) = first =>
           Last(k) \in Tails(store, E) /\ first \o <<Last(k)>> = k
      /\ \A x, y \in Bytes : BytesBefore(x, y) <=> KeyBefore(first \o <<x>>, first \o <<y>>)
  BY <1>1, BelowTails
<1>9. \A x \in S : x \in Tails(store, E) /\ x \in Bytes /\ ~BytesBefore(x, lo)
  BY DEF TailsIn, Tails
<1>10. ASSUME NEW x \in S
       PROVE  /\ first \o <<x>> \in T /\ Last(first \o <<x>>) = x
              /\ store[E \o x] = record_at(first \o <<x>>)
  <2> DEFINE k == first \o <<x>>
  <2>1. k \in Saved /\ Front(k) = first /\ Last(k) = x /\ store[E \o x] = record_at(k)
    BY <1>8, <1>9
  <2>2. KeyAfter(<<x>>, min)
    BY <1>6, <1>9
  <2> HIDE DEF k
  <2>3. k \in T
    BY <2>1, <2>2
  <2>4. QED
    BY <2>1, <2>3 DEF k
<1>11. ASSUME NEW k \in T
       PROVE  Last(k) \in S /\ first \o <<Last(k)>> = k
  <2>1. k \in Saved /\ Front(k) = first /\ KeyAfter(<<Last(k)>>, min)
    OBVIOUS
  <2>2. Last(k) \in Tails(store, E) /\ first \o <<Last(k)>> = k
    BY <1>8, <2>1
  <2>3. Last(k) \in Bytes
    BY <2>2 DEF Tails
  <2>4. ~BytesBefore(Last(k), lo)
    BY <1>6, <2>1, <2>3
  <2>5. QED
    BY <1>7, <2>2, <2>4 DEF TailsIn
<1>12. S = TailsIn(store, E, lo, hi)
  OBVIOUS
<1> HIDE DEF S
<1>13. f \in [S -> T] /\ \A x \in S : f[x] = first \o <<x>>
  BY <1>10
<1> HIDE DEF f
<1>14. \A y \in T : \E x \in S : f[x] = y
  BY <1>11, <1>13
<1>15. \A x, y \in S : BytesBefore(x, y) <=> <<f[x], f[y]>> \in Q
  <2>1. ASSUME NEW x \in S, NEW y \in S
        PROVE  BytesBefore(x, y) <=> <<f[x], f[y]>> \in Q
    <3>1. f[x] \in T /\ f[y] \in T
      BY <1>13
    <3>2. <<f[x], f[y]>> \in Q <=> KeyBefore(f[x], f[y])
      BY <3>1 DEF KeyOrder
    <3>3. KeyBefore(f[x], f[y]) <=> KeyBefore(first \o <<x>>, first \o <<y>>)
      BY <1>13
    <3>4. BytesBefore(x, y) <=> KeyBefore(first \o <<x>>, first \o <<y>>)
      BY <1>8, <1>9
    <3>5. QED
      BY <3>2, <3>3, <3>4
  <2>2. QED
    BY <2>1
<1> HIDE DEF Q
<1>16. /\ c \in Nat
       /\ \E l \in [1 .. c -> S] :
            /\ down = [i \in 1 .. c |-> <<l[c - i + 1], store[E \o l[c - i + 1]]>>]
            /\ Ranked(T, Q) = [i \in 1 .. c |-> f[l[i]]]
  <2>1. Decodes(store, E, lo, hi, S, T, Q, f)
    BY ONLY StoreOk(store), <1>2, lo \in Bytes, <1>7, <1>12, <1>13, <1>14, <1>15, RangeDecoded
  <2>2. QED
    BY <2>1 DEF Decodes
<1> HIDE DEF c
<1>17. PICK l \in [1 .. c -> S] :
         /\ down = [i \in 1 .. c |-> <<l[c - i + 1], store[E \o l[c - i + 1]]>>]
         /\ Ranked(T, Q) = [i \in 1 .. c |-> f[l[i]]]
  BY <1>16
<1> HIDE DEF down
<1> DEFINE sorted == InOrder(T, KeyBefore)
           g == Sorted(T, KeyBefore)
<1>18. sorted = [i \in 1 .. c |-> f[l[i]]]
  BY <1>17, InKeyOrder DEF Q
<1>19. g = [i \in 1 .. Len(sorted) |-> <<sorted[i], record_at(sorted[i])>>]
  BY DEF Sorted
<1> HIDE DEF sorted, g
<1>20. Len(sorted) = c /\ \A i \in 1 .. c : sorted[i] = f[l[i]]
  BY <1>16, <1>18
<1>21. Len(g) = c /\ \A i \in 1 .. c : g[i] = <<f[l[i]], record_at(f[l[i]])>>
  BY <1>16, <1>19, <1>20
<1>22. answer = [i \in 1 .. c |-> g[(c - i) + 1]]
  BY <1>21 DEF Reverse, g
<1>23. \A i \in 1 .. c : c - i + 1 \in 1 .. c
  BY <1>16
<1>24. Len(answer) = c /\ \A i \in 1 .. c : answer[i] = g[c - i + 1]
  <2> DEFINE h == [i \in 1 .. c |-> g[(c - i) + 1]]
  <2>1. Len(h) = c /\ \A i \in 1 .. c : h[i] = g[c - i + 1]
    BY <1>16
  <2>2. answer = h
    BY <1>22
  <2> HIDE DEF h
  <2>3. QED
    BY ONLY <2>1, <2>2
<1>25. ASSUME NEW i \in 1 .. c
       PROVE  /\ Last(answer[i][1]) = l[c - i + 1]
              /\ answer[i][2] = store[E \o l[c - i + 1]]
  <2> DEFINE x == l[c - i + 1]
             e == answer[i]
  <2>1. x \in S
    BY <1>17, <1>23
  <2>2. e = <<f[x], record_at(f[x])>>
    BY <1>21, <1>23, <1>24
  <2> HIDE DEF x, e
  <2>3. e[1] = f[x] /\ e[2] = record_at(f[x])
    BY <2>2
  <2>4. f[x] = first \o <<x>> /\ Last(f[x]) = x /\ store[E \o x] = record_at(f[x])
    BY <1>10, <1>13, <2>1
  <2>5. Last(e[1]) = x /\ e[2] = store[E \o x]
    BY <2>3, <2>4
  <2>6. QED
    BY <2>5 DEF x, e
<1> DEFINE u == [i \in 1 .. c |-> <<l[c - i + 1], store[E \o l[c - i + 1]]>>]
<1>26. u = down
  BY <1>17
<1>27. Len(u) = c /\ \A i \in 1 .. c : u[i][1] = l[c - i + 1] /\ u[i][2] = store[E \o l[c - i + 1]]
  BY <1>16
<1> HIDE DEF u
<1>28. range(store, E, 1, AsBound(min), None, "Descending")
         = MapEach(down, LAMBDA record : deserialize_kv(1, record))
  BY <1>5, <1>7 DEF range, range_with_prefix, down, AsBound
<1>29. MapEach(u, LAMBDA record : deserialize_kv(1, record))
         = [i \in 1 .. Len(u) |-> <<<<u[i][1]>>, u[i][2]>>]
  BY DEF MapEach, deserialize_kv, from_vec
<1>30. range(store, E, 1, AsBound(min), None, "Descending")
         = [i \in 1 .. c |-> <<<<l[c - i + 1]>>, store[E \o l[c - i + 1]]>>]
  BY <1>26, <1>27, <1>28, <1>29
<1>31. [i \in 1 .. Len(answer) |-> <<<<Last(answer[i][1])>>, answer[i][2]>>]
         = [i \in 1 .. c |-> <<<<l[c - i + 1]>>, store[E \o l[c - i + 1]]>>]
  BY <1>24, <1>25
<1>32. QED
  BY <1>1, <1>30, <1>31

-----------------------------------------------------------------------------
LEMMA StoreRanges ==
    ASSUME StoreInv
    PROVE  RangesReadRecords
<1>1. StoreOk(store)
  BY DEF StoreInv
<1>2. ASSUME NEW b \in BoundPairs(Records)
      PROVE  range(store, Prefix(RecordsNamespace, <<>>), 2, AsBound(b[1]), AsBound(b[2]), "Ascending")
               = Sorted({k \in Saved : After(k, b[1], KeyBefore) /\ Until(k, b[2], KeyBefore)}, KeyBefore)
  <2> DEFINE min == b[1]
             max == b[2]
  <2>1. min \in BoundsOn(Records) /\ max \in BoundsOn(Records)
    BY DEF BoundPairs
  <2> HIDE DEF min, max
  <2>2. range(store, Prefix(RecordsNamespace, <<>>), 2, AsBound(min), AsBound(max), "Ascending")
          = Sorted({k \in Saved : KeyAfter(k, min) /\ KeyUntil(k, max)}, KeyBefore)
    BY <1>1, <2>1, WholeRange
  <2>3. {k \in Saved : KeyAfter(k, min) /\ KeyUntil(k, max)}
          = {k \in Saved : After(k, min, KeyBefore) /\ Until(k, max, KeyBefore)}
    BY DEF KeyAfter, KeyUntil, After, Until
  <2>4. QED
    BY <2>2, <2>3 DEF min, max
<1>3. ASSUME NEW first \in FirstParts, NEW min \in BoundsOn({<<Last(k)>> : k \in Records})
      PROVE  range(store, Prefix(RecordsNamespace, first), 1, AsBound(min), None, "Descending")
               = LET answer == Reverse(Sorted({k \in {k \in Saved : Front(k) = first} :
                                   After(<<Last(k)>>, min, KeyBefore)}, KeyBefore))
                 IN  [i \in 1 .. Len(answer) |-> <<<<Last(answer[i][1])>>, answer[i][2]>>]
  <2> DEFINE T == {k \in Saved : Front(k) = first /\ KeyAfter(<<Last(k)>>, min)}
             U == {k \in {k \in Saved : Front(k) = first} : After(<<Last(k)>>, min, KeyBefore)}
             answer == Reverse(Sorted(U, KeyBefore))
  <2>1. T = U
    BY DEF KeyAfter, After
  <2>2. T = {k \in Saved : Front(k) = first /\ KeyAfter(<<Last(k)>>, min)}
    OBVIOUS
  <2> HIDE DEF U, T
  <2>3. answer = Reverse(Sorted(T, KeyBefore))
    BY <2>1
  <2> HIDE DEF answer
  <2>4. range(store, Prefix(RecordsNamespace, first), 1, AsBound(min), None, "Descending")
          = [i \in 1 .. Len(answer) |-> <<<<Last(answer[i][1])>>, answer[i][2]>>]
    BY <1>1, <2>2, <2>3, BelowRange
  <2>5. QED
    BY <2>4 DEF answer, U
<1>4. ASSUME NEW b \in BoundPairs(FirstParts)
      PROVE  prefix_range(store, RecordsNamespace, 2, AsPrefixBound(b[1]), AsPrefixBound(b[2]),
                          "Ascending")
               = Sorted({k \in Saved :
                       /\ After(Front(k), b[1], LAMBDA p, q : PartBefore(p[1], q[1]))
                       /\ Until(Front(k), b[2], LAMBDA p, q : PartBefore(p[1], q[1]))},
                    KeyBefore)
  <2> DEFINE min == b[1]
             max == b[2]
  <2>1. min \in BoundsOn(FirstParts) /\ max \in BoundsOn(FirstParts)
    BY DEF BoundPairs
  <2> HIDE DEF min, max
  <2>2. prefix_range(store, RecordsNamespace, 2, AsPrefixBound(min), AsPrefixBound(max), "Ascending")
          = Sorted({k \in Saved : PartAfter(Front(k), min) /\ PartUntil(Front(k), max)}, KeyBefore)
    BY <1>1, <2>1, PrefixesRange
  <2>3. {k \in Saved : PartAfter(Front(k), min) /\ PartUntil(Front(k), max)}
          = {k \in Saved : /\ After(Front(k), min, LAMBDA p, q : PartBefore(p[1], q[1]))
                           /\ Until(Front(k), max, LAMBDA p, q : PartBefore(p[1], q[1]))}
    BY DEF PartAfter, PartUntil, After, Until
  <2>4. QED
    BY <2>2, <2>3 DEF min, max
<1>5. QED
  BY <1>2, <1>3, <1>4 DEF RangesReadRecords

\* A range over the records, between two keys, below a first part or between two first
\* parts, answers the saved records within its bounds, all of them, in their order
\* (range_with_prefix, calc_start_bound, calc_end_bound, increment_last_byte).
THEOREM RangesFindRecords == Spec => []RangesReadRecords
<1>1. StoreInv => RangesReadRecords
  BY StoreRanges
<1>2. QED
  BY <1>1, StoreIsConsistent, PTL

-----------------------------------------------------------------------------
(* Some of the saved records, in an order that is a set of pairs.          *)
Listed(T, Q) ==
    [i \in 1 .. Cardinality(T) |-> <<Ranked(T, Q)[i], record_at(Ranked(T, Q)[i])>>]

MultiOrder(T) == {p \in T \X T : MultiBefore(p[1], p[2])}

UniqueOrder(T) == {p \in T \X T : UniqueBefore(p[1], p[2])}

LEMMA InMultiOrder ==
    ASSUME NEW T
    PROVE  InOrder(T, MultiBefore) = Ranked(T, MultiOrder(T))
<1> DEFINE Lower(x) == {y \in T : MultiBefore(y, x)}
           Other(x) == LowerIn(T, MultiOrder(T), x)
<1>1. \A x \in T : Lower(x) = Other(x)
  BY DEF LowerIn, MultiOrder
<1>2. Ranked(T, MultiOrder(T))
        = [i \in 1 .. Cardinality(T) |-> CHOOSE x \in T : Cardinality(Other(x)) = i - 1]
  BY DEF Ranked
<1>3. InOrder(T, MultiBefore)
        = [i \in 1 .. Cardinality(T) |-> CHOOSE x \in T : Cardinality(Lower(x)) = i - 1]
  BY DEF InOrder
<1> HIDE DEF Lower, Other
<1>4. \A i : (CHOOSE x \in T : Cardinality(Lower(x)) = i - 1)
               = (CHOOSE x \in T : Cardinality(Other(x)) = i - 1)
  BY <1>1
<1>5. QED
  BY <1>2, <1>3, <1>4

LEMMA InUniqueOrder ==
    ASSUME NEW T
    PROVE  InOrder(T, UniqueBefore) = Ranked(T, UniqueOrder(T))
<1> DEFINE Lower(x) == {y \in T : UniqueBefore(y, x)}
           Other(x) == LowerIn(T, UniqueOrder(T), x)
<1>1. \A x \in T : Lower(x) = Other(x)
  BY DEF LowerIn, UniqueOrder
<1>2. Ranked(T, UniqueOrder(T))
        = [i \in 1 .. Cardinality(T) |-> CHOOSE x \in T : Cardinality(Other(x)) = i - 1]
  BY DEF Ranked
<1>3. InOrder(T, UniqueBefore)
        = [i \in 1 .. Cardinality(T) |-> CHOOSE x \in T : Cardinality(Lower(x)) = i - 1]
  BY DEF InOrder
<1> HIDE DEF Lower, Other
<1>4. \A i : (CHOOSE x \in T : Cardinality(Lower(x)) = i - 1)
               = (CHOOSE x \in T : Cardinality(Other(x)) = i - 1)
  BY <1>1
<1>5. QED
  BY <1>2, <1>3, <1>4

LEMMA SortedIs ==
    ASSUME NEW T, Cardinality(T) \in Nat
    PROVE  /\ Sorted(T, KeyBefore) = Listed(T, KeyOrder(T))
           /\ Sorted(T, MultiBefore) = Listed(T, MultiOrder(T))
           /\ Sorted(T, UniqueBefore) = Listed(T, UniqueOrder(T))
<1> DEFINE c == Cardinality(T)
<1>1. ASSUME NEW Q
      PROVE  Len(Ranked(T, Q)) = c
  BY DEF Ranked
<1> DEFINE a == Ranked(T, KeyOrder(T))
           b == Ranked(T, MultiOrder(T))
           d == Ranked(T, UniqueOrder(T))
<1>2. Len(a) = c /\ Len(b) = c /\ Len(d) = c
  BY <1>1
<1>3. /\ a = InOrder(T, KeyBefore) /\ b = InOrder(T, MultiBefore)
      /\ d = InOrder(T, UniqueBefore)
  BY InKeyOrder, InMultiOrder, InUniqueOrder
<1> HIDE DEF a, b, d, c
<1>4. Sorted(T, KeyBefore) = [i \in 1 .. Len(a) |-> <<a[i], record_at(a[i])>>]
  BY <1>3 DEF Sorted
<1>5. Sorted(T, MultiBefore) = [i \in 1 .. Len(b) |-> <<b[i], record_at(b[i])>>]
  BY <1>3 DEF Sorted
<1>6. Sorted(T, UniqueBefore) = [i \in 1 .. Len(d) |-> <<d[i], record_at(d[i])>>]
  BY <1>3 DEF Sorted
<1>7. /\ Listed(T, KeyOrder(T)) = [i \in 1 .. c |-> <<a[i], record_at(a[i])>>]
      /\ Listed(T, MultiOrder(T)) = [i \in 1 .. c |-> <<b[i], record_at(b[i])>>]
      /\ Listed(T, UniqueOrder(T)) = [i \in 1 .. c |-> <<d[i], record_at(d[i])>>]
  BY DEF Listed, a, b, d, c
<1>8. QED
  BY <1>2, <1>4, <1>5, <1>6, <1>7

MultiRead(up) ==
    MapEach(up, LAMBDA record : deserialize_multi_kv(store, records, record))

UniqueRead(up) ==
    MapEach(up, LAMBDA record : deserialize_unique_kv(records, record))

MultiReads(S, E, f) ==
    \A x \in S : deserialize_multi_kv(store, records, <<x, store[E \o x]>>)
                    = <<f[x], record_at(f[x])>>

UniqueReads(S, E, f) ==
    \A x \in S : deserialize_unique_kv(records, <<x, store[E \o x]>>)
                    = <<f[x], record_at(f[x])>>

\* A range over an index answers the records its entries are of, in the order of the entries.
LEMMA IndexFound ==
    ASSUME StoreOk(store), NEW E, GoodPrefix(store, E), NEW lo \in Bytes, NEW hi \in Ends,
           NEW S, S = TailsIn(store, E, lo, hi), NEW T, NEW Q,
           NEW f \in [S -> T], \A y \in T : \E x \in S : f[x] = y,
           \A x, y \in S : BytesBefore(x, y) <=> <<f[x], f[y]>> \in Q,
           NEW up, up = Trimmed(E, storage_range(store, E \o lo, EndAt(E, hi), "Ascending"))
    PROVE  /\ Cardinality(T) \in Nat
           /\ MultiReads(S, E, f) => MultiRead(up) = Listed(T, Q)
           /\ UniqueReads(S, E, f) => UniqueRead(up) = Listed(T, Q)
<1> DEFINE c == Cardinality(T)
<1>1. Decodes(store, E, lo, hi, S, T, Q, f)
  BY RangeDecoded
<1>2. /\ c \in Nat
      /\ \E l \in [1 .. c -> S] : /\ up = [i \in 1 .. c |-> <<l[i], store[E \o l[i]]>>]
                                  /\ Ranked(T, Q) = [i \in 1 .. c |-> f[l[i]]]
  BY <1>1 DEF Decodes
<1>3. Listed(T, Q) = [i \in 1 .. c |-> <<Ranked(T, Q)[i], record_at(Ranked(T, Q)[i])>>]
  BY DEF Listed
<1> HIDE DEF c
<1>4. PICK l \in [1 .. c -> S] : /\ up = [i \in 1 .. c |-> <<l[i], store[E \o l[i]]>>]
                                 /\ Ranked(T, Q) = [i \in 1 .. c |-> f[l[i]]]
  BY <1>2
<1>5. Listed(T, Q) = [i \in 1 .. c |-> <<f[l[i]], record_at(f[l[i]])>>]
  BY <1>3, <1>4
<1> DEFINE u == [i \in 1 .. c |-> <<l[i], store[E \o l[i]]>>]
<1>6. u = up /\ Len(u) = c /\ \A i \in 1 .. c : u[i] = <<l[i], store[E \o l[i]]>>
  BY <1>2, <1>4
<1> HIDE DEF u
<1>7. ASSUME MultiReads(S, E, f)
      PROVE  MultiRead(up) = Listed(T, Q)
  <2>1. MultiRead(u)
          = [i \in 1 .. Len(u) |-> deserialize_multi_kv(store, records, u[i])]
    BY DEF MapEach, MultiRead
  <2>2. \A i \in 1 .. c : deserialize_multi_kv(store, records, u[i])
                            = <<f[l[i]], record_at(f[l[i]])>>
    BY <1>4, <1>6, <1>7 DEF MultiReads
  <2>3. QED
    BY <1>5, <1>6, <2>1, <2>2
<1>8. ASSUME UniqueReads(S, E, f)
      PROVE  UniqueRead(up) = Listed(T, Q)
  <2>1. UniqueRead(u)
          = [i \in 1 .. Len(u) |-> deserialize_unique_kv(records, u[i])]
    BY DEF MapEach, UniqueRead
  <2>2. \A i \in 1 .. c : deserialize_unique_kv(records, u[i])
                            = <<f[l[i]], record_at(f[l[i]])>>
    BY <1>4, <1>6, <1>8 DEF UniqueReads
  <2>3. QED
    BY <1>5, <1>6, <2>1, <2>2
<1>9. QED
  BY <1>2, <1>7, <1>8 DEF c

LEMMA EntryRead ==
    ASSUME StoreOk(store), NEW k \in Saved, NEW y \in Bytes
    PROVE  deserialize_multi_kv(store, records, <<y \o joined_key(k), Len(joined_key(k))>>)
             = <<k, record_at(k)>>
<1> DEFINE r == joined_key(k)
           e == <<y \o r, Len(r)>>
           p == to_length_prefixed(RecordsNamespace)
<1>1. k \in Records /\ record_at(k) # None
  BY DEF Saved
<1>2. /\ k \in KeysOfParts(2) /\ r \in Bytes
      /\ RecordPath[k] = length_prefixed_with_key(RecordsNamespace, r)
  BY <1>1, PathsAre
<1>3. PkOf(e) = r
  BY <1>2, PkIs
<1>4. from_vec(2, r) = k
  BY <1>2, KeyRead
<1>5. RecordsNamespace \in Short
  BY NamespaceFacts
<1>6. to_length_prefixed_nested(<<RecordsNamespace>>) = p
  <2> DEFINE n == RecordsNamespace
  <2>1. n \in Short /\ <<>> \in Seq(Short) /\ <<n>> \o <<>> = <<n>> /\ p \in Bytes
    BY <1>5, EmptySeq, ConcatEmptySeq, PrefixedType
  <2>2. p = to_length_prefixed(n)
    OBVIOUS
  <2> HIDE DEF n, p
  <2>3. /\ to_length_prefixed_nested(<<>>) = <<>>
        /\ to_length_prefixed_nested(<<n>> \o <<>>)
             = to_length_prefixed(n) \o to_length_prefixed_nested(<<>>)
    BY <2>1, NestedFirst
  <2>4. to_length_prefixed_nested(<<n>>) = p
    BY <2>1, <2>2, <2>3, BytesEmpty
  <2>5. QED
    BY <2>4 DEF n
<1>7. namespaces_with_key(<<RecordsNamespace>>, r) = RecordPath[k]
  BY <1>2, <1>6 DEF namespaces_with_key, length_prefixed_with_key
<1>8. load(store, RecordPath[k]) = record_at(k)
  BY <1>1 DEF load, has, record_at, may_load, get
<1> HIDE DEF e, r
<1>9. deserialize_multi_v(store, records, e) = <<r, record_at(k)>>
  BY <1>3, <1>7, <1>8 DEF deserialize_multi_v, records
<1>10. deserialize_multi_kv(store, records, e) = <<from_vec(2, r), record_at(k)>>
  BY <1>9 DEF deserialize_multi_kv, records
<1>11. QED
  BY <1>4, <1>10 DEF e, r

\* The index key of a saved record with its own key behind it.
EntryOf(k) == MultiKey[record_at(k)] \o k

\* The entries of the multi index are those of the saved records.
LEMMA MultiTails ==
    ASSUME StoreOk(store), NEW E, E = Prefix(MultiNamespace, <<>>)
    PROVE  /\ GoodPrefix(store, E)
           /\ \A x \in Tails(store, E) : \E k \in Saved : x = joined_key(EntryOf(k))
           /\ \A k \in Saved : /\ joined_key(EntryOf(k)) \in Tails(store, E)
                               /\ store[E \o joined_key(EntryOf(k))] = Len(joined_key(k))
                               /\ EntryOf(k) \in KeysOfParts(Len(MultiKey[record_at(k)]) + 2)
                               /\ record_at(k) \in Values
           /\ \A j, k \in Saved : joined_key(EntryOf(j)) = joined_key(EntryOf(k)) => j = k
<1>1. MultiNamespace \in Namespaces /\ MultiNamespace \in Short
  BY NamespaceFacts
<1>2. GoodPrefix(store, E) /\ E = to_length_prefixed(MultiNamespace)
  BY <1>1, NamePrefix
<1>3. \A r : E \o r = length_prefixed_with_key(MultiNamespace, r)
  BY <1>2 DEF length_prefixed_with_key
<1>4. Storage(store) /\ IndexesMatch(store, RecordsIn(store))
  BY DEF StoreOk
<1>5. \A k \in Saved : k \in Records /\ record_at(k) \in Values /\ record_at(k) # None
  <2> DEFINE P == Prefix(RecordsNamespace, <<>>)
  <2>1. P = Prefix(RecordsNamespace, <<>>)
    OBVIOUS
  <2> HIDE DEF P
  <2>2. \A k \in Saved : k \in Records /\ record_at(k) \in Values
    BY <2>1, SavedTails
  <2>3. QED
    BY <2>2 DEF Saved
<1>6. \A k \in Records : RecordsIn(store)[k] = record_at(k)
  BY DEF RecordsIn, record_at, may_load
<1>7. \A k \in Records, v \in Values :
        /\ MultiKey[v] \o k \in KeysOfParts(Len(MultiKey[v]) + 2)
        /\ joined_key(MultiKey[v] \o k) \in Bytes
        /\ MPath(k, v) = length_prefixed_with_key(MultiNamespace, joined_key(MultiKey[v] \o k))
  BY PathsAre
<1>8. \A k \in Records, v \in Values :
        get(store, MPath(k, v)) = IF record_at(k) # None /\ MultiKey[record_at(k)] = MultiKey[v]
                                  THEN Len(joined_key(k)) ELSE None
  BY <1>4, <1>6 DEF IndexesMatch
<1>9. ASSUME NEW x \in Tails(store, E)
      PROVE  \E k \in Saved : x = joined_key(EntryOf(k))
  <2> DEFINE y == E \o x
  <2>1. x \in Bytes /\ y \in DOMAIN store /\ y = length_prefixed_with_key(MultiNamespace, x)
    BY <1>3 DEF Tails
  <2> HIDE DEF y
  <2>2. PICK k \in Records, v \in Values : y = MPath(k, v) /\ x = joined_key(MultiKey[v] \o k)
    BY <1>1, <2>1, OfNamespace
  <2>3. get(store, MPath(k, v)) # None
    BY <1>4, <2>1, <2>2 DEF Storage, get
  <2>4. record_at(k) # None /\ MultiKey[record_at(k)] = MultiKey[v]
    BY <1>8, <2>3
  <2>5. k \in Saved
    BY <2>4 DEF Saved
  <2>6. QED
    BY <2>2, <2>4, <2>5 DEF EntryOf
<1>10. ASSUME NEW k \in Saved
       PROVE  /\ joined_key(EntryOf(k)) \in Tails(store, E)
              /\ store[E \o joined_key(EntryOf(k))] = Len(joined_key(k))
              /\ EntryOf(k) \in KeysOfParts(Len(MultiKey[record_at(k)]) + 2)
              /\ record_at(k) \in Values
              /\ MPath(k, record_at(k)) = length_prefixed_with_key(MultiNamespace, joined_key(EntryOf(k)))
              /\ joined_key(EntryOf(k)) \in Bytes
  <2> DEFINE v == record_at(k)
             x == joined_key(EntryOf(k))
  <2>1. k \in Records /\ v \in Values /\ v # None
    BY <1>5
  <2>2. /\ EntryOf(k) \in KeysOfParts(Len(MultiKey[v]) + 2) /\ x \in Bytes
        /\ MPath(k, v) = length_prefixed_with_key(MultiNamespace, x)
    BY <1>7, <2>1 DEF EntryOf
  <2>3. get(store, MPath(k, v)) = Len(joined_key(k))
    BY <1>8, <2>1
  <2>4. Len(joined_key(k)) # None
    BY <2>1, NoneApart
  <2> HIDE DEF x, v
  <2>5. E \o x = MPath(k, v)
    BY <1>3, <2>2
  <2>6. E \o x \in DOMAIN store /\ store[E \o x] = Len(joined_key(k))
    BY <2>3, <2>4, <2>5 DEF get
  <2>7. x \in Tails(store, E)
    BY <2>2, <2>6 DEF Tails
  <2>8. QED
    BY <2>1, <2>2, <2>6, <2>7 DEF x, v
<1>11. ASSUME NEW j \in Saved, NEW k \in Saved, joined_key(EntryOf(j)) = joined_key(EntryOf(k))
       PROVE  j = k
  <2>1. MPath(j, record_at(j)) = MPath(k, record_at(k))
    BY <1>10, <1>11
  <2>2. QED
    BY <1>5, <2>1, PathsApart
<1>12. QED
  BY <1>2, <1>9, <1>10, <1>11

\* All index keys have the same number of parts.
LEMMA EntriesOrdered ==
    ASSUME StoreOk(store), NEW j \in Saved, NEW k \in Saved
    PROVE  BytesBefore(joined_key(EntryOf(j)), joined_key(EntryOf(k))) <=> MultiBefore(j, k)
<1> DEFINE m == Len(MultiKey[record_at(j)]) + 2
           a == EntryOf(j)
           b == EntryOf(k)
           P == Prefix(MultiNamespace, <<>>)
<1>1. P = Prefix(MultiNamespace, <<>>)
  OBVIOUS
<1> HIDE DEF P
<1>2. \A i \in Saved : /\ EntryOf(i) \in KeysOfParts(Len(MultiKey[record_at(i)]) + 2)
                       /\ record_at(i) \in Values
  BY <1>1, MultiTails
<1>3. /\ Len(MultiKey[record_at(j)]) \in Nat
      /\ Len(MultiKey[record_at(k)]) = Len(MultiKey[record_at(j)])
  BY <1>2, IndexKeys
<1>4. a \in KeysOfParts(m) /\ b \in KeysOfParts(m)
  BY <1>2, <1>3
<1>5. m \in Nat /\ m >= 1
  BY <1>3
<1>6. MultiBefore(j, k) <=> KeyBefore(a, b)
  BY DEF MultiBefore, EntryOf
<1> HIDE DEF a, b, m
<1>7. BytesBefore(joined_key(a), joined_key(b)) <=> KeyBefore(a, b)
  BY <1>4, <1>5, JoinedOrder
<1>8. QED
  BY <1>6, <1>7 DEF a, b

\* Through the multi index, from a bound on.
LEMMA MultiFrom ==
    ASSUME StoreOk(store), NEW m \in Nat, m >= 1, \A v \in Values : Len(MultiKey[v]) + 2 = m,
           NEW min \in BoundsOn(KeysOfParts(m)),
           NEW T, T = {k \in Saved : KeyAfter(EntryOf(k), min)}
    PROVE  multi_range(store, records, multi, <<>>, AsBound(min), None, "Ascending")
             = Sorted(T, MultiBefore)
<1> DEFINE E == Prefix(MultiNamespace, <<>>)
           K == KeysOfParts(m)
<1>1. E = Prefix(MultiNamespace, <<>>)
  OBVIOUS
<1> HIDE DEF E
<1>2. /\ GoodPrefix(store, E)
      /\ \A x \in Tails(store, E) : \E k \in Saved : x = joined_key(EntryOf(k))
      /\ \A k \in Saved : /\ joined_key(EntryOf(k)) \in Tails(store, E)
                          /\ store[E \o joined_key(EntryOf(k))] = Len(joined_key(k))
                          /\ EntryOf(k) \in KeysOfParts(Len(MultiKey[record_at(k)]) + 2)
                          /\ record_at(k) \in Values
      /\ \A j, k \in Saved : joined_key(EntryOf(j)) = joined_key(EntryOf(k)) => j = k
  BY <1>1, MultiTails
<1>3. E \in Bytes
  BY <1>2 DEF GoodPrefix
<1>4. K \in SUBSET KeysOfParts(m) /\ min \in BoundsOn(K)
  OBVIOUS
<1> HIDE DEF K
<1>5. PICK lo \in Bytes :
        /\ calc_start_bound(E, AsBound(min)) = E \o lo
        /\ \A k \in KeysOfParts(m) : KeyAfter(k, min) <=> ~BytesBefore(joined_key(k), lo)
  BY <1>3, <1>4, StartIs
<1>6. \A k \in Saved : EntryOf(k) \in KeysOfParts(m)
  <2>1. ASSUME NEW k \in Saved
        PROVE  EntryOf(k) \in KeysOfParts(m)
    <3>1. Len(MultiKey[record_at(k)]) + 2 = m
      BY <1>2
    <3>2. QED
      BY <1>2, <3>1
  <2>2. QED
    BY <2>1
<1>7. \A k \in Saved : k \in T <=> ~BytesBefore(joined_key(EntryOf(k)), lo)
  BY <1>5, <1>6
<1> DEFINE hi == <<>>
           S == TailsIn(store, E, lo, hi)
           Q == MultiOrder(T)
           f == [x \in S |-> CHOOSE k \in Saved : x = joined_key(EntryOf(k))]
           up == Trimmed(E, storage_range(store, E \o lo, EndAt(E, hi), "Ascending"))
<1>8. hi \in Ends /\ calc_end_bound(E, None) = EndAt(E, hi) /\ \A x : UpTo(x, hi)
  BY DEF Ends, calc_end_bound, EndAt, UpTo
<1> HIDE DEF hi
<1>9. \A x \in S : x \in Tails(store, E) /\ ~BytesBefore(x, lo)
  BY DEF TailsIn
<1>10. \A k \in T : joined_key(EntryOf(k)) \in S
  BY <1>2, <1>7, <1>8 DEF TailsIn
<1>11. S = TailsIn(store, E, lo, hi)
  OBVIOUS
<1> HIDE DEF S
<1>12. ASSUME NEW x \in S
       PROVE  f[x] \in T /\ x = joined_key(EntryOf(f[x]))
  <2>1. \E k \in Saved : x = joined_key(EntryOf(k))
    BY <1>2, <1>9
  <2>2. f[x] = CHOOSE k \in Saved : x = joined_key(EntryOf(k))
    OBVIOUS
  <2> HIDE DEF f
  <2>3. f[x] \in Saved /\ x = joined_key(EntryOf(f[x]))
    BY <2>1, <2>2
  <2>4. QED
    BY <1>7, <1>9, <2>3
<1>13. f \in [S -> T]
  BY <1>12
<1> HIDE DEF f
<1>14. \A k \in T : \E x \in S : f[x] = k
  <2>1. ASSUME NEW k \in T
        PROVE  f[joined_key(EntryOf(k))] = k
    <3> DEFINE x == joined_key(EntryOf(k))
               j == f[x]
    <3>1. x \in S
      BY <1>10
    <3>2. j \in T /\ x = joined_key(EntryOf(j))
      BY <1>12, <3>1
    <3>3. k \in Saved /\ j \in Saved
      BY <3>2
    <3> HIDE DEF j
    <3>4. j = k
      BY <1>2, <3>2, <3>3
    <3>5. QED
      BY <3>4 DEF j
  <2>2. QED
    BY <1>10, <2>1
<1>15. \A x, y \in S : BytesBefore(x, y) <=> <<f[x], f[y]>> \in Q
  <2>1. ASSUME NEW x \in S, NEW y \in S
        PROVE  BytesBefore(x, y) <=> <<f[x], f[y]>> \in Q
    <3> DEFINE j == f[x]
               k == f[y]
    <3>1. j \in T /\ k \in T /\ x = joined_key(EntryOf(j)) /\ y = joined_key(EntryOf(k))
      BY <1>12
    <3> HIDE DEF j, k
    <3>2. j \in Saved /\ k \in Saved
      BY <3>1
    <3>3. BytesBefore(x, y) <=> MultiBefore(j, k)
      BY <3>1, <3>2, EntriesOrdered
    <3>4. <<j, k>> \in Q <=> MultiBefore(j, k)
      BY <3>1 DEF MultiOrder
    <3>5. QED
      BY <3>3, <3>4 DEF j, k
  <2>2. QED
    BY <2>1
<1>16. MultiReads(S, E, f)
  <2>1. ASSUME NEW x \in S
        PROVE  deserialize_multi_kv(store, records, <<x, store[E \o x]>>)
                 = <<f[x], record_at(f[x])>>
    <3> DEFINE k == f[x]
               y == to_length_prefixed_nested(MultiKey[record_at(k)])
    <3>1. k \in T /\ x = joined_key(EntryOf(k))
      BY <1>12
    <3>2. k \in Saved /\ record_at(k) \in Values /\ store[E \o x] = Len(joined_key(k))
      BY <1>2, <3>1
    <3>3. MultiKey[record_at(k)] \in Seq(Short) /\ k \in KeysOfParts(2) /\ 2 \in Nat /\ 2 >= 1
      BY <3>2, IndexKeys, PathsAre DEF Saved
    <3> HIDE DEF k
    <3>4. y \o joined_key(k) = joined_key(EntryOf(k))
      BY <3>3, JoinedConcat DEF EntryOf
    <3>5. y \in Bytes
      BY <3>3, NestedBytes
    <3> HIDE DEF y
    <3>6. deserialize_multi_kv(store, records, <<y \o joined_key(k), Len(joined_key(k))>>)
            = <<k, record_at(k)>>
      BY <3>2, <3>5, EntryRead
    <3>7. QED
      BY <3>1, <3>2, <3>4, <3>6 DEF k
  <2>2. QED
    BY <2>1 DEF MultiReads
<1>17. up = Trimmed(E, storage_range(store, E \o lo, EndAt(E, hi), "Ascending"))
  OBVIOUS
<1> HIDE DEF Q, up
<1>18. /\ Cardinality(T) \in Nat
       /\ MultiRead(up) = Listed(T, Q)
  <2>1. GoodPrefix(store, E)
    BY <1>2
  <2>2. QED
    BY ONLY StoreOk(store), lo \in Bytes, <2>1, <1>8, <1>11, <1>13, <1>14, <1>15, <1>16, <1>17,
            IndexFound
<1>19. multi_range(store, records, multi, <<>>, AsBound(min), None, "Ascending")
         = MultiRead(up)
  <2>1. multi.namespace = MultiNamespace
    BY DEF multi
  <2>2. range_with_prefix(store, E, AsBound(min), None, "Ascending") = up
    BY <1>5, <1>8, <1>17 DEF range_with_prefix
  <2>3. QED
    BY <1>1, <2>1, <2>2 DEF multi_range, MultiRead
<1>20. QED
  BY <1>18, <1>19, SortedIs DEF Q

\* The entries of one index key are the keys of its records, in the order of these.
LEMMA MultiBelowTails ==
    ASSUME StoreOk(store), NEW value \in Values, NEW sub, sub = MultiKey[value],
           NEW E, E = Prefix(MultiNamespace, sub)
    PROVE  /\ GoodPrefix(store, E)
           /\ \A x \in Tails(store, E) :
                \E k \in Saved : x = joined_key(k) /\ MultiKey[record_at(k)] = sub
           /\ \A k \in Saved : MultiKey[record_at(k)] = sub =>
                /\ joined_key(k) \in Tails(store, E)
                /\ store[E \o joined_key(k)] = Len(joined_key(k))
<1> DEFINE ns == MultiNamespace
           F == Prefix(ns, <<>>)
           n == Len(sub)
<1>1. ns \in Namespaces /\ ns \in Short
  BY NamespaceFacts
<1>2. F = to_length_prefixed(ns) /\ F = Prefix(MultiNamespace, <<>>)
  BY <1>1, NamePrefix
<1>3. /\ sub \in Seq(Short) /\ n \in Nat /\ n >= 1 /\ sub # <<>>
      /\ \A w \in Values : MultiKey[w] \in Seq(Short) /\ Len(MultiKey[w]) = n
  <2>1. MultiKey[value] \in Seq(Short) /\ Len(MultiKey[value]) \in Nat \ {0}
    BY IndexKeys
  <2>2. \A w \in Values : MultiKey[w] \in Seq(Short) /\ Len(MultiKey[w]) = Len(MultiKey[value])
    BY IndexKeys
  <2>3. QED
    BY <2>1, <2>2
<1> HIDE DEF F, n
<1>4. /\ \A x \in Tails(store, F) : \E k \in Saved : x = joined_key(EntryOf(k))
      /\ \A k \in Saved : /\ joined_key(EntryOf(k)) \in Tails(store, F)
                          /\ store[F \o joined_key(EntryOf(k))] = Len(joined_key(k))
                          /\ record_at(k) \in Values
  BY <1>2, MultiTails
<1>5. \A r : F \o r = length_prefixed_with_key(ns, r)
  BY <1>2 DEF length_prefixed_with_key
<1>6. \A k \in Records : k \in KeysOfParts(2) /\ joined_key(k) \in Bytes
  BY PathsAre
<1>7. \A k \in Saved : k \in Records
  BY DEF Saved
<1>8. ASSUME NEW m \in Nat, m >= 1, NEW key \in KeysOfParts(m)
      PROVE  /\ sub \o key \in KeysOfParts(n + m)
             /\ joined_key(key) \in Bytes /\ joined_key(sub \o key) \in Bytes
             /\ E \o joined_key(key) = F \o joined_key(sub \o key)
  <2> DEFINE name == ns
  <2>1. name \in Short /\ E = Prefix(name, sub)
    BY <1>1
  <2> HIDE DEF name
  <2>2. /\ sub \o key \in KeysOfParts(Len(sub) + m)
        /\ joined_key(key) \in Bytes /\ joined_key(sub \o key) \in Bytes
        /\ Prefix(name, sub) \o joined_key(key)
             = length_prefixed_with_key(name, joined_key(sub \o key))
    BY ONLY <1>3, <1>8, <2>1, m \in Nat, key \in KeysOfParts(m), SubTail
  <2>3. QED
    BY <1>5, <2>1, <2>2 DEF n, name
<1>9. GoodPrefix(store, E)
  <2>1. ASSUME NEW x \in DOMAIN store, NEW r \in Bytes, x = length_prefixed_with_key(ns, r)
        PROVE  \E key \in KeysOfParts(Len(sub) + 2) : r = joined_key(key)
    <3>1. PICK k \in Records, v \in Values : r = joined_key(MultiKey[v] \o k)
      BY <1>1, <2>1, OfNamespace
    <3>2. MultiKey[v] \o k \in KeysOfParts(Len(MultiKey[v]) + 2)
      BY PathsAre
    <3>3. QED
      BY <1>3, <3>1, <3>2 DEF n
  <2> DEFINE m == 2
  <2>2. m \in Nat /\ m >= 1
    OBVIOUS
  <2>3. \A x \in DOMAIN store, r \in Bytes : x = length_prefixed_with_key(ns, r) =>
          \E key \in KeysOfParts(Len(sub) + m) : r = joined_key(key)
    BY <2>1
  <2> HIDE DEF m
  <2>4. QED
    BY <1>1, <1>3, <2>2, <2>3, SubPrefix
<1>10. ASSUME NEW k \in Saved, MultiKey[record_at(k)] = sub
       PROVE  /\ joined_key(k) \in Tails(store, E)
              /\ store[E \o joined_key(k)] = Len(joined_key(k))
  <2>1. k \in KeysOfParts(2) /\ joined_key(k) \in Bytes /\ 2 \in Nat /\ 2 >= 1
    BY <1>6, <1>7
  <2>2. E \o joined_key(k) = F \o joined_key(EntryOf(k))
    BY <1>8, <1>10, <2>1 DEF EntryOf
  <2>3. F \o joined_key(EntryOf(k)) \in DOMAIN store
    BY <1>4 DEF Tails
  <2>4. QED
    BY <1>4, <2>1, <2>2, <2>3 DEF Tails
<1>11. ASSUME NEW x \in Tails(store, E)
       PROVE  \E k \in Saved : x = joined_key(k) /\ MultiKey[record_at(k)] = sub
  <2> DEFINE p == <<x>>
             a == sub \o p
  <2>1. x \in Bytes /\ E \o x \in DOMAIN store
    BY DEF Tails
  <2>2. p \in KeysOfParts(1) /\ joined_key(p) = x /\ 1 \in Nat /\ 1 >= 1
    BY <2>1, OnePart
  <2> HIDE DEF p
  <2>3. a \in KeysOfParts(n + 1) /\ joined_key(a) \in Bytes /\ E \o x = F \o joined_key(a)
    BY <1>8, <2>2
  <2>4. joined_key(a) \in Tails(store, F)
    BY <2>1, <2>3 DEF Tails
  <2> HIDE DEF a
  <2>5. PICK k \in Saved : joined_key(a) = joined_key(EntryOf(k))
    BY <1>4, <2>4
  <2> DEFINE t == MultiKey[record_at(k)]
             y == joined_key(k)
             q == <<y>>
             b == t \o q
  <2>6. t \in Seq(Short) /\ Len(t) = n /\ y \in Bytes /\ k \in KeysOfParts(2)
    BY <1>3, <1>4, <1>6, <1>7
  <2>7. EntryOf(k) = t \o k
    BY DEF EntryOf
  <2> HIDE DEF t
  <2>8. to_length_prefixed_nested(t) \o y = joined_key(EntryOf(k))
    <3> DEFINE m == 2
    <3>1. m \in Nat /\ m >= 1 /\ k \in KeysOfParts(m)
      BY <2>6
    <3> HIDE DEF m
    <3>2. QED
      BY <2>6, <2>7, <3>1, JoinedConcat
  <2> HIDE DEF y
  <2>9. q \in KeysOfParts(1) /\ joined_key(q) = y
    BY <2>6, OnePart
  <2> HIDE DEF q
  <2>10. b \in KeysOfParts(n + 1) /\ to_length_prefixed_nested(t) \o y = joined_key(b)
    <3> DEFINE m == 1
    <3>1. m \in Nat /\ m >= 1 /\ q \in KeysOfParts(m)
      BY <2>9
    <3> HIDE DEF m
    <3>2. b \in KeysOfParts(Len(t) + m) /\ to_length_prefixed_nested(t) \o joined_key(q) = joined_key(b)
      BY <2>6, <3>1, JoinedConcat
    <3>3. QED
      BY <2>6, <2>9, <3>2 DEF m
  <2> HIDE DEF b
  <2>11. joined_key(a) = joined_key(b)
    BY <2>5, <2>8, <2>10
  <2>12. a = b
    <3> DEFINE m == n + 1
    <3>1. m \in Nat /\ m >= 1 /\ a \in KeysOfParts(m) /\ b \in KeysOfParts(m)
      BY <1>3, <2>3, <2>10
    <3> HIDE DEF m
    <3>2. QED
      BY <2>11, <3>1, JoinedOrder
  <2>13. sub \o <<x>> = t \o <<y>>
    BY <2>12 DEF a, b, p, q
  <2>14. sub \in Seq(Bytes) /\ t \in Seq(Bytes) /\ Len(sub) = Len(t)
    BY <1>3, <2>6 DEF Short, n
  <2>15. sub = t /\ x = y
    <3>1. x \in Bytes /\ y \in Bytes
      BY <2>1, <2>6
    <3>2. QED
      BY ONLY <2>13, <2>14, <3>1, SameLast, SMTT(30)
  <2>16. QED
    BY <2>15 DEF t, y
<1>12. QED
  BY <1>9, <1>10, <1>11

\* Through the multi index, below one index key.
LEMMA MultiUnder ==
    ASSUME StoreOk(store), NEW value \in Values,
           NEW T, T = {k \in Saved : MultiKey[record_at(k)] = MultiKey[value]}
    PROVE  multi_range(store, records, multi, MultiKey[value], None, None, "Ascending")
             = Sorted(T, KeyBefore)
<1> DEFINE sub == MultiKey[value]
           E == Prefix(MultiNamespace, sub)
<1>1. E = Prefix(MultiNamespace, sub) /\ sub = MultiKey[value]
  OBVIOUS
<1> HIDE DEF sub
<1>2. T = {k \in Saved : MultiKey[record_at(k)] = sub}
  BY <1>1
<1>3. E = Prefix(MultiNamespace, sub)
  OBVIOUS
<1> HIDE DEF E
<1>4. /\ GoodPrefix(store, E)
      /\ \A x \in Tails(store, E) :
           \E k \in Saved : x = joined_key(k) /\ MultiKey[record_at(k)] = sub
      /\ \A k \in Saved : MultiKey[record_at(k)] = sub =>
           /\ joined_key(k) \in Tails(store, E)
           /\ store[E \o joined_key(k)] = Len(joined_key(k))
  BY ONLY StoreOk(store), value \in Values, <1>1, <1>3, MultiBelowTails
<1>5. \A k \in T : /\ k \in Saved /\ k \in KeysOfParts(2) /\ joined_key(k) \in Tails(store, E)
                   /\ store[E \o joined_key(k)] = Len(joined_key(k))
                   /\ joined_key(k) \in Bytes
  BY <1>2, <1>4, PathsAre DEF Saved
<1>6. E \in Bytes
  BY <1>4 DEF GoodPrefix
<1>7. PICK lo \in Bytes, hi \in Ends :
        /\ calc_start_bound(E, None) = E \o lo /\ calc_end_bound(E, None) = EndAt(E, hi)
        /\ \A S : (\A x \in S : x \in Bytes) =>
                    \A x \in S : ~BytesBefore(x, lo) /\ UpTo(x, hi)
  BY <1>6, NoBounds
<1> DEFINE S == TailsIn(store, E, lo, hi)
           Q == KeyOrder(T)
           f == [x \in S |-> CHOOSE k \in T : x = joined_key(k)]
           up == Trimmed(E, storage_range(store, E \o lo, EndAt(E, hi), "Ascending"))
<1>8. S = Tails(store, E)
  <2>1. \A x \in Tails(store, E) : x \in Bytes
    BY DEF Tails
  <2>2. QED
    BY <1>7, <2>1 DEF TailsIn
<1>9. S = TailsIn(store, E, lo, hi)
  OBVIOUS
<1> HIDE DEF S
<1>10. ASSUME NEW x \in S
       PROVE  f[x] \in T /\ x = joined_key(f[x])
  <2>1. \E k \in T : x = joined_key(k)
    BY <1>2, <1>4, <1>8
  <2>2. f[x] = CHOOSE k \in T : x = joined_key(k)
    OBVIOUS
  <2> HIDE DEF f
  <2>3. QED
    BY <2>1, <2>2
<1>11. f \in [S -> T]
  BY <1>10
<1> HIDE DEF f
<1>12. ASSUME NEW j \in T, NEW k \in T
       PROVE  /\ joined_key(j) = joined_key(k) => j = k
              /\ BytesBefore(joined_key(j), joined_key(k)) <=> KeyBefore(j, k)
  <2> DEFINE m == 2
  <2>1. m \in Nat /\ m >= 1 /\ j \in KeysOfParts(m) /\ k \in KeysOfParts(m)
    BY <1>5
  <2> HIDE DEF m
  <2>2. QED
    BY <2>1, JoinedOrder
<1>13. \A k \in T : \E x \in S : f[x] = k
  <2>1. ASSUME NEW k \in T
        PROVE  f[joined_key(k)] = k
    <3> DEFINE x == joined_key(k)
               j == f[x]
    <3>1. j \in T /\ x = joined_key(j)
      BY <1>5, <1>8, <1>10
    <3> HIDE DEF j
    <3>2. j = k
      BY <1>12, <3>1
    <3>3. QED
      BY <3>2 DEF j
  <2>2. QED
    BY <1>5, <1>8, <2>1
<1>14. \A x, y \in S : BytesBefore(x, y) <=> <<f[x], f[y]>> \in Q
  <2>1. ASSUME NEW x \in S, NEW y \in S
        PROVE  BytesBefore(x, y) <=> <<f[x], f[y]>> \in Q
    <3> DEFINE j == f[x]
               k == f[y]
    <3>1. j \in T /\ k \in T /\ x = joined_key(j) /\ y = joined_key(k)
      BY <1>10
    <3> HIDE DEF j, k
    <3>2. BytesBefore(x, y) <=> KeyBefore(j, k)
      BY <1>12, <3>1
    <3>3. <<j, k>> \in Q <=> KeyBefore(j, k)
      BY <3>1 DEF KeyOrder
    <3>4. QED
      BY <3>2, <3>3 DEF j, k
  <2>2. QED
    BY <2>1
<1>15. MultiReads(S, E, f)
  <2>1. ASSUME NEW x \in S
        PROVE  deserialize_multi_kv(store, records, <<x, store[E \o x]>>)
                 = <<f[x], record_at(f[x])>>
    <3> DEFINE k == f[x]
               y == <<>>
               r == joined_key(k)
    <3>1. k \in T /\ x = r
      BY <1>10
    <3> HIDE DEF k
    <3>2. k \in Saved /\ store[E \o x] = Len(r) /\ r \in Bytes
      BY <1>5, <3>1
    <3>3. y \in Bytes /\ y \o r = r
      BY <3>2, BytesEmpty
    <3> HIDE DEF y
    <3>4. deserialize_multi_kv(store, records, <<y \o joined_key(k), Len(joined_key(k))>>)
            = <<k, record_at(k)>>
      BY <3>2, <3>3, EntryRead
    <3>5. QED
      BY <3>1, <3>2, <3>3, <3>4 DEF k
  <2>2. QED
    BY <2>1 DEF MultiReads
<1>16. up = Trimmed(E, storage_range(store, E \o lo, EndAt(E, hi), "Ascending"))
  OBVIOUS
<1>17. multi_range(store, records, multi, sub, None, None, "Ascending") = MultiRead(up)
  <2>1. multi.namespace = MultiNamespace
    BY DEF multi
  <2>2. range_with_prefix(store, E, None, None, "Ascending") = up
    BY <1>7 DEF range_with_prefix
  <2>3. QED
    BY <1>3, <2>1, <2>2 DEF multi_range, MultiRead
<1> HIDE DEF Q, up
<1>18. Cardinality(T) \in Nat /\ MultiRead(up) = Listed(T, Q)
  <2>1. GoodPrefix(store, E)
    BY <1>4
  <2>2. QED
    BY ONLY StoreOk(store), lo \in Bytes, hi \in Ends, <2>1, <1>9, <1>11, <1>13, <1>14, <1>15, <1>16,
            IndexFound
<1>19. QED
  BY <1>17, <1>18, SortedIs DEF Q, sub

-----------------------------------------------------------------------------
(* The entries of the unique index.                                        *)
UniqueEntry(k) == joined_key(UniqueKey[record_at(k)])

LEMMA UniqueTails ==
    ASSUME StoreOk(store), NEW E, E = Prefix(UniqueNamespace, <<>>)
    PROVE  /\ GoodPrefix(store, E)
           /\ \A x \in Tails(store, E) : \E k \in Saved : x = UniqueEntry(k)
           /\ \A k \in Saved : /\ UniqueEntry(k) \in Tails(store, E)
                               /\ store[E \o UniqueEntry(k)] = UniqueRef(joined_key(k), record_at(k))
                               /\ record_at(k) \in Values
           /\ \A j, k \in Saved : UniqueKey[record_at(j)] = UniqueKey[record_at(k)] => j = k
<1> DEFINE ns == UniqueNamespace
<1>1. ns \in Namespaces /\ ns \in Short
  BY NamespaceFacts
<1>2. GoodPrefix(store, E) /\ E = to_length_prefixed(UniqueNamespace)
  BY <1>1, NamePrefix
<1>3. \A r : E \o r = length_prefixed_with_key(UniqueNamespace, r)
  BY <1>2 DEF length_prefixed_with_key
<1>4. Storage(store) /\ IndexesMatch(store, RecordsIn(store))
  BY DEF StoreOk
<1>5. \A k \in Saved : k \in Records /\ record_at(k) \in Values /\ record_at(k) # None
  <2> DEFINE P == Prefix(RecordsNamespace, <<>>)
  <2>1. P = Prefix(RecordsNamespace, <<>>)
    OBVIOUS
  <2> HIDE DEF P
  <2>2. \A k \in Saved : k \in Records /\ record_at(k) \in Values
    BY <2>1, SavedTails
  <2>3. QED
    BY <2>2 DEF Saved
<1>6. \A k \in Records : RecordsIn(store)[k] = record_at(k)
  BY DEF RecordsIn, record_at, may_load
<1>7. \A v \in Values :
        /\ joined_key(UniqueKey[v]) \in Bytes
        /\ UPath(v) = length_prefixed_with_key(UniqueNamespace, joined_key(UniqueKey[v]))
  BY PathsAre
<1>8. /\ \A k \in Records : record_at(k) # None =>
           get(store, UPath(record_at(k))) = UniqueRef(joined_key(k), record_at(k))
      /\ \A v \in Values : get(store, UPath(v)) # None =>
           \E k \in Records : record_at(k) # None /\ UniqueKey[record_at(k)] = UniqueKey[v]
  BY <1>4, <1>6 DEF IndexesMatch
<1>9. ASSUME NEW x \in Tails(store, E)
      PROVE  \E k \in Saved : x = UniqueEntry(k)
  <2> DEFINE y == E \o x
  <2>1. x \in Bytes /\ y \in DOMAIN store /\ y = length_prefixed_with_key(UniqueNamespace, x)
    BY <1>3 DEF Tails
  <2> HIDE DEF y
  <2>2. PICK v \in Values : y = UPath(v) /\ x = joined_key(UniqueKey[v])
    BY <1>1, <2>1, OfNamespace
  <2>3. get(store, UPath(v)) # None
    BY <1>4, <2>1, <2>2 DEF Storage, get
  <2>4. PICK k \in Records : record_at(k) # None /\ UniqueKey[record_at(k)] = UniqueKey[v]
    BY <1>8, <2>3
  <2>5. k \in Saved
    BY <2>4 DEF Saved
  <2>6. QED
    BY <2>2, <2>4, <2>5 DEF UniqueEntry
<1>10. ASSUME NEW k \in Saved
       PROVE  /\ UniqueEntry(k) \in Tails(store, E)
              /\ store[E \o UniqueEntry(k)] = UniqueRef(joined_key(k), record_at(k))
  <2> DEFINE v == record_at(k)
             x == UniqueEntry(k)
             ref == UniqueRef(joined_key(k), v)
  <2>1. k \in Records /\ v \in Values /\ v # None
    BY <1>5
  <2>2. x \in Bytes /\ UPath(v) = length_prefixed_with_key(UniqueNamespace, x)
    BY <1>7, <2>1 DEF UniqueEntry
  <2>3. get(store, UPath(v)) = ref
    BY <1>8, <2>1
  <2>4. ref # None
    BY <2>1, NoneApart
  <2> HIDE DEF x, v, ref
  <2>5. E \o x = UPath(v)
    BY <1>3, <2>2
  <2>6. E \o x \in DOMAIN store /\ store[E \o x] = ref
    BY <2>3, <2>4, <2>5 DEF get
  <2>7. x \in Tails(store, E)
    BY <2>2, <2>6 DEF Tails
  <2>8. QED
    BY <2>6, <2>7 DEF x, v, ref
<1>11. ASSUME NEW j \in Saved, NEW k \in Saved,
              UniqueKey[record_at(j)] = UniqueKey[record_at(k)]
       PROVE  j = k
  <2> DEFINE r == RecordsIn(store)
  <2>1. /\ r[j] = record_at(j) /\ r[k] = record_at(k) /\ j \in Records /\ k \in Records
        /\ r[j] # None /\ r[k] # None
    BY <1>5, <1>6
  <2>2. r \in Holdings /\ IndexesMatch(store, r)
    BY <1>4 DEF StoreOk, Holdings, RecordsIn
  <2> HIDE DEF r
  <2>3. UniqueKey[r[j]] = UniqueKey[r[k]]
    BY <1>11, <2>1
  <2>4. QED
    BY <2>1, <2>2, <2>3, OneHolder
<1>12. QED
  BY <1>2, <1>5, <1>9, <1>10, <1>11

\* Through the unique index.
LEMMA UniqueWhole ==
    ASSUME StoreOk(store)
    PROVE  unique_range(store, records, unique, <<>>, None, None, "Ascending")
             = Sorted(Saved, UniqueBefore)
<1> DEFINE E == Prefix(UniqueNamespace, <<>>)
           T == Saved
<1>1. E = Prefix(UniqueNamespace, <<>>)
  OBVIOUS
<1> HIDE DEF E
<1>2. /\ GoodPrefix(store, E)
      /\ \A x \in Tails(store, E) : \E k \in T : x = UniqueEntry(k)
      /\ \A k \in T : /\ UniqueEntry(k) \in Tails(store, E)
                      /\ store[E \o UniqueEntry(k)] = UniqueRef(joined_key(k), record_at(k))
                      /\ record_at(k) \in Values
      /\ \A j, k \in T : UniqueKey[record_at(j)] = UniqueKey[record_at(k)] => j = k
  BY <1>1, UniqueTails
<1>3. E \in Bytes
  BY <1>2 DEF GoodPrefix
<1>4. \A k \in T : k \in KeysOfParts(2) /\ k \in Records
  BY PathsAre DEF Saved
<1> HIDE DEF T
<1>5. PICK lo \in Bytes, hi \in Ends :
        /\ calc_start_bound(E, None) = E \o lo /\ calc_end_bound(E, None) = EndAt(E, hi)
        /\ \A S : (\A x \in S : x \in Bytes) =>
                    \A x \in S : ~BytesBefore(x, lo) /\ UpTo(x, hi)
  BY <1>3, NoBounds
<1> DEFINE S == TailsIn(store, E, lo, hi)
           Q == UniqueOrder(T)
           f == [x \in S |-> CHOOSE k \in T : x = UniqueEntry(k)]
           up == Trimmed(E, storage_range(store, E \o lo, EndAt(E, hi), "Ascending"))
<1>6. S = Tails(store, E)
  <2>1. \A x \in Tails(store, E) : x \in Bytes
    BY DEF Tails
  <2>2. QED
    BY <1>5, <2>1 DEF TailsIn
<1>7. S = TailsIn(store, E, lo, hi)
  OBVIOUS
<1> HIDE DEF S
<1>8. ASSUME NEW x \in S
      PROVE  f[x] \in T /\ x = UniqueEntry(f[x])
  <2>1. \E k \in T : x = UniqueEntry(k)
    BY <1>2, <1>6
  <2>2. f[x] = CHOOSE k \in T : x = UniqueEntry(k)
    OBVIOUS
  <2> HIDE DEF f
  <2>3. QED
    BY <2>1, <2>2
<1>9. f \in [S -> T]
  BY <1>8
<1> HIDE DEF f
<1>10. ASSUME NEW j \in T, NEW k \in T
       PROVE  /\ UniqueEntry(j) = UniqueEntry(k) => j = k
              /\ BytesBefore(UniqueEntry(j), UniqueEntry(k)) <=> UniqueBefore(j, k)
  <2> DEFINE a == UniqueKey[record_at(j)]
             b == UniqueKey[record_at(k)]
             m == Len(a)
  <2>1. record_at(j) \in Values /\ record_at(k) \in Values
    BY <1>2
  <2>2. /\ a \in KeysOfParts(m) /\ m \in Nat \ {0}
        /\ b \in KeysOfParts(Len(b)) /\ Len(b) = m
    BY <2>1, IndexKeys
  <2>3. UniqueBefore(j, k) <=> KeyBefore(a, b)
    BY DEF UniqueBefore
  <2>4. UniqueEntry(j) = joined_key(a) /\ UniqueEntry(k) = joined_key(b)
    BY DEF UniqueEntry
  <2>5. a = b => j = k
    BY <1>2
  <2> HIDE DEF a, b, m
  <2>6. m \in Nat /\ m >= 1 /\ a \in KeysOfParts(m) /\ b \in KeysOfParts(m)
    BY <2>2
  <2>7. /\ joined_key(a) = joined_key(b) => a = b
        /\ BytesBefore(joined_key(a), joined_key(b)) <=> KeyBefore(a, b)
    BY <2>6, JoinedOrder
  <2>8. QED
    BY <2>3, <2>4, <2>5, <2>7
<1>11. \A k \in T : \E x \in S : f[x] = k
  <2>1. ASSUME NEW k \in T
        PROVE  f[UniqueEntry(k)] = k
    <3> DEFINE x == UniqueEntry(k)
               j == f[x]
    <3>1. j \in T /\ x = UniqueEntry(j)
      BY <1>2, <1>6, <1>8
    <3> HIDE DEF j
    <3>2. j = k
      BY <1>10, <3>1
    <3>3. QED
      BY <3>2 DEF j
  <2>2. QED
    BY <1>2, <1>6, <2>1
<1>12. \A x, y \in S : BytesBefore(x, y) <=> <<f[x], f[y]>> \in Q
  <2>1. ASSUME NEW x \in S, NEW y \in S
        PROVE  BytesBefore(x, y) <=> <<f[x], f[y]>> \in Q
    <3> DEFINE j == f[x]
               k == f[y]
    <3>1. j \in T /\ k \in T /\ x = UniqueEntry(j) /\ y = UniqueEntry(k)
      BY <1>8
    <3> HIDE DEF j, k
    <3>2. BytesBefore(x, y) <=> UniqueBefore(j, k)
      BY <1>10, <3>1
    <3>3. <<j, k>> \in Q <=> UniqueBefore(j, k)
      BY <3>1 DEF UniqueOrder
    <3>4. QED
      BY <3>2, <3>3 DEF j, k
  <2>2. QED
    BY <2>1
<1>13. UniqueReads(S, E, f)
  <2>1. ASSUME NEW x \in S
        PROVE  deserialize_unique_kv(records, <<x, store[E \o x]>>) = <<f[x], record_at(f[x])>>
    <3> DEFINE k == f[x]
               r == joined_key(k)
               v == record_at(k)
               e == <<x, store[E \o x]>>
    <3>1. k \in T /\ x = UniqueEntry(k)
      BY <1>8
    <3> HIDE DEF k
    <3>2. store[E \o x] = UniqueRef(r, v) /\ k \in KeysOfParts(2)
      BY <1>2, <1>4, <3>1
    <3>3. from_vec(2, r) = k
      BY <3>2, KeyRead
    <3>4. e[2] = UniqueRef(r, v)
      BY <3>2
    <3> HIDE DEF r, v, e
    <3>5. e[2].pk = r /\ e[2].value = v
      BY <3>4 DEF UniqueRef
    <3>6. deserialize_unique_kv(records, e) = <<from_vec(2, e[2].pk), e[2].value>>
      BY DEF deserialize_unique_kv, records
    <3>7. QED
      BY <3>3, <3>5, <3>6 DEF k, v, e
  <2>2. QED
    BY <2>1 DEF UniqueReads
<1>14. up = Trimmed(E, storage_range(store, E \o lo, EndAt(E, hi), "Ascending"))
  OBVIOUS
<1>15. unique_range(store, records, unique, <<>>, None, None, "Ascending") = UniqueRead(up)
  <2>1. unique.namespace = UniqueNamespace
    BY DEF unique
  <2>2. range_with_prefix(store, E, None, None, "Ascending") = up
    BY <1>5 DEF range_with_prefix
  <2>3. QED
    BY <1>1, <2>1, <2>2 DEF unique_range, UniqueRead
<1> HIDE DEF Q, up
<1>16. Cardinality(T) \in Nat /\ UniqueRead(up) = Listed(T, Q)
  <2>1. GoodPrefix(store, E)
    BY <1>2
  <2>2. QED
    BY ONLY StoreOk(store), lo \in Bytes, hi \in Ends, <2>1, <1>7, <1>9, <1>11, <1>12, <1>13, <1>14,
            IndexFound
<1>17. Sorted(T, UniqueBefore) = Listed(T, Q)
  BY <1>16, SortedIs DEF Q
<1>18. QED
  BY <1>15, <1>16, <1>17 DEF T

\* The one record of a unique index key.
LEMMA UniqueItem ==
    ASSUME StoreOk(store), NEW value \in Values, NEW found,
           found = item(store, records, unique, UniqueKey[value]),
           NEW holders, holders = {k \in Saved : UniqueKey[record_at(k)] = UniqueKey[value]}
    PROVE  IF holders = {} THEN found = None
           ELSE \E k \in holders : found = <<joined_key(k), record_at(k)>>
<1> DEFINE ref == get(store, UPath(value))
<1>1. Storage(store) /\ IndexesMatch(store, RecordsIn(store))
  BY DEF StoreOk
<1>2. \A k \in Records : RecordsIn(store)[k] = record_at(k)
  BY DEF RecordsIn, record_at, may_load
<1>3. /\ \A k \in Records : record_at(k) # None =>
           get(store, UPath(record_at(k))) = UniqueRef(joined_key(k), record_at(k))
      /\ \A v \in Values : get(store, UPath(v)) # None =>
           \E k \in Records : record_at(k) # None /\ UniqueKey[record_at(k)] = UniqueKey[v]
  BY <1>1, <1>2 DEF IndexesMatch
<1>4. found = IF ref = None THEN None ELSE <<ref.pk, ref.value>>
  BY DEF item, may_load, UPath, UniquePath, unique
<1>5. \A k \in Saved : k \in Records /\ record_at(k) \in Values /\ record_at(k) # None
  <2> DEFINE P == Prefix(RecordsNamespace, <<>>)
  <2>1. P = Prefix(RecordsNamespace, <<>>)
    OBVIOUS
  <2> HIDE DEF P
  <2>2. \A k \in Saved : k \in Records /\ record_at(k) \in Values
    BY <2>1, SavedTails
  <2>3. QED
    BY <2>2 DEF Saved
<1> HIDE DEF ref
<1>6. ASSUME NEW k \in holders
      PROVE  found = <<joined_key(k), record_at(k)>>
  <2>1. k \in Saved /\ UniqueKey[record_at(k)] = UniqueKey[value]
    BY <1>6
  <2>2. k \in Records /\ record_at(k) \in Values /\ record_at(k) # None
    BY <1>5, <2>1
  <2>3. UPath(record_at(k)) = UPath(value)
    BY <2>1, <2>2, PathsApart
  <2>4. ref = UniqueRef(joined_key(k), record_at(k))
    BY <1>3, <2>2, <2>3 DEF ref
  <2>5. ref # None
    BY <2>2, <2>4, NoneApart
  <2>6. ref.pk = joined_key(k) /\ ref.value = record_at(k)
    BY <2>4 DEF UniqueRef
  <2>7. QED
    BY <1>4, <2>5, <2>6
<1>7. ASSUME ref # None
      PROVE  holders # {}
  BY <1>3, <1>7 DEF ref, Saved
<1>8. QED
  BY <1>4, <1>6, <1>7

-----------------------------------------------------------------------------
LEMMA StoreIndexes ==
    ASSUME StoreInv
    PROVE  IndexesReadRecords
<1>1. StoreOk(store)
  BY DEF StoreInv
<1>2. ASSUME NEW m \in Nat, m >= 1, \A v \in Values : Len(MultiKey[v]) + 2 = m
      PROVE  multi_range(store, records, multi, <<>>, None, None, "Ascending")
               = Sorted(Saved, MultiBefore)
  <2> DEFINE min == None
             T == {k \in Saved : KeyAfter(EntryOf(k), min)}
  <2>1. min \in BoundsOn(KeysOfParts(m)) /\ min = None
    BY DEF BoundsOn
  <2>2. T = Saved
    BY DEF KeyAfter
  <2>3. T = {k \in Saved : KeyAfter(EntryOf(k), min)}
    OBVIOUS
  <2>4. AsBound(min) = None
    BY DEF AsBound
  <2> HIDE DEF min, T
  <2>5. multi_range(store, records, multi, <<>>, AsBound(min), None, "Ascending")
          = Sorted(T, MultiBefore)
    BY <1>1, <1>2, <2>1, <2>3, MultiFrom
  <2>6. QED
    BY <2>2, <2>4, <2>5
<1>3. multi_range(store, records, multi, <<>>, None, None, "Ascending")
        = Sorted(Saved, MultiBefore)
  <2>1. \E m \in Nat : m >= 1 /\ \A v \in Values : Len(MultiKey[v]) + 2 = m
    <3>1. CASE Values = {}
      <4>1. 1 \in Nat /\ 1 >= 1 /\ \A v \in Values : Len(MultiKey[v]) + 2 = 1
        BY <3>1
      <4>2. QED
        BY <4>1
    <3>2. CASE Values # {}
      <4>1. PICK w \in Values : TRUE
        BY <3>2
      <4> DEFINE n == Len(MultiKey[w])
      <4>2. n \in Nat /\ \A v \in Values : Len(MultiKey[v]) = n
        BY <4>1, IndexKeys
      <4> HIDE DEF n
      <4>3. n + 2 \in Nat /\ n + 2 >= 1 /\ \A v \in Values : Len(MultiKey[v]) + 2 = n + 2
        BY <4>2
      <4>4. QED
        BY <4>3
    <3>3. QED
      BY <3>1, <3>2
  <2>2. QED
    BY <1>2, <2>1
<1>4. ASSUME NEW value \in Values
      PROVE  multi_range(store, records, multi, MultiKey[value], None, None, "Ascending")
               = Sorted({k \in Saved : MultiKey[record_at(k)] = MultiKey[value]}, KeyBefore)
  <2> DEFINE T == {k \in Saved : MultiKey[record_at(k)] = MultiKey[value]}
  <2>1. T = {k \in Saved : MultiKey[record_at(k)] = MultiKey[value]}
    OBVIOUS
  <2> HIDE DEF T
  <2>2. multi_range(store, records, multi, MultiKey[value], None, None, "Ascending")
          = Sorted(T, KeyBefore)
    BY <1>1, <2>1, MultiUnder
  <2>3. QED
    BY <2>1, <2>2
<1>5. ASSUME NEW value \in Values, NEW k \in Records
      PROVE  multi_range(store, records, multi, <<>>,
                         AsBound(<<"Exclusive", MultiKey[value] \o k>>), None, "Ascending")
               = Sorted({j \in Saved : KeyBefore(MultiKey[value] \o k, MultiKey[record_at(j)] \o j)},
                        MultiBefore)
  <2> DEFINE b == MultiKey[value] \o k
             m == Len(MultiKey[value]) + 2
             min == <<"Exclusive", b>>
             T == {j \in Saved : KeyAfter(EntryOf(j), min)}
             U == {j \in Saved : KeyBefore(b, MultiKey[record_at(j)] \o j)}
  <2>1. b \in KeysOfParts(m)
    BY PathsAre
  <2>2. m \in Nat /\ m >= 1 /\ \A v \in Values : Len(MultiKey[v]) + 2 = m
    <3>1. Len(MultiKey[value]) \in Nat \ {0}
          /\ \A v \in Values : Len(MultiKey[v]) = Len(MultiKey[value])
      BY IndexKeys
    <3>2. QED
      BY <3>1
  <2>3. b \in Seq(Seq(Byte))
    BY <2>1 DEF KeysOfParts
  <2> HIDE DEF b, m
  <2>4. min # None
    BY <2>3, CollectionsAssumption
  <2>5. min \in BoundsOn(KeysOfParts(m))
    BY <2>1 DEF BoundsOn
  <2>6. T = U
    <3>1. min[1] = "Exclusive" /\ min[2] = b
      OBVIOUS
    <3> HIDE DEF min
    <3>2. \A j : KeyAfter(EntryOf(j), min) <=> KeyBefore(b, MultiKey[record_at(j)] \o j)
      BY <2>4, <3>1 DEF KeyAfter, EntryOf
    <3>3. QED
      BY <3>2
  <2>7. T = {j \in Saved : KeyAfter(EntryOf(j), min)} /\ min = <<"Exclusive", b>>
    OBVIOUS
  <2> HIDE DEF min, T
  <2>8. multi_range(store, records, multi, <<>>, AsBound(min), None, "Ascending")
          = Sorted(T, MultiBefore)
    BY <1>1, <2>2, <2>5, <2>7, MultiFrom
  <2>9. QED
    BY <2>6, <2>7, <2>8 DEF b
<1>6. unique_range(store, records, unique, <<>>, None, None, "Ascending")
        = Sorted(Saved, UniqueBefore)
  BY <1>1, UniqueWhole
<1>7. ASSUME NEW value \in Values
      PROVE  LET found == item(store, records, unique, UniqueKey[value])
                 holders == {k \in Saved : UniqueKey[record_at(k)] = UniqueKey[value]}
             IN  IF holders = {} THEN found = None
                 ELSE \E k \in holders : found = <<joined_key(k), record_at(k)>>
  <2> DEFINE found == item(store, records, unique, UniqueKey[value])
             holders == {k \in Saved : UniqueKey[record_at(k)] = UniqueKey[value]}
  <2>1. /\ found = item(store, records, unique, UniqueKey[value])
        /\ holders = {k \in Saved : UniqueKey[record_at(k)] = UniqueKey[value]}
    OBVIOUS
  <2> HIDE DEF found, holders
  <2>2. IF holders = {} THEN found = None
        ELSE \E k \in holders : found = <<joined_key(k), record_at(k)>>
    BY <1>1, <2>1, UniqueItem
  <2>3. QED
    BY <2>2 DEF found, holders
<1>8. QED
  BY <1>3, <1>4, <1>5, <1>6, <1>7 DEF IndexesReadRecords

\* Through an index the map reads as if its records were sorted by the index key, after
\* any writes of the item, the maps and the indexed map (deserialize_multi_kv,
\* deserialize_unique_kv, item of unique.rs).
THEOREM IndexesFindRecords == Spec => []IndexesReadRecords
<1>1. StoreInv => IndexesReadRecords
  BY StoreIndexes
<1>2. QED
  BY <1>1, StoreIsConsistent, PTL

=============================================================================
