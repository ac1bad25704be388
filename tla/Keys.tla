-------------------------------- MODULE Keys --------------------------------
(***************************************************************************)
(* How storage-plus writes the key of a record as bytes (keys.rs,          *)
(* helpers.rs, int_key.rs, de.rs): every part of a composite key but the   *)
(* last is preceded by its length, so that where a part ends is known, and *)
(* the last part is as it is, so that it orders as its own bytes do.       *)
(*                                                                         *)
(* A byte string is a sequence of 0 .. 255; a key is the sequence of its   *)
(* parts, an integer part already in bytes.                                *)
(***************************************************************************)
EXTENDS Integers, SequencesExt

Byte == 0 .. 255

\* The order in which a storage iterates.
BytesBefore(a, b) ==
    \/ IsStrictPrefix(a, b)
    \/ \E i \in 1 .. Len(a) :
         /\ i <= Len(b) /\ a[i] < b[i]
         /\ SubSeq(a, 1, i - 1) = SubSeq(b, 1, i - 1)

-----------------------------------------------------------------------------
(* Lengths and namespaces.                                                 *)

\* Big endian; a longer namespace than two bytes can count panics.
encode_length(namespace) == <<Len(namespace) \div 256, Len(namespace) % 256>>

parse_length(value) == 256 * value[1] + value[2]

\* Mutant: the name alone, as if it could not be the beginning of another.
to_length_prefixed_Bare(namespace) == namespace

to_length_prefixed(namespace) == encode_length(namespace) \o namespace

to_length_prefixed_nested(namespaces) ==
    FlattenSeq([i \in 1 .. Len(namespaces) |-> to_length_prefixed(namespaces[i])])

length_prefixed_with_key(namespace, key) == to_length_prefixed(namespace) \o key

namespaces_with_key(namespaces, key) == to_length_prefixed_nested(namespaces) \o key

nested_namespaces_with_key(top_names, sub_names, key) ==
    namespaces_with_key(top_names \o sub_names, key)

concat(namespace, key) == namespace \o key

trim(namespace, key) == SubSeq(key, Len(namespace) + 1, Len(key))

-----------------------------------------------------------------------------
(* PrimaryKey and Prefixer.                                                *)

\* The bytes of a whole key below its namespace.
joined_key(key) == namespaces_with_key(Front(key), Last(key))

\* The bytes of a key that more bytes follow.
joined_extra_key(key, extra) == namespaces_with_key(key, extra)

joined_prefix(prefix) == namespaces_with_key(prefix, <<>>)

-----------------------------------------------------------------------------
(* KeyDeserialize.  The types say how many parts there are.                *)

\* The part at the head of the bytes, and what follows it.
HeadPart(value) == SubSeq(value, 3, 2 + parse_length(value))
AfterHead(value) == SubSeq(value, 3 + parse_length(value), Len(value))

from_vec_pair(value) == <<HeadPart(value), AfterHead(value)>>

from_vec_triple(value) == <<HeadPart(value)>> \o from_vec_pair(AfterHead(value))

from_vec(parts, value) ==
    CASE parts = 1 -> <<value>>
      [] parts = 2 -> from_vec_pair(value)
      [] parts = 3 -> from_vec_triple(value)

-----------------------------------------------------------------------------
(* Integers of a number of bytes.                                          *)

\* Endian: the two's complement, most significant byte first.
to_be_bytes(width, n) ==
    LET shifted[bytes \in 0 .. width - 1] ==
          IF bytes = 0 THEN n ELSE shifted[bytes - 1] \div 256
    IN  [i \in 1 .. width |-> shifted[width - i] % 256]

to_le_bytes(width, n) == Reverse(to_be_bytes(width, n))

Unsigned(bytes) == FoldLeft(LAMBDA n, byte : 256 * n + byte, 0, bytes)

Signed(bytes) ==
    FoldLeft(LAMBDA n, byte : 256 * n + byte, IF Head(bytes) < 128 THEN 0 ELSE -1, bytes)

from_be_bytes(bytes, signed) == IF signed THEN Signed(bytes) ELSE Unsigned(bytes)
from_le_bytes(bytes, signed) == from_be_bytes(Reverse(bytes), signed)

cw_uint_to_cw_bytes(width, n) == to_be_bytes(width, n)
cw_uint_from_cw_bytes(bytes) == Unsigned(bytes)

\* The bit of the sign is flipped, which moves the negative numbers below the others.
Flipped(bytes) == <<(Head(bytes) + 128) % 256>> \o Tail(bytes)

\* Mutant: the sign keeps its bit.
cw_int_to_cw_bytes_Plain(width, n) == to_be_bytes(width, n)

cw_int_to_cw_bytes(width, n) == Flipped(to_be_bytes(width, n))

cw_int_from_cw_bytes(bytes) == Signed(Flipped(bytes))

\* The former encoding (keys_old.rs), which orders negative numbers last.
IntKeyOld(width, n) == to_be_bytes(width, n)
IntKeyOld_from_vec(bytes, signed) == from_be_bytes(bytes, signed)

-----------------------------------------------------------------------------
(* What a key is, and the order of keys by their parts: a part that        *)
(* another follows orders by its length first, the last part by its bytes. *)

\* The parts of a key: as many as its type says, those before the last with a length
\* that two bytes can count.  (The key of a record is at most 64 kB long: no part has
\* as many bytes as 65535, the successor of which is no length.)
KeysOfParts(parts) ==
    {key \in Seq(Seq(Byte)) : Len(key) = parts /\ \A i \in 1 .. parts - 1 : Len(key[i]) < 65535}

PartBefore(a, b) == Len(a) < Len(b) \/ (Len(a) = Len(b) /\ BytesBefore(a, b))

KeyBefore(j, k) ==
    \E i \in 1 .. Len(j) :
        /\ SubSeq(j, 1, i - 1) = SubSeq(k, 1, i - 1)
        /\ IF i = Len(j) THEN BytesBefore(j[i], k[i]) ELSE PartBefore(j[i], k[i])

=============================================================================
