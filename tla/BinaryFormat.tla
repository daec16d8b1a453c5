---------------------------- MODULE BinaryFormat ----------------------------
(***************************************************************************)
(* laplace::format::binary (src/source/laplace/format/f_binary.cpp): the   *)
(* binary encoding of a core::family value, and its decoding.  encode      *)
(* packs the value (table strings as keys become their table index) and    *)
(* writes it down; decode reads one pack back; unpack restores table keys. *)
(*                                                                         *)
(* A family value is a record: empty, bool, int and uint (kept as their    *)
(* 8-byte little-endian image, which is what wr and rd copy), string and   *)
(* bytes (byte sequences), vector (a sequence) and composite (a function   *)
(* from key values to values; its order of keys is not observable here).   *)
(* The byte stream is a sequence of numbers 0..255.                       *)
(***************************************************************************)
EXTENDS Integers, Sequences, FiniteSets, SequencesExt, FiniteSetsExt, TLC

CONSTANTS
    Ids,     \* format::binary::ids: the one-byte id of each kind of pack
    Table,   \* format::binary::table: the strings pack turns into indices
    Inputs   \* the family values encoded

ASSUME Ids \in [{"empty", "bool_true", "bool_false", "integer", "string",
                 "uint", "bytes", "bitfield", "vector", "composite",
                 "compact_composite"} -> 0..255]

VARIABLES
    input,   \* the value passed to encode
    stream,  \* the bytes encode wrote
    output,  \* the value decode and unpack give back
    step     \* "encode", "decode", "unpack" or "done"

vars == <<input, stream, output, step>>

-----------------------------------------------------------------------------

\* wr<uintN_t>: the w low bytes of an integer, least significant first.
RECURSIVE LE(_, _)
LE(n, w) == IF w = 0 THEN <<>> ELSE <<n % 256>> \o LE(n \div 256, w - 1)

\* The 8-byte two's-complement image of an int64.
Int64(n) == IF n >= 0 THEN LE(n, 8) ELSE [k \in 1..8 |-> 255 - LE(-n - 1, 8)[k]]

Empty     == [t |-> "empty"]
Bool(x)   == [t |-> "bool", x |-> x]
IntV(n)    == [t |-> "int", b |-> Int64(n)]
UintV(n)   == [t |-> "uint", b |-> LE(n, 8)]
Str(s)    == [t |-> "string", s |-> s]
Bin(s)    == [t |-> "bytes", s |-> s]
Vec(e)    == [t |-> "vector", e |-> e]
Comp(f)   == [t |-> "composite", m |-> f]

\* A length or count read as uint64 (rd<uint64_t>): its value when the high
\* bytes are zero, otherwise a number larger than any stream here, which
\* is all the reader can tell from it.
Huge == 2^30
Size(b) == IF \A k \in 4..Len(b) : b[k] = 0
           THEN b[1] + 256 * b[2] + 65536 * b[3] ELSE Huge

-----------------------------------------------------------------------------
(* pack_key / pack: a composite key that is a string of the table becomes *)
(* its index (an integer) unless that index is already a key; values of    *)
(* composites and vectors are packed in turn.                              *)
PackKey(f, key) ==
    IF key.t = "string" /\ \E n \in 1..Len(Table) : Table[n] = key.s
    THEN LET n == CHOOSE n \in 1..Len(Table) : Table[n] = key.s
         IN  IF IntV(n - 1) \in DOMAIN f THEN key ELSE IntV(n - 1)
    ELSE key

(* unpack_key / unpack: an integer key below the table's size becomes the  *)
(* table string, unless that string is already a key.                     *)
UnpackKey(f, key) ==
    IF key.t = "int" /\ \E n \in 1..Len(Table) : IntV(n - 1) = key
    THEN LET n == CHOOSE n \in 1..Len(Table) : IntV(n - 1) = key
         IN  IF Str(Table[n]) \in DOMAIN f THEN key ELSE Str(Table[n])
    ELSE key

\* Rename the keys of a composite, each key's value going with it.
Rekey(f, R(_, _)) ==
    LET keys == DOMAIN f
    IN  [k2 \in {R(f, k) : k \in keys} |-> f[CHOOSE k \in keys : R(f, k) = k2]]

RECURSIVE Pack(_)
Pack(v) ==
    CASE v.t = "vector"    -> Vec([i \in DOMAIN v.e |-> Pack(v.e[i])])
      [] v.t = "composite" -> LET f == Rekey(v.m, PackKey)
                              IN  Comp([k \in DOMAIN f |-> Pack(f[k])])
      [] OTHER             -> v

RECURSIVE Unpack(_)
Unpack(v) ==
    CASE v.t = "vector"    -> Vec([i \in DOMAIN v.e |-> Unpack(v.e[i])])
      [] v.t = "composite" -> LET f == Rekey(v.m, UnpackKey)
                              IN  Comp([k \in DOMAIN f |-> Unpack(f[k])])
      [] OTHER             -> v

-----------------------------------------------------------------------------
(* The writers: write_empty, write_bool, write_int, write_string,          *)
(* write_bytes: an id byte, then an 8-byte value or an 8-byte size and    *)
(* the bytes.                                                              *)
WriteScalar(v) ==
    CASE v.t = "empty"  -> <<Ids.empty>>
      [] v.t = "bool"   -> <<IF v.x THEN Ids.bool_true ELSE Ids.bool_false>>
      [] v.t = "int"    -> <<Ids.integer>> \o v.b
      [] v.t = "string" -> <<Ids.string>> \o LE(Len(v.s), 8) \o v.s
      [] v.t = "bytes"  -> <<Ids.bytes>> \o LE(Len(v.s), 8) \o v.s

WriteUintAsInt(v) == <<Ids.integer>> \o v.b

(* write_uint: the uint id, then the value's 8 bytes.                      *)
WriteUint(v) == <<Ids.uint>> \o v.b

(* write_bitfield: the booleans as bits, most significant first, preceded  *)
(* by the count of BYTES as a uint64.                                     *)
WriteBitfield(e) ==
    LET size  == Len(e)
        count == (size + 7) \div 8
        bit(i) == IF e[i + 1].x THEN 1 ELSE 0
        byte(n) == SumSet({bit(8 * n + k) * 2^(7 - k) :
                             k \in {j \in 0..7 : 8 * n + j < size}})
    IN  <<Ids.bitfield>> \o LE(count, 8) \o [n \in 1..count |-> byte(n - 1)]

\* write_vector's is_bitfield and write_composite's is_compact.
IsBitfield(e) == \A i \in DOMAIN e : e[i].t = "bool"
IsCompact(f)  == \A k \in DOMAIN f : k.t = "uint"

(* writedown, write_vector, write_composite, write_compact_composite.      *)
(* A vector of booleans (the empty vector too) is a bitfield.  A composite *)
(* whose keys are all uint is compact: each key as its raw 8 bytes, then   *)
(* the value.  Any other composite is written with the compact_composite  *)
(* id, then each key and value as packs.                                  *)
RECURSIVE Writedown(_)
Writedown(v) ==
    CASE v.t = "vector" ->
            IF IsBitfield(v.e) THEN WriteBitfield(v.e)
            ELSE <<Ids.vector>> \o LE(Len(v.e), 8)
                   \o FlattenSeq([i \in DOMAIN v.e |-> Writedown(v.e[i])])
      [] v.t = "composite" ->
            LET keys == SetToSeq(DOMAIN v.m)
            IN  <<Ids.compact_composite>> \o LE(Len(keys), 8)
                  \o FlattenSeq([i \in DOMAIN keys |->
                        (IF IsCompact(v.m) THEN keys[i].b ELSE Writedown(keys[i]))
                          \o Writedown(v.m[keys[i]])])
      [] v.t = "uint" -> WriteUint(v)
      [] OTHER -> WriteScalar(v)

(* encode: pack, then writedown.                                          *)
Encode(v) == Writedown(Pack(v))

-----------------------------------------------------------------------------
(* The readers.  A result is whether the read succeeded, the value and the *)
(* bytes left.  read(n) gives fewer than n bytes only at the end of the   *)
(* stream, and every reader fails then.                                   *)
Ok(v, rest) == [ok |-> TRUE, v |-> v, rest |-> rest]
Fail        == [ok |-> FALSE, v |-> Empty, rest |-> <<>>]

Drop(s, n) == SubSeq(s, n + 1, Len(s))

(* read_int, read_uint: 8 bytes.  read_string, read_bytes: an 8-byte size, *)
(* then that many bytes.                                                  *)
ReadFixed(s, kind) ==
    IF Len(s) < 8 THEN Fail ELSE Ok([t |-> kind, b |-> SubSeq(s, 1, 8)], Drop(s, 8))

ReadSized(s, kind) ==
    IF Len(s) < 8 THEN Fail
    ELSE LET n == Size(SubSeq(s, 1, 8)) IN
         IF Len(s) - 8 < n THEN Fail
         ELSE Ok([t |-> kind, s |-> SubSeq(s, 9, 8 + n)], Drop(s, 8 + n))

(* read_bitfield: a uint16 count of BITS, then the bytes holding them.    *)
(* With no bits the value stays the empty family.                         *)
ReadBitfield(s) ==
    IF Len(s) < 2 THEN Fail
    ELSE LET size  == s[1] + 256 * s[2]
             count == (size + 7) \div 8
             v     == SubSeq(s, 3, 2 + count)
         IN  IF Len(s) - 2 < count THEN Fail
             ELSE Ok(IF size = 0 THEN Empty
                     ELSE Vec([i \in 1..size |->
                            Bool((v[(i - 1) \div 8 + 1] \div 2^(7 - ((i - 1) % 8))) % 2 = 1)]),
                     Drop(s, 2 + count))

RECURSIVE ReadPack(_), ReadMany(_, _)

(* Read n packs one after the other.  Every pack takes at least one byte,  *)
(* so a count above the bytes left fails the same way the loop does.      *)
ReadMany(s, n) ==
    IF n = 0 THEN [ok |-> TRUE, vs |-> <<>>, rest |-> s]
    ELSE IF n > Len(s) THEN [ok |-> FALSE, vs |-> <<>>, rest |-> <<>>]
    ELSE LET r == ReadPack(s) IN
         IF ~r.ok THEN [ok |-> FALSE, vs |-> <<>>, rest |-> <<>>]
         ELSE LET m == ReadMany(r.rest, n - 1)
              IN  [m EXCEPT !.vs = <<r.v>> \o @]

(* read_vector, read_composite, read_compact_composite: an 8-byte count,   *)
(* then the packs; a count of zero leaves the empty family.  A composite   *)
(* reads key and value packs, a later key overwriting an earlier one; a    *)
(* compact composite reads only value packs, keyed 0, 1, ...              *)
ReadContainer(s, kind) ==
    IF Len(s) < 8 THEN Fail
    ELSE LET n    == Size(SubSeq(s, 1, 8))
             per  == IF kind = "composite" THEN 2 ELSE 1
             m    == ReadMany(Drop(s, 8), per * n)
             vs   == m.vs
             keyed == IF kind = "composite"
                      THEN FoldLeft(LAMBDA f, i : f @@ (vs[2 * i - 1] :> vs[2 * i]),
                                    <<>>, [i \in 1..n |-> n + 1 - i])
                      ELSE [k \in {UintV(i - 1) : i \in 1..n} |->
                              vs[CHOOSE i \in 1..n : UintV(i - 1) = k]]
         IN  IF ~m.ok THEN Fail
             ELSE Ok(IF n = 0 THEN Empty
                     ELSE IF kind = "vector" THEN Vec(vs) ELSE Comp(keyed),
                     m.rest)

(* read_pack: one id byte, then the reader of that kind; an unknown id     *)
(* fails.  The two boolean ids assign true or false but do not return, so  *)
(* control falls through to the empty id's `value = family {}`: a boolean  *)
(* reads back as the empty family.                                         *)
ReadPack(s) ==
    IF Len(s) < 1 THEN Fail
    ELSE LET id == s[1]
             r  == Drop(s, 1)
         IN  CASE id \in {Ids.bool_true, Ids.bool_false, Ids.empty} -> Ok(Empty, r)
               [] id = Ids.integer           -> ReadFixed(r, "int")
               [] id = Ids.string            -> ReadSized(r, "string")
               [] id = Ids.uint              -> ReadFixed(r, "uint")
               [] id = Ids.bytes             -> ReadSized(r, "bytes")
               [] id = Ids.bitfield          -> ReadBitfield(r)
               [] id = Ids.vector            -> ReadContainer(r, "vector")
               [] id = Ids.composite         -> ReadContainer(r, "composite")
               [] id = Ids.compact_composite -> ReadContainer(r, "compact")
               [] OTHER                      -> Fail

(* decode: the value read, or the empty family when the read fails.       *)
Decode(s) == LET r == ReadPack(s) IN IF r.ok THEN r.v ELSE Empty

-----------------------------------------------------------------------------
Init ==
    /\ input \in Inputs
    /\ stream = <<>>
    /\ output = Empty
    /\ step = "encode"

DoEncode ==
    /\ step = "encode"
    /\ stream' = Encode(input)
    /\ step' = "decode"
    /\ UNCHANGED <<input, output>>

DoDecode ==
    /\ step = "decode"
    /\ output' = Decode(stream)
    /\ step' = "unpack"
    /\ UNCHANGED <<input, stream>>

DoUnpack ==
    /\ step = "unpack"
    /\ output' = Unpack(output)
    /\ step' = "done"
    /\ UNCHANGED <<input, stream>>

Next == DoEncode \/ DoDecode \/ DoUnpack

Spec == Init /\ [][Next]_vars

-----------------------------------------------------------------------------
(* Round trip (encode, decode, unpack): the value read back from what      *)
(* encode wrote is the value that was encoded.                            *)
RoundTrip == step = "done" => output = input

=============================================================================
