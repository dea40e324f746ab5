------------------------------- MODULE Codec -------------------------------
(***************************************************************************)
(* The reflection codec: the members of an aggregate, in order and without *)
(* padding, as big-endian bytes.                                           *)
(*                                                                         *)
(* A type is the sequence of its members, and a member the sequence of its *)
(* primitives: one of them, or those of a nested aggregate or an array of  *)
(* bytes.  A primitive has a width and says what its bytes stand for; an   *)
(* enum is its underlying type and a float the integer with its bits.      *)
(* Values have the shape of their type.                                    *)
(***************************************************************************)
EXTENDS Integers, Sequences, SequencesExt

CONSTANT Base  \* the number of values of a byte: 2^8

ASSUME CodecAssumption == Base \in Nat \ {0, 1}

Unsigned(w) == [width |-> w, as |-> "unsigned"]
Signed(w)   == [width |-> w, as |-> "signed"]
Bool        == [width |-> 1, as |-> "bool"]
Primitives  == [width : Nat \ {0}, as : {"unsigned", "signed", "bool"}]

(* The number of values of so many bytes.                                  *)
Power[w \in Nat] == IF w = 0 THEN 1 ELSE Base * Power[w - 1]

(* The types that can be read again (a member without bytes at the end     *)
(* cannot), and the values of a type.                                      *)
IsType(type) == type \in Seq(Seq(Primitives) \ {<<>>})
InRange(p, v) ==
  IF p.as = "bool" THEN v \in BOOLEAN
  ELSE IF p.as = "unsigned" THEN v \in Nat /\ v < Power[p.width]
  ELSE v \in Int /\ -Power[p.width] <= 2 * v /\ 2 * v < Power[p.width]
HasType(value, type) ==
  /\ value = [i \in DOMAIN type |-> [j \in DOMAIN type[i] |-> value[i][j]]]
  /\ \A i \in DOMAIN type : \A j \in DOMAIN type[i] : InRange(type[i][j], value[i][j])

(* write_u16_be and write_u32_be, and the values they are used on: those   *)
(* that are wider than 32 bits are written in halves.                      *)
BigEndian_Reversed(n, w) == [i \in 1 .. w |-> (n \div Power[i - 1]) % Base]
BigEndian(n, w) == [i \in 1 .. w |-> (n \div Power[w - i]) % Base]
serialize_primitive(p, v) ==
  BigEndian(IF p.as = "bool" THEN IF v THEN 1 ELSE 0 ELSE v % Power[p.width], p.width)

(* deserialize_u8 to deserialize_f64.                                      *)
Number(bytes) == FoldLeft(LAMBDA n, b : n * Base + b, 0, bytes)
deserialize_primitive(p, bytes) ==
  LET n == Number(bytes)
      w == p.width
  IN IF p.as = "bool" THEN n # 0
     ELSE IF p.as = "signed" /\ 2 * n >= Power[w] THEN n - Power[w]
     ELSE n

(* serialize_members and deserialize_members: the offset of each is what   *)
(* those before it took.                                                   *)
OffsetOf(widths, i) == FoldLeft(LAMBDA n, w : n + w, 0, SubSeq(widths, 1, i - 1))
Widths(member) == [i \in DOMAIN member |-> member[i].width]
Width(member)  == OffsetOf(Widths(member), Len(member) + 1)
MemberWidths(type) == [i \in DOMAIN type |-> Width(type[i])]
serialize_field(member, value) ==
  FlattenSeq([i \in DOMAIN member |-> serialize_primitive(member[i], value[i])])
deserialize_field(member, bytes) ==
  LET at(i) == OffsetOf(Widths(member), i)
  IN [i \in DOMAIN member |->
        deserialize_primitive(member[i], SubSeq(bytes, at(i) + 1, at(i) + member[i].width))]

(* serialize: each member is written and then its end is compared with the *)
(* size, so what fits is written whole.                                    *)
Size(type) == OffsetOf(MemberWidths(type), Len(type) + 1)
Serialized(type, value) == FlattenSeq([i \in DOMAIN type |-> serialize_field(type[i], value[i])])
Fits(type, size) == \A i \in DOMAIN type : OffsetOf(MemberWidths(type), i + 1) <= size

(* deserialize: each member must begin inside the buffer.  What lies after *)
(* the buffer is read if the last one ends outside.                        *)
Readable(type, size) == \A i \in DOMAIN type : OffsetOf(MemberWidths(type), i) < size
Deserialized(type, bytes) ==
  [i \in DOMAIN type |->
     LET from == OffsetOf(MemberWidths(type), i)
     IN deserialize_field(type[i], SubSeq(bytes, from + 1, from + Width(type[i])))]
=============================================================================
