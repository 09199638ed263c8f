---------------------------------- MODULE Utf8 ----------------------------------
(***************************************************************************)
(* Text at the boundary (src/utf8.cc): which byte strings this API takes   *)
(* for text, the conversions between a byte offset and a scalar position,  *)
(* and the encoding of what a backend produces.  Bytes are numbers, and a  *)
(* position counts from 0 as it does in the code.                          *)
(***************************************************************************)
EXTENDS Naturals, Sequences, SequencesExt, FiniteSets

\* Neither U+0000 nor a surrogate can be carried.
IsScalarValue(v) == v # 0 /\ v <= 1114111 /\ v \notin 55296..57343

Continues(byte) == byte \div 64 = 2

\* How many bytes the sequence begun by `lead` has, 0 if nothing begins so.
SequenceLength(lead) ==
  CASE lead \in 1..127 -> 1
    [] lead \div 32 = 6 -> 2
    [] lead \div 16 = 14 -> 3
    [] lead \div 8 = 30 -> 4
    [] OTHER -> 0

\* What the first byte of a sequence contributes, and the lowest scalar a
\* sequence of each length may encode.
LeadBits(lead, length) == lead % <<128, 32, 16, 8>>[length]
LowestLegal == <<0, 128, 2048, 65536>>

Assemble(s, first, length) ==
  LET lead == LeadBits(s[first], length)
      six(k) == s[first + k] % 64
  IN CASE length = 1 -> lead
       [] length = 2 -> lead * 64 + six(1)
       [] length = 3 -> lead * 4096 + six(1) * 64 + six(2)
       [] length = 4 -> lead * 262144 + six(1) * 4096 + six(2) * 64 + six(3)

\* decode_one at offset i. A length of 0 refuses what stands there.
\* Mutation: the overlong forms are let through.
DecodeOneLoose(s, i) ==
  LET length == SequenceLength(s[i + 1])
      scalar == Assemble(s, i + 1, length)
  IN IF /\ length # 0
        /\ i + length <= Len(s)
        /\ \A k \in (i + 2)..(i + length) : Continues(s[k])
        /\ IsScalarValue(scalar)
     THEN [length |-> length, scalar |-> scalar]
     ELSE [length |-> 0, scalar |-> 0]

DecodeOne(s, i) ==
  LET length == SequenceLength(s[i + 1])
      scalar == Assemble(s, i + 1, length)
  IN IF /\ length # 0
        /\ i + length <= Len(s)
        /\ \A k \in (i + 2)..(i + length) : Continues(s[k])
        /\ scalar >= LowestLegal[length] /\ IsScalarValue(scalar)
     THEN [length |-> length, scalar |-> scalar]
     ELSE [length |-> 0, scalar |-> 0]

\* utf8_validate: the scalars of a text, or that it is none.
Decode(s) ==
  LET from[i \in 0..Len(s)] ==
        IF i = Len(s) THEN [ok |-> TRUE, scalars |-> <<>>]
        ELSE LET one == DecodeOne(s, i)
             IN IF one.length = 0 THEN [ok |-> FALSE, scalars |-> <<>>]
                ELSE [from[i + one.length] EXCEPT !.scalars = <<one.scalar>> \o @]
  IN from[0]

Valid(s) == Decode(s).ok

\* utf8_scalar_count, of a text already found valid.
Starts(s) == {i \in 0..(Len(s) - 1) : ~Continues(s[i + 1])}
ScalarCount(s) == Cardinality(Starts(s))

\* utf8_byte_offset: the offsets one scalar position has, at most one. One past
\* the last scalar is a position.
ByteOffset(s, k) ==
  {i \in Starts(s) \cup {Len(s)} : Cardinality({j \in Starts(s) : j < i}) = k}

\* utf8_scalar_index: no position inside a sequence, nor past the end.
ScalarIndex(s, i) ==
  IF i \in Starts(s) \cup {Len(s)} THEN {Cardinality({j \in Starts(s) : j < i})} ELSE {}

\* utf8_append_scalar
Trail(bits) == 128 + (bits % 64)

Encode(v) ==
  IF v < 128 THEN <<v>>
  ELSE IF v < 2048 THEN <<192 + (v \div 64), Trail(v)>>
  ELSE IF v < 65536 THEN <<224 + (v \div 4096), Trail(v \div 64), Trail(v)>>
  ELSE <<240 + (v \div 262144), Trail(v \div 4096), Trail(v \div 64), Trail(v)>>

\* utf8_from_ucs4: all of it or nothing.
FromUcs4(units) ==
  IF \A i \in DOMAIN units : IsScalarValue(units[i])
  THEN FlattenSeq([i \in DOMAIN units |-> Encode(units[i])])
  ELSE <<>>
================================================================================
