-------------------------------- MODULE DemoText --------------------------------
(***************************************************************************)
(* How the demo client handles text and keys (demo/src/text.cc, keymap.cc, *)
(* render.cc).  It walks its document by lead bytes alone, tolerating      *)
(* anything, where the library decodes and refuses; and it turns what its  *)
(* terminal delivers into the key events the library reads.                *)
(***************************************************************************)
EXTENDS Utf8, Keys

-------------------------------------------------------------------------------
(* text.cc.                                                                *)

\* sequence_length at offset i: never past the end, and 1 for what begins nothing.
Step(s, i) ==
  LET lead == s[i + 1]
      length == CASE lead \div 32 = 6 -> 2 [] lead \div 16 = 14 -> 3
                  [] lead \div 8 = 30 -> 4 [] OTHER -> 1
  IN IF i + length > Len(s) THEN 1 ELSE length

\* The offsets a walk from the start of the text visits, in order.
Walk(s) ==
  LET from[i \in 0..Len(s)] == IF i = Len(s) THEN <<i>> ELSE <<i>> \o from[i + Step(s, i)]
  IN from[0]

\* scalar_count and byte_offset_of_scalar, which stops at the end.
CountScalars(s) == Len(Walk(s)) - 1
OffsetOfScalar(s, k) == IF k < Len(Walk(s)) THEN Walk(s)[k + 1] ELSE Len(s)

\* erase_scalars and last_scalars
EraseScalars(s, start, count) ==
  SubSeq(s, 1, OffsetOfScalar(s, start))
    \o SubSeq(s, OffsetOfScalar(s, start + count) + 1, Len(s))

LastScalars(s, count) ==
  IF count >= CountScalars(s) THEN s
  ELSE SubSeq(s, OffsetOfScalar(s, CountScalars(s) - count) + 1, Len(s))

-------------------------------------------------------------------------------
(* keymap.cc.                                                              *)

\* A key of the terminal: one it has a name for, or the character it types,
\* with the modifiers a terminal reports.
Named == [Backspace |-> 65288, Tab |-> 65289, Enter |-> 65293, Esc |-> 65307,
          Del |-> 65535, Home |-> 65360, ArrowLeft |-> 65361, ArrowUp |-> 65362,
          ArrowRight |-> 65363, ArrowDown |-> 65364, End |-> 65367]

\* The character the key types with Shift, read backwards from kShifted.
ShiftRow ==
  <<<<33, 49>>, <<64, 50>>, <<35, 51>>, <<36, 52>>, <<37, 53>>, <<94, 54>>,
    <<38, 55>>, <<42, 56>>, <<40, 57>>, <<41, 48>>, <<95, 45>>, <<43, 61>>,
    <<123, 91>>, <<125, 93>>, <<124, 92>>, <<58, 59>>, <<34, 39>>, <<60, 44>>,
    <<62, 46>>, <<63, 47>>, <<126, 96>>>>

Unshift(c) ==
  IF c \in Upper THEN {c + 32} ELSE {p[2] : p \in {q \in ToSet(ShiftRow) : q[1] = c}}

\* to_pathime_key, for a named key ...
NamedEvent(name) == [keysym |-> Named[name], layout |-> Named[name], held |-> {}]

\* ... and for a printable one: the layout key is recovered for ASCII alone.
KeysymForScalar(c) == IF c < 256 THEN c ELSE UnicodeKeysymBase + c

\* Mutation: the position of a shifted character is left as the character.
ToPathimeKeyFlat(c) ==
  [keysym |-> KeysymForScalar(c), layout |-> IF c < 128 THEN c ELSE 0,
   held |-> IF c < 128 /\ Unshift(c) # {} THEN {"shift"} ELSE {}]

ToPathimeKey(c) ==
  LET below == Unshift(c)
  IN [keysym |-> KeysymForScalar(c),
      layout |-> IF c >= 128 THEN 0 ELSE IF below = {} THEN c ELSE CHOOSE u \in below : TRUE,
      held   |-> IF c < 128 /\ below # {} THEN {"shift"} ELSE {}]

\* keysym_scalar: the characters a declined event inserts, none for a named key.
KeysymScalar(keysym) ==
  IF keysym < 256 THEN {keysym}
  ELSE IF keysym \div UnicodeKeysymBase = 1 THEN {keysym % UnicodeKeysymBase}
  ELSE {}
=================================================================================
