--------------------------------- MODULE MCDemo ---------------------------------
(***************************************************************************)
(* Two engines for the demo: one that offers candidates and previews them, *)
(* one that revises what it committed.  Text is one byte or two to a       *)
(* character, so that a position and an offset differ.                     *)
(***************************************************************************)
EXTENDS DemoProperties

SmallSlots    == {0, 1}
FirstEngine   == {0}
SecondEngine  == {1}
NoEngine      == {}
OneAccented   == {<<233>>}
OneDigit      == {49}
DigitPasted   == {<<49>>}
TwoTables     == <<"wubi", "cangjie">>

\* The first and last scalar of each length, the surrogates and the end.
EncodingBoundaries ==
  {0, 1, 127, 128, 160, 233, 255, 256, 2047, 2048, 12354, 55295, 55296, 57343, 57344,
   65535, 65536, 127872, 1114111, 1114112}

\* Leads and continuations on either side of every limit the decoder tests.
ByteBoundaries ==
  {0, 97, 127, 128, 143, 144, 159, 160, 191, 192, 193, 194, 223, 224, 237, 239, 240, 244,
   245}
================================================================================
