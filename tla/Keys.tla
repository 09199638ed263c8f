---------------------------------- MODULE Keys ----------------------------------
(***************************************************************************)
(* Key events as the library reads them (src/keys.cc, KeyEvent in          *)
(* src/backend.h).  A keysym is a scalar below U+0100, its scalar plus     *)
(* 0x01000000 from there on, or one of the named keys of the 0xff00 page.  *)
(* layout is the keysym of the physical key with nothing held, 0 for none. *)
(***************************************************************************)
EXTENDS Naturals, Sequences, SequencesExt

UnicodeKeysymBase == 16777216

KeyEvent == [keysym : Nat, layout : Nat,
             held : SUBSET {"shift", "control", "alt", "super", "caps", "numlock"}]

\* key_event_from_public: the only keysym the library refuses.
Acceptable(event) == event.keysym # 0

\* is_chorded: a shortcut of the client's.
IsChorded(event) == event.held \cap {"control", "alt", "super"} # {}

\* keysym_to_scalar: 0 for a key that denotes no character.
KeysymToScalar(keysym) ==
  LET scalar == keysym - UnicodeKeysymBase
  IN IF keysym \in 32..255 \ {127} THEN keysym
     ELSE IF /\ keysym > UnicodeKeysymBase /\ scalar <= 1114111
             /\ scalar \notin 55296..57343
          THEN scalar ELSE 0

\* keysym_to_ascii
KeysymToAscii(keysym) ==
  IF KeysymToScalar(keysym) \in 32..126 THEN KeysymToScalar(keysym) ELSE 0

Lower == 97..122
Upper == 65..90

\* shifted_ascii: the US-QWERTY shift row, `1234567890-=[]\;',./ over
\* ~!@#$%^&*()_+{}|:"<>?
Unshifted == <<96, 49, 50, 51, 52, 53, 54, 55, 56, 57, 48, 45, 61, 91, 93, 92, 59,
               39, 44, 46, 47>>
Shifted   == <<126, 33, 64, 35, 36, 37, 94, 38, 42, 40, 41, 95, 43, 123, 125, 124,
               58, 34, 60, 62, 63>>

ShiftedAscii(c) ==
  IF c \in Lower THEN c - 32
  ELSE IF Contains(Unshifted, c)
       THEN Shifted[CHOOSE i \in DOMAIN Unshifted : Unshifted[i] = c]
       ELSE c

Swapped(c) == CASE c \in Lower -> c - 32 [] c \in Upper -> c + 32 [] OTHER -> c

\* us_layout_char: the character on the key, with Shift applied; CapsLock is
\* undone only where the keysym stands in for the key. 0 off the ASCII keys.
PositionKey(event) == IF event.layout # 0 THEN event.layout ELSE event.keysym

UsLayoutChar(event) ==
  LET k == PositionKey(event)
      c == IF event.layout = 0 /\ "caps" \in event.held THEN Swapped(k) ELSE k
  IN IF k \notin 32..126 THEN 0
     ELSE IF "shift" \in event.held THEN ShiftedAscii(c) ELSE c
=================================================================================
