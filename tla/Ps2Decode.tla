----------------------------- MODULE Ps2Decode ------------------------------
(***************************************************************************)
(* What one scancode byte means to ps2.c: the flag byte of ps2_interrupt   *)
(* and the signal queue_key_signal builds.  A key is its raw code, the     *)
(* scancode with bit 8 set when the 0xE0 prefix came first.  Characters    *)
(* and LWJGL key codes are named by the table entry they come from.        *)
(***************************************************************************)
EXTENDS Integers, Sequences

CONSTANTS
    NoSignal,   \* no signal built
    Nothing     \* a zero character or key code

Extended == \hE0        \* prefix of an extended key
Break == \hF0           \* prefix of a release

(* The entries of unshifted[] and shifted[] that hold a character; both      *)
(* tables have 128 entries and agree on which are empty.                     *)
TableSize == 128
Printable ==
    (13 .. 14) \cup (21 .. 22) \cup (26 .. 30) \cup (33 .. 38) \cup (41 .. 46)
    \cup (49 .. 54) \cup (58 .. 62) \cup (65 .. 70) \cup (73 .. 78) \cup {82}
    \cup (84 .. 85) \cup (90 .. 91) \cup {93, 102, 105} \cup (107 .. 108)
    \cup (112 .. 118) \cup (121 .. 125)

(* The raw codes with a key code: keycodes[] for the plain keys (which has   *)
(* none for the apostrophe, 0x52), keycodes_sparse[] for the extended ones.  *)
PlainKeys ==
    (Printable \ {82}) \cup (3 .. 7) \cup (9 .. 12) \cup (17 .. 18) \cup (88 .. 89)
    \cup {1, 20, 119, 120, 126, 131}
ExtendedKeys ==
    {\h111, \h114, \h11f, \h127, \h12f, \h14a, \h15a, \h169, \h16b, \h16c, \h170,
     \h171, \h172, \h174, \h175, \h17a, \h17d}
KnownKeys == PlainKeys \cup ExtendedKeys

(* The character of a key.  An index past the end of the table (F7 is 0x83)  *)
(* reads whatever the linker put there: no character, or any.                *)
Characters(raw, flags) ==
    LET index == raw % 256
        entry == [table |-> IF "SHIFT" \in flags THEN "shifted" ELSE "unshifted",
                  index |-> index]
    IN  IF flags \cap {"CTRL", "ALT"} # {} THEN {Nothing}
        ELSE IF index >= TableSize THEN {Nothing, entry}
        ELSE IF index \in Printable THEN {entry} ELSE {Nothing}

Code(raw) == IF raw \in KnownKeys THEN raw ELSE Nothing

(* The signals queue_key_signal may build; NoSignal when it returns early.   *)
KeySignals(raw, flags) ==
    { IF c = Nothing /\ Code(raw) = Nothing THEN NoSignal
      ELSE [name |-> IF "BREAK" \in flags THEN "key_up" ELSE "key_down",
            character |-> c,
            code |-> Code(raw)] :
      c \in Characters(raw, flags) }

(* The modifier a key sets while it is held, if any. *)
Modifier(raw) ==
    CASE raw \in {\h12, \h59}  -> {"SHIFT"}
      [] raw \in {\h14, \h114} -> {"CTRL"}
      [] raw \in {\h11, \h111} -> {"ALT"}
      [] OTHER                 -> {}

WithModifier(raw, flags) ==
    IF "BREAK" \in flags THEN flags \ Modifier(raw) ELSE flags \cup Modifier(raw)

(* Mutant: the extended prefix is ignored. *)
RawCodeUnextended(byte, flags) == byte

RawCode(byte, flags) == IF "EXT" \in flags THEN byte + 256 ELSE byte

-----------------------------------------------------------------------------
(* What the keyboard sends for a key (scancode set 2). *)
Scancodes(raw, up) ==
    (IF raw >= 256 THEN <<Extended>> ELSE <<>>)
    \o (IF up THEN <<Break>> ELSE <<>>)
    \o <<raw % 256>>
=============================================================================
