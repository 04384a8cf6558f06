------------------------------ MODULE Unicode -------------------------------
(***************************************************************************)
(* The unicode library (api/unicode.c), which cuts UTF-8 strings by        *)
(* character.  Lua passes a text, a sequence of characters, and the        *)
(* functions work on its bytes: each starts a character of some width or   *)
(* continues one.  utf8_decode is Lua's own and external.                  *)
(***************************************************************************)
EXTENDS Integers, SequencesExt

CONSTANTS
    Encoding,       \* the bytes of each character, of an invalid one too few;
                    \* the first one stands for the character
    Invalid,        \* the characters cut short
    Nul,            \* the character, and the byte, 0
    Continuation,   \* a byte that continues a character
    Absent,         \* no argument
    SizeMod,        \* 2^32: a size_t counts modulo this
    Texts, Indices  \* strings and numbers that Lua passes

ASSUME UnicodeAssumption ==
    /\ Nul \in DOMAIN Encoding \ Invalid /\ Encoding[Nul] = <<Nul>>
    /\ Continuation \notin DOMAIN Encoding
    /\ \A c \in DOMAIN Encoding :
           /\ Encoding[c] \in Seq({c, Continuation}) /\ Encoding[c] # <<>>
           /\ \A k \in DOMAIN Encoding[c] : Encoding[c][k] = IF k = 1 THEN c ELSE Continuation
    /\ Texts \subseteq Seq(DOMAIN Encoding) /\ Indices \subseteq Int
    /\ SizeMod \in Nat \ {0}

VARIABLE answer     \* the call and what it returned

Failure == "invalid UTF-8"
Bytes(text) == FlattenSeq([i \in DOMAIN text |-> Encoding[text[i]]])

(* How many bytes the character has that a byte starts.                      *)
Width(byte) ==
    IF byte = Continuation THEN 0
    ELSE Len(Encoding[byte]) + (IF byte \in Invalid THEN 1 ELSE 0)

-----------------------------------------------------------------------------
(* Positions count from 0, and a terminator follows the last byte.           *)
Byte(s, i) == IF i < Len(s) THEN s[i + 1] ELSE Nul

(* The position behind the character at i, or -1. *)
Utf8Decode(s, i) ==
    LET width == Width(Byte(s, i)) IN
    IF width > 0 /\ \A k \in 1 .. width - 1 : Byte(s, i + k) = Continuation
    THEN i + width ELSE -1

(* i after n rounds of the loop. *)
StringLength(s) ==
    LET i[n \in 0 .. Len(s)] ==
            IF n = 0 THEN 0
            ELSE IF i[n - 1] \in {-1, Len(s)} THEN i[n - 1]
            ELSE Utf8Decode(s, i[n - 1])
    IN  IF Byte(s, 0) = Nul THEN 0
        ELSE IF i[Len(s)] = -1 THEN -1
        ELSE Min({n \in 0 .. Len(s) : i[n] = Len(s)})

UnicodeLen(s) == IF StringLength(s) >= 0 THEN StringLength(s) ELSE Failure

UnicodeCharWidth(s) == IF Len(s) > 0 THEN 1 ELSE 0

(* The conversion of a lua_Integer to size_t. *)
SizeT(n) == n % SizeMod

UnicodeWtrunc(s, width) ==
    LET string[i \in 0 .. Len(s)] ==
            IF i = 0 THEN 0
            ELSE IF string[i - 1] = -1 \/ Byte(s, string[i - 1]) = Nul THEN string[i - 1]
            ELSE Utf8Decode(s, string[i - 1])
        last == string[Min({SizeT(width), Len(s)})]
    IN  IF last = -1 THEN Failure ELSE SubSeq(s, 1, last)

(* Mutant: the continuation bytes are not skipped. *)
OffsetToBytesPlain(s, n) == IF n <= 0 THEN 0 ELSE Min({n, Len(s)})

OffsetToBytes(s, n) ==
    LET Next(i) == CHOOSE k \in i + 1 .. Len(s) :
                       /\ Byte(s, k) # Continuation
                       /\ \A j \in i + 1 .. k - 1 : Byte(s, j) = Continuation
        posi[k \in 0 .. Len(s)] ==
            IF k = 0 THEN 0 ELSE IF posi[k - 1] < Len(s) THEN Next(posi[k - 1]) ELSE Len(s)
    IN  IF n <= 0 THEN 0 ELSE posi[Min({n, Len(s)})]

UnicodeSub(s, start, end) ==
    LET s_length == StringLength(s)
        from == IF start < 0 THEN OffsetToBytes(s, Max({start, -s_length}))
                ELSE IF start > 0 THEN OffsetToBytes(s, Min({start - 1, s_length}))
                ELSE 0
        to == IF end = Absent THEN Len(s)
              ELSE IF end < 0 THEN OffsetToBytes(s, Max({end + 1, -s_length}))
              ELSE OffsetToBytes(s, Min({end, s_length}))
    IN  IF s_length < 0 THEN Failure ELSE SubSeq(s, from + 1, to)

-----------------------------------------------------------------------------
Answer(function, arguments, result) ==
    answer' = [function |-> function, arguments |-> arguments, result |-> result]

NoAnswer == [function |-> "none"]
UnicodeInit == answer = NoAnswer

UnicodeCall ==
    /\ answer = NoAnswer
    /\ \E text \in Texts :
       \/ Answer("len", <<text>>, UnicodeLen(Bytes(text)))
       \/ Answer("charWidth", <<text>>, UnicodeCharWidth(Bytes(text)))
       \/ \E width \in Indices :
              Answer("wtrunc", <<text, width>>, UnicodeWtrunc(Bytes(text), width))
       \/ \E start \in Indices, end \in Indices \cup {Absent} :
              Answer("sub", <<text, start, end>>, UnicodeSub(Bytes(text), start, end))

-----------------------------------------------------------------------------
(* len counts characters, wtrunc returns the first ones up to a NUL, and sub *)
(* those from one position to another, whatever they are encoded in; a       *)
(* character cut short makes them fail when they meet it.  A string that     *)
(* begins with NUL has no characters for len and sub, and sub without an end *)
(* returns it whole.  The width of wtrunc counts modulo 2^32: a negative one *)
(* is a large one, and 2^32 is none.  Of a negative index of sub only the    *)
(* failure is claimed; NegativesFromEnd says what it should mean.            *)
Valid(text) == Range(text) \cap Invalid = {}
Length(text) == IF text # <<>> /\ Head(text) = Nul THEN 0 ELSE Len(text)
Seen(text) == IF Length(text) = 0 THEN <<>> ELSE text
Slice(text, start, end) ==
    SubSeq(text, Min({Max({start, 1}) - 1, Length(text)}) + 1,
           IF end = Absent THEN Len(text) ELSE Min({end, Length(text)}))
Truncated(text, width) ==
    LET nul == SelectInSeq(text, LAMBDA c : c = Nul)
        all == IF nul = 0 THEN text ELSE SubSeq(text, 1, nul - 1)
    IN  SubSeq(all, 1, Min({width, Len(all)}))
Counted(index) == index = Absent \/ index >= 0

SlicesByCharacter ==
    LET arguments == answer.arguments
        text == arguments[1]
    IN  /\ answer.function = "len" =>
               answer.result = IF Valid(Seen(text)) THEN Length(text) ELSE Failure
        /\ answer.function = "sub" =>
               IF ~Valid(Seen(text)) THEN answer.result = Failure
               ELSE Counted(arguments[2]) /\ Counted(arguments[3]) =>
                        answer.result = Bytes(Slice(text, arguments[2], arguments[3]))
        /\ answer.function = "wtrunc" =>
               LET seen == Truncated(text, SizeT(arguments[2]))
               IN  answer.result = IF Valid(seen) THEN Bytes(seen) ELSE Failure

(* unicode.c:98 says that unicode_sub is "translated from OpenComputers'     *)
(* source code", where, as in Lua's string.sub, -1 is the last character and *)
(* an index before the first one is cut off at it, as the code's             *)
(* MAX(start, -s_length) does.                                               *)
FromEnd(text, index) ==
    IF Counted(index) THEN index ELSE Max({Length(text) + index + 1, 0})
NegativesFromEnd ==
    answer.function = "sub" =>
        LET text == answer.arguments[1] IN
        Valid(text) =>
            answer.result = Bytes(Slice(text, FromEnd(text, answer.arguments[2]),
                                        FromEnd(text, answer.arguments[3])))
=============================================================================
