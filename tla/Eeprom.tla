------------------------------- MODULE Eeprom -------------------------------
(***************************************************************************)
(* The C heap that Lua's libraries share, and the eeprom component         *)
(* (component/eeprom.c), which keeps one string on it for setData and      *)
(* getData.  malloc may fail at any time, for the blocks stand for memory  *)
(* of every size.                                                          *)
(***************************************************************************)
EXTENDS Integers, Sequences, FiniteSets, Functions

CONSTANTS
    Blocks,         \* addresses malloc can return
    Stored,         \* strings Lua passes to setData, sequences of bytes
    Terminator,     \* the byte 0
    NULL

ASSUME EepromAssumption == NULL \notin Blocks

VARIABLES
    heap,           \* the blocks in use, with the string each holds
    data,           \* eeprom_data.data
    kept            \* what the last setData has stored, NULL if it failed

eeprom_vars == <<data, kept>>

Free == Blocks \ DOMAIN heap
Bind(f, key, value) == [x \in DOMAIN f \cup {key} |-> IF x = key THEN value ELSE f[x]]
Malloc(block, string) == heap' = Bind(heap, block, string)
Without(f, keys) == Restrict(f, DOMAIN f \ keys)

EepromInit == heap = << >> /\ data = NULL /\ kept = NULL

(* What strlen and strcpy see of a string that Lua passes. *)
CString(string) ==
    IF Terminator \in Range(string)
    THEN SubSeq(string, 1, (CHOOSE n \in DOMAIN string :
                                string[n] = Terminator /\ \A m \in 1 .. n - 1 : string[m] # Terminator) - 1)
    ELSE string

EepromGetData == IF data = NULL THEN NULL ELSE heap[data]

(* The old string is freed before there is memory for the new one, which may *)
(* take its place.                                                           *)
EepromSetData(new_data) ==
    LET rest == Without(heap, {data}) IN
    \E block \in Blocks \ DOMAIN rest :
        /\ heap' = Bind(rest, block, CString(new_data))
        /\ data' = block /\ kept' = CString(new_data)

(* Mutant: the pointer is stored only when there is memory. *)
EepromSetDataFailsDangling ==
    heap' = Without(heap, {data}) /\ data' = data /\ kept' = NULL

EepromSetDataFails ==
    heap' = Without(heap, {data}) /\ data' = NULL /\ kept' = NULL

(* getData returns what the last setData was given, up to the first NUL, or  *)
(* nil after one that found no memory: no other call's memory is in between, *)
(* and none of theirs is freed with it.                                      *)
DataKept == (data # NULL => data \in DOMAIN heap) /\ EepromGetData = kept
=============================================================================
