------------------------------ MODULE LuaApiMC ------------------------------
(* Up to two queued signals, one running call, what the eeprom keeps and what *)
(* earlier failures have left behind, in five blocks; signals with no, one    *)
(* and two arguments.  Components with no, one and three methods.  Texts of   *)
(* up to three characters of one and two bytes, with NULs and one cut short;   *)
(* widths on both sides of a size_t of three bits.                             *)
EXTENDS LuaApi

CONSTANTS b1, b2, b3, b4, b5, k1, k2, k3, k4

MCArguments == {<<>>, <<"x">>, <<"y", "x">>}
MCStored == {<<"x">>, <<"y", Terminator, "x">>}
MCParts == <<
    [name |-> "eeprom", address |-> "1", data |-> "eeprom_data", methods |-> <<"get", "setData">>],
    [name |-> "screen", address |-> "2", data |-> "gpu", methods |-> <<"isOn">>],
    [name |-> "gpu", address |-> "3", data |-> "gpu", methods |-> <<"getPaletteColor", "get", "set">>],
    [name |-> "keyboard", address |-> "4", data |-> "none", methods |-> <<>>] >>
MCSubstrings == {<<part.name, part.name>> : part \in Range(MCParts)}
MCPassed == {<<>>, <<"x">>, <<"x", "y", "x">>}
MCEncoding == [c \in {Nul, "a", "e", "cut"} |->
    IF c = "e" THEN <<"e", Continuation>> ELSE <<c>>]
MCTexts == UNION {[1 .. n -> DOMAIN MCEncoding] : n \in 0 .. 3}
MCIndices == -5 .. 9
MCBlocks == {b1, b2, b3, b4, b5}
MCKeys == {k1, k2, k3, k4}
Symmetric == Permutations(MCBlocks) \cup Permutations(MCKeys)
=============================================================================
