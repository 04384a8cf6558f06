---------------------------- MODULE SignalIrqMC -----------------------------
(* One Lua signal and the keys that exercise the decoder: a letter, the two  *)
(* shifts, the right one held from the start, and the right arrow, an        *)
(* extended key whose code has a character as well.                          *)
EXTENDS SignalIrq

CONSTANT ping

AllLines == {0, 1, 8}
MCLuaSignal == {ping}
Letter == {\h1C}
ShiftsAndArrow == {\h12, \h59, \h174}
RightShift == {\h59}
NoKey == {}
=============================================================================
