------------------------------- MODULE BootMC -------------------------------
(* The letter E, whose set 1 code is a shift in set 2 and, as a              *)
(* configuration, switches the keyboard off; the shift key itself.  Firmware *)
(* that leaves the keyboard's interrupt on, and one that leaves it off.      *)
EXTENDS Boot

MCLine == {1, 8}
MCKey == {\h24, \h12, \h114}
MCSet1 == [raw \in MCKey |-> CASE raw = \h24 -> \h12 [] raw = \h12 -> \h2A [] raw = \h114 -> \h1D]
MCFirmware == {\h45, \h44}
=============================================================================
