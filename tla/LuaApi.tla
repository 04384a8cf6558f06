------------------------------- MODULE LuaApi -------------------------------
(***************************************************************************)
(* What the kernel offers Lua: the computer library's signals with the     *)
(* eeprom on the same heap, the component registry and the unicode         *)
(* library.  They share no state beyond that, so that a behaviour is about *)
(* one of them (running).                                                  *)
(***************************************************************************)
EXTENDS LuaSignals, Components, Unicode

VARIABLE running

vars == <<heap, data, kept, signals_vars, registry_vars, answer, running>>

Init ==
    /\ SignalsInit /\ ComponentsInit /\ UnicodeInit
    /\ running \in {"signals", "components", "unicode"}

Next ==
    /\ \/ running = "signals" /\ SignalsNext /\ UNCHANGED <<registry_vars, answer>>
       \/ /\ running = "components" /\ Register
          /\ UNCHANGED <<heap, eeprom_vars, signals_vars, answer>>
       \/ /\ running = "unicode" /\ UnicodeCall
          /\ UNCHANGED <<heap, eeprom_vars, signals_vars, registry_vars>>
    /\ UNCHANGED running

Spec == Init /\ [][Next]_vars
=============================================================================
