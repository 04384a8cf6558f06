---------------------------- MODULE SignalRingMC ----------------------------
(* The ring with few slots: every position wraps around several times.      *)
EXTENDS SignalRing

CONSTANTS a, b
MCSignal == {a, b}
=============================================================================
