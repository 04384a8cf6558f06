-------------------------------- MODULE Pic ---------------------------------
(***************************************************************************)
(* The pair of 8259 interrupt controllers as init_idt programs them        *)
(* (interrupts.c): edge triggered, fully nested, no automatic end of       *)
(* interrupt, every line unmasked, the secondary cascaded into line 2 of   *)
(* the primary.  Lines are numbered 0..15; 8..15 are the secondary's.      *)
(* Hardware outside src/, modelled from how the code programs it and from  *)
(* the end-of-interrupt commands isr_handler sends.                        *)
(***************************************************************************)
EXTENDS Integers, FiniteSets, FiniteSetsExt

CONSTANT Line       \* the lines a device is attached to

ASSUME LineAssumption == Line \subseteq (0 .. 15) \ {2}

VARIABLES
    irr,            \* lines with a latched request
    isr             \* lines in service, with 2 for the whole secondary

Cascade == 2
Primary == 0 .. 7
Secondary == 8 .. 15

PicInit == irr = {} /\ isr = {}

-----------------------------------------------------------------------------
(* The smallest number has the highest priority, and a chip passes a request *)
(* on only if it beats everything the chip has in service.                   *)
Beats(line, chip) == \A l \in isr \cap chip : line < l

SecondaryAsks == \E l \in irr \cap Secondary : Beats(l, Secondary)

Asking == (irr \cap Primary) \cup (IF SecondaryAsks THEN {Cascade} ELSE {})

(* The primary holds the processor's INTR pin high. *)
Pending == \E l \in Asking : Beats(l, Primary)

(* The line acknowledged, and what acknowledging puts in service. *)
Acknowledged ==
    IF Min(Asking) = Cascade THEN Min(irr \cap Secondary) ELSE Min(Asking)

RaiseLine(line) == irr' = irr \cup {line}

(* Mutant: the controllers set to end interrupts by themselves. *)
AutomaticEnd == irr' = irr \ {Acknowledged} /\ isr' = isr

Acknowledge ==
    /\ irr' = irr \ {Acknowledged}
    /\ isr' = isr \cup {Acknowledged} \cup (IF Acknowledged \in Secondary THEN {Cascade} ELSE {})

(* The non-specific end-of-interrupt command: the chip retires the highest   *)
(* priority line it has in service, whichever handler sends the command.     *)
EndOfInterrupt(chip) ==
    /\ isr' = isr \ (IF isr \cap chip = {} THEN {} ELSE {Min(isr \cap chip)})
    /\ irr' = irr
=============================================================================
