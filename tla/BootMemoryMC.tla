---------------------------- MODULE BootMemoryMC ----------------------------
(* A machine of eight addresses, with maps of one or two regions that may   *)
(* touch the last address, cross it or lie above it, and objects anywhere.   *)
EXTENDS BootMemory

MCEntry ==
    [base_addr : {0, 2, 5, 8}, length : {2, 3, 6, 10}, available : {TRUE}]
      \cup {[base_addr |-> 1, length |-> 6, available |-> FALSE]}
MCMap == {<<e>> : e \in MCEntry} \cup (MCEntry \X MCEntry)
MCExtent == {[start |-> s, end |-> e] : s, e \in {0, 1, 2, 4, 6, 7}}
MCLoaded == {x \in MCExtent : x.start < x.end /\ x.end - x.start <= 2}
=============================================================================
