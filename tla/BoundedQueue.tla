---------------------------- MODULE BoundedQueue ----------------------------
(***************************************************************************)
(* What the signal queue of api/computer.c promises the rest of the        *)
(* kernel: a first-in first-out queue of at most Capacity signals.  A put  *)
(* is refused exactly when the queue is full, a take finds nothing exactly *)
(* when it is empty, and neither of these changes the queue.               *)
(***************************************************************************)
EXTENDS Integers, Sequences

CONSTANTS
    Capacity,   \* most signals the queue holds
    Signal,     \* the signals that can be queued
    NoSignal    \* what a take from an empty queue returns

VARIABLES
    queue,      \* the queued signals, oldest first
    taken,      \* what the last take returned
    refused     \* whether the last put was refused

vars == <<queue, taken, refused>>

Init == queue = <<>> /\ taken = NoSignal /\ refused = FALSE

Put(s) ==
    /\ Len(queue) < Capacity
    /\ queue' = Append(queue, s)
    /\ refused' = FALSE
    /\ taken' = taken

Refuse ==
    /\ Len(queue) = Capacity
    /\ refused' = TRUE
    /\ UNCHANGED <<queue, taken>>

Take ==
    /\ queue # <<>>
    /\ taken' = Head(queue)
    /\ queue' = Tail(queue)
    /\ refused' = refused

TakeNothing ==
    /\ queue = <<>>
    /\ taken' = NoSignal
    /\ UNCHANGED <<queue, refused>>

Next == Take \/ TakeNothing \/ Refuse \/ \E s \in Signal : Put(s)

Spec == Init /\ [][Next]_vars
=============================================================================
