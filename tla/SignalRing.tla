----------------------------- MODULE SignalRing -----------------------------
(***************************************************************************)
(* The signal ring of api/computer.c: a static array of MAX_SIGNALS slots, *)
(* the number of signals in it and the slot of the oldest one.  Here       *)
(* queue_signal and dequeue_signal are one step each, which is what their  *)
(* cli/sti sections are for; SignalIrq splits them into their machine      *)
(* steps among interrupts and refines this module.                         *)
(***************************************************************************)
EXTENDS Integers, Sequences

CONSTANTS
    MAX_SIGNALS,    \* slots of the ring (128 in the source)
    Signal,         \* values of struct signal
    NoSignal        \* a zeroed slot, and the result of an empty dequeue

ASSUME RingAssumption ==
    /\ MAX_SIGNALS \in Nat \ {0}
    /\ NoSignal \notin Signal

VARIABLES
    signal_buffer,  \* the slots, numbered from 0
    in_buffer,      \* how many signals are queued
    buffer_pos,     \* the slot of the oldest one
    taken,          \* what the last dequeue_signal gave its caller
    refused         \* whether the last queue_signal returned false

vars == <<signal_buffer, in_buffer, buffer_pos, taken, refused>>

Slot == 0 .. MAX_SIGNALS - 1

Init ==
    /\ signal_buffer = [i \in Slot |-> NoSignal]
    /\ in_buffer = 0
    /\ buffer_pos = 0
    /\ taken = NoSignal
    /\ refused = FALSE

(* Mutant: the free slot is counted from the start of the array. *)
FreeSlotFromStart == in_buffer % MAX_SIGNALS

FreeSlot == (buffer_pos + in_buffer) % MAX_SIGNALS

(* Mutant: the bound test is off by one. *)
QueueSignalOneMore(s) ==
    /\ in_buffer <= MAX_SIGNALS
    /\ signal_buffer' = [signal_buffer EXCEPT ![FreeSlot] = s]
    /\ in_buffer' = in_buffer + 1
    /\ refused' = FALSE
    /\ UNCHANGED <<buffer_pos, taken>>

QueueSignal(s) ==
    /\ in_buffer < MAX_SIGNALS
    /\ signal_buffer' = [signal_buffer EXCEPT ![FreeSlot] = s]
    /\ in_buffer' = in_buffer + 1
    /\ refused' = FALSE
    /\ UNCHANGED <<buffer_pos, taken>>

QueueFull ==
    /\ in_buffer >= MAX_SIGNALS
    /\ refused' = TRUE
    /\ UNCHANGED <<signal_buffer, in_buffer, buffer_pos, taken>>

DequeueSignal ==
    /\ in_buffer # 0
    /\ taken' = signal_buffer[buffer_pos]
    /\ in_buffer' = in_buffer - 1
    /\ buffer_pos' = (buffer_pos + 1) % MAX_SIGNALS
    /\ UNCHANGED <<signal_buffer, refused>>

DequeueEmpty ==
    /\ in_buffer = 0
    /\ taken' = NoSignal
    /\ UNCHANGED <<signal_buffer, in_buffer, buffer_pos, refused>>

Next ==
    \/ \E s \in Signal : QueueSignal(s)
    \/ QueueFull
    \/ DequeueSignal
    \/ DequeueEmpty

Spec == Init /\ [][Next]_vars

-----------------------------------------------------------------------------
(* The slots that hold queued signals, oldest first. *)
Contents ==
    [i \in 1 .. in_buffer |-> signal_buffer[(buffer_pos + i - 1) % MAX_SIGNALS]]

(* The counters stay in range, and a slot between the oldest and the newest  *)
(* queued signal holds a signal a caller queued: wrapping around the array   *)
(* never exposes a zeroed slot to dequeue_signal.                            *)
TypeOK ==
    /\ signal_buffer \in [Slot -> Signal \cup {NoSignal}]
    /\ in_buffer \in 0 .. MAX_SIGNALS
    /\ buffer_pos \in Slot
    /\ taken \in Signal \cup {NoSignal}
    /\ refused \in BOOLEAN
    /\ Contents \in Seq(Signal)

Queue == INSTANCE BoundedQueue
            WITH Capacity <- MAX_SIGNALS, queue <- Contents

(* Every operation on the ring is one operation on a bounded FIFO queue:     *)
(* signals come out in the order they went in, none is lost, duplicated or   *)
(* overwritten, and a signal is refused only when MAX_SIGNALS are queued.    *)
FifoQueue == Queue!Spec
=============================================================================
