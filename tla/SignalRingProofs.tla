-------------------------- MODULE SignalRingProofs --------------------------
(***************************************************************************)
(* For every number of slots: the ring's invariant, and that it implements *)
(* a bounded FIFO queue.  The one hard fact is about the indices: as long  *)
(* as in_buffer <= MAX_SIGNALS, distinct positions of the queue lie in     *)
(* distinct slots and the free slot is none of them.                       *)
(***************************************************************************)
EXTENDS SignalRing, TLAPS

(* The slot of the signal i places behind the oldest one. *)
SlotOf(i) == (buffer_pos + i) % MAX_SIGNALS

IInv ==
    /\ signal_buffer \in [Slot -> Signal \cup {NoSignal}]
    /\ in_buffer \in 0 .. MAX_SIGNALS
    /\ buffer_pos \in Slot
    /\ taken \in Signal \cup {NoSignal}
    /\ refused \in BOOLEAN
    /\ \A i \in 0 .. in_buffer - 1 : signal_buffer[SlotOf(i)] \in Signal

-----------------------------------------------------------------------------
(* An index of at most one turn past the end wraps around once. *)
LEMMA WrapOnce ==
    ASSUME NEW p \in Slot, NEW i \in 0 .. MAX_SIGNALS
    PROVE  (p + i) % MAX_SIGNALS = IF p + i < MAX_SIGNALS THEN p + i
                                                          ELSE p + i - MAX_SIGNALS
  <1>1. CASE p + i < MAX_SIGNALS
    BY <1>1, RingAssumption, Z3 DEF Slot
  <1>2. CASE p + i >= MAX_SIGNALS
    BY <1>2, RingAssumption, Z3 DEF Slot
  <1> QED BY <1>1, <1>2, RingAssumption DEF Slot

(* Every index lands in a slot. *)
LEMMA WrapIsSlot ==
    ASSUME NEW p \in Slot, NEW i \in 0 .. MAX_SIGNALS
    PROVE  (p + i) % MAX_SIGNALS \in Slot
  BY WrapOnce, RingAssumption DEF Slot

(* Positions less than a whole turn apart never share a slot. *)
LEMMA WrapInjective ==
    ASSUME NEW p \in Slot,
           NEW i \in 0 .. MAX_SIGNALS - 1, NEW j \in 0 .. MAX_SIGNALS - 1,
           (p + i) % MAX_SIGNALS = (p + j) % MAX_SIGNALS
    PROVE  i = j
  <1>1. i \in 0 .. MAX_SIGNALS /\ j \in 0 .. MAX_SIGNALS
    BY RingAssumption
  <1>2. /\ (p + i) % MAX_SIGNALS = IF p + i < MAX_SIGNALS THEN p + i
                                                          ELSE p + i - MAX_SIGNALS
        /\ (p + j) % MAX_SIGNALS = IF p + j < MAX_SIGNALS THEN p + j
                                                          ELSE p + j - MAX_SIGNALS
    BY <1>1, WrapOnce
  <1> QED BY <1>2, RingAssumption DEF Slot

(* Moving the start by one slot shifts every position by one. *)
LEMMA WrapShift ==
    ASSUME NEW p \in Slot, NEW i \in 0 .. MAX_SIGNALS - 1
    PROVE  (((p + 1) % MAX_SIGNALS) + i) % MAX_SIGNALS = (p + (i + 1)) % MAX_SIGNALS
  <1>1. /\ 1 \in 0 .. MAX_SIGNALS
        /\ i \in 0 .. MAX_SIGNALS
        /\ i + 1 \in 0 .. MAX_SIGNALS
        /\ (p + 1) % MAX_SIGNALS \in Slot
    BY WrapIsSlot, RingAssumption
  <1>2. (p + 1) % MAX_SIGNALS = IF p + 1 < MAX_SIGNALS THEN p + 1
                                                       ELSE p + 1 - MAX_SIGNALS
    BY <1>1, WrapOnce
  <1>3. (((p + 1) % MAX_SIGNALS) + i) % MAX_SIGNALS
            = IF ((p + 1) % MAX_SIGNALS) + i < MAX_SIGNALS
              THEN ((p + 1) % MAX_SIGNALS) + i
              ELSE ((p + 1) % MAX_SIGNALS) + i - MAX_SIGNALS
    BY <1>1, WrapOnce
  <1>4. (p + (i + 1)) % MAX_SIGNALS = IF p + (i + 1) < MAX_SIGNALS THEN p + (i + 1)
                                                   ELSE p + (i + 1) - MAX_SIGNALS
    BY <1>1, WrapOnce
  <1> QED BY <1>2, <1>3, <1>4, RingAssumption DEF Slot

-----------------------------------------------------------------------------
LEMMA InitEstablishes == Init => IInv
  <1> SUFFICES ASSUME Init PROVE IInv
    OBVIOUS
  <1>1. 0 \in Slot /\ in_buffer = 0 /\ 0 .. in_buffer - 1 = {}
    BY RingAssumption DEF Init, Slot
  <1>2. refused \in BOOLEAN
    BY Zenon DEF Init
  <1>3. /\ signal_buffer \in [Slot -> Signal \cup {NoSignal}]
        /\ in_buffer \in 0 .. MAX_SIGNALS
        /\ buffer_pos \in Slot
        /\ taken \in Signal \cup {NoSignal}
    BY <1>1, RingAssumption DEF Init
  <1> QED BY <1>1, <1>2, <1>3 DEF IInv

LEMMA QueueKeeps ==
    ASSUME IInv, NEW s \in Signal, QueueSignal(s)
    PROVE  IInv'
  <1> USE DEF IInv, Slot
  <1>1. FreeSlot \in Slot /\ in_buffer \in Nat
    BY WrapIsSlot, RingAssumption DEF FreeSlot
  <1>2. ASSUME NEW i \in 0 .. in_buffer' - 1
        PROVE  (signal_buffer[SlotOf(i)])' \in Signal
    <2>1. i \in 0 .. in_buffer /\ i \in 0 .. MAX_SIGNALS - 1
          /\ in_buffer \in 0 .. MAX_SIGNALS - 1 /\ buffer_pos' = buffer_pos
      BY RingAssumption DEF QueueSignal
    <2>2. SlotOf(i) \in Slot /\ (signal_buffer[SlotOf(i)])' = signal_buffer'[SlotOf(i)]
      BY <2>1, WrapIsSlot, RingAssumption DEF SlotOf, QueueSignal
    <2>3. CASE i = in_buffer
      BY <1>1, <2>2, <2>3 DEF QueueSignal, SlotOf, FreeSlot
    <2>4. CASE i < in_buffer
      <3>1. SlotOf(i) # FreeSlot
        BY <2>1, <2>4, WrapInjective DEF SlotOf, FreeSlot
      <3> QED BY <1>1, <2>1, <2>2, <2>4, <3>1 DEF QueueSignal
    <2> QED BY <2>1, <2>3, <2>4
  <1>3. /\ signal_buffer' \in [Slot -> Signal \cup {NoSignal}]
        /\ in_buffer' \in 0 .. MAX_SIGNALS
        /\ buffer_pos' \in Slot
        /\ taken' \in Signal \cup {NoSignal}
    BY <1>1, RingAssumption DEF QueueSignal
  <1>4. refused' \in BOOLEAN
    BY Zenon DEF QueueSignal
  <1> QED BY <1>2, <1>3, <1>4

LEMMA DequeueKeeps ==
    ASSUME IInv, DequeueSignal
    PROVE  IInv'
  <1> USE DEF IInv
  <1>1. /\ in_buffer \in 1 .. MAX_SIGNALS
        /\ 0 \in 0 .. MAX_SIGNALS /\ 1 \in 0 .. MAX_SIGNALS
    BY RingAssumption DEF DequeueSignal
  <1>2. ASSUME NEW i \in 0 .. in_buffer' - 1
        PROVE  (signal_buffer[SlotOf(i)])' \in Signal
    <2>1. i \in 0 .. MAX_SIGNALS - 1 /\ i + 1 \in 0 .. in_buffer - 1
      BY <1>1, RingAssumption DEF DequeueSignal
    <2>2. (SlotOf(i))' = SlotOf(i + 1)
      BY <2>1, WrapShift DEF SlotOf, DequeueSignal
    <2> QED BY <2>1, <2>2 DEF DequeueSignal
  <1>3. buffer_pos' \in Slot
    BY <1>1, WrapIsSlot DEF DequeueSignal
  <1>4. taken' \in Signal \cup {NoSignal} /\ in_buffer' \in 0 .. MAX_SIGNALS
    BY <1>1, RingAssumption DEF DequeueSignal
  <1> QED BY <1>2, <1>3, <1>4 DEF DequeueSignal

LEMMA StepKeeps == IInv /\ [Next]_vars => IInv'
  <1> SUFFICES ASSUME IInv, [Next]_vars PROVE IInv'
    OBVIOUS
  <1>1. ASSUME NEW s \in Signal, QueueSignal(s) PROVE IInv'
    BY <1>1, QueueKeeps
  <1>2. CASE QueueFull
    BY <1>2 DEF QueueFull, IInv, SlotOf
  <1>3. CASE DequeueSignal
    BY <1>3, DequeueKeeps
  <1>4. CASE DequeueEmpty
    BY <1>4 DEF DequeueEmpty, IInv, SlotOf
  <1>5. CASE UNCHANGED vars
    BY <1>5 DEF vars, IInv, SlotOf
  <1> QED BY <1>1, <1>2, <1>3, <1>4, <1>5 DEF Next

LEMMA InvariantHolds == Spec => []IInv
  BY InitEstablishes, StepKeeps, PTL DEF Spec

(* The i-th queued signal is the one in the slot i - 1 behind the oldest.    *)
Shape ==
    /\ Contents \in Seq(Signal)
    /\ Len(Contents) = in_buffer
    /\ \A i \in 1 .. in_buffer : Contents[i] = signal_buffer[SlotOf(i - 1)]

LEMMA ContentsShape == IInv => Shape
  <1> SUFFICES ASSUME IInv PROVE Shape
    OBVIOUS
  <1>1. in_buffer \in Nat /\ DOMAIN Contents = 1 .. in_buffer
    BY RingAssumption DEF Contents, IInv
  <1>2. ASSUME NEW i \in 1 .. in_buffer
        PROVE  Contents[i] = signal_buffer[SlotOf(i - 1)] /\ Contents[i] \in Signal
    <2>1. buffer_pos + (i - 1) = buffer_pos + i - 1 /\ i - 1 \in 0 .. in_buffer - 1
      BY <1>1, RingAssumption DEF IInv, Slot
    <2> QED BY <2>1 DEF Contents, SlotOf, IInv
  <1>3. Contents \in [1 .. in_buffer -> Signal]
    BY <1>2 DEF Contents
  <1>4. Contents \in Seq(Signal)
    BY <1>1, <1>3
  <1> QED BY <1>1, <1>2, <1>4 DEF Shape

(* The counters of the ring stay in range and every slot dequeue_signal can  *)
(* reach holds a queued signal, for every MAX_SIGNALS.                       *)
THEOREM TypeCorrect == Spec => []TypeOK
  <1>1. IInv => TypeOK
    BY ContentsShape DEF IInv, TypeOK, Shape
  <1> QED BY <1>1, InvariantHolds, PTL

-----------------------------------------------------------------------------
LEMMA InitMaps == Init => Queue!Init
  <1> SUFFICES ASSUME Init PROVE Queue!Init
    OBVIOUS
  <1>1. Contents = <<>>
    BY DEF Init, Contents
  <1> QED BY <1>1 DEF Init, Queue!Init

LEMMA QueueMaps ==
    ASSUME IInv, IInv', NEW s \in Signal, QueueSignal(s)
    PROVE  Queue!Put(s)
  <1>1. Shape /\ Shape'
    <2>1. (IInv => Shape)'
      BY ContentsShape, PTL
    <2> QED BY ContentsShape, <2>1
  <1>2. in_buffer \in Nat /\ Len(Contents) < MAX_SIGNALS
    BY <1>1, RingAssumption DEF QueueSignal, Shape, IInv
  <1>3. Contents' = Append(Contents, s)
    <2>1. /\ Contents' \in Seq(Signal) /\ Append(Contents, s) \in Seq(Signal)
          /\ Len(Contents') = in_buffer + 1 /\ Len(Append(Contents, s)) = in_buffer + 1
      BY <1>1 DEF Shape, QueueSignal
    <2>2. ASSUME NEW i \in 1 .. in_buffer + 1
          PROVE  Contents'[i] = Append(Contents, s)[i]
      <3>1. /\ i - 1 \in 0 .. MAX_SIGNALS - 1 /\ i - 1 \in 0 .. MAX_SIGNALS
            /\ in_buffer \in 0 .. MAX_SIGNALS - 1 /\ in_buffer \in 0 .. MAX_SIGNALS
            /\ buffer_pos \in Slot
        BY <1>2, RingAssumption DEF QueueSignal, IInv
      <3>2. /\ SlotOf(i - 1) \in Slot /\ FreeSlot \in Slot
            /\ signal_buffer \in [Slot -> Signal \cup {NoSignal}]
        BY <3>1, WrapIsSlot DEF SlotOf, FreeSlot, IInv
      <3>3. Contents'[i] = signal_buffer'[SlotOf(i - 1)]
        BY <1>1 DEF Shape, SlotOf, QueueSignal
      <3>4. CASE i = in_buffer + 1
        <4>1. SlotOf(i - 1) = FreeSlot
          BY <3>4, <1>2 DEF SlotOf, FreeSlot
        <4> QED BY <1>1, <3>2, <3>3, <3>4, <4>1 DEF QueueSignal, Shape
      <3>5. CASE i \in 1 .. in_buffer
        <4>1. SlotOf(i - 1) # FreeSlot
          BY <3>1, <3>5, WrapInjective, RingAssumption DEF SlotOf, FreeSlot
        <4>2. Contents'[i] = Contents[i]
          BY <1>1, <3>2, <3>3, <3>5, <4>1 DEF QueueSignal, Shape
        <4>3. Append(Contents, s)[i] = Contents[i]
          BY <1>1, <3>5 DEF Shape
        <4> QED BY <4>2, <4>3
      <3>6. i = in_buffer + 1 \/ i \in 1 .. in_buffer
        BY <1>2
      <3> QED BY <3>4, <3>5, <3>6, Zenon
    <2> QED BY <1>2, <2>1, <2>2
  <1> QED BY <1>2, <1>3 DEF QueueSignal, Queue!Put

LEMMA DequeueMaps ==
    ASSUME IInv, IInv', DequeueSignal
    PROVE  Queue!Take
  <1>1. Shape /\ Shape'
    <2>1. (IInv => Shape)'
      BY ContentsShape, PTL
    <2> QED BY ContentsShape, <2>1
  <1>2. in_buffer \in 1 .. MAX_SIGNALS /\ buffer_pos \in Slot
    BY RingAssumption DEF DequeueSignal, IInv
  <1>3. Contents # <<>> /\ Head(Contents) = taken'
    <2>1. 0 \in 0 .. MAX_SIGNALS /\ buffer_pos + 0 = buffer_pos /\ buffer_pos < MAX_SIGNALS
      BY <1>2, RingAssumption DEF Slot
    <2>2. SlotOf(0) = buffer_pos
      BY <1>2, <2>1, WrapOnce DEF SlotOf
    <2>3. Contents[1] = signal_buffer[SlotOf(1 - 1)]
      BY <1>1, <1>2 DEF Shape
    <2>4. Contents[1] = signal_buffer[buffer_pos]
      BY <2>2, <2>3
    <2> QED BY <1>1, <1>2, <2>4 DEF Shape, DequeueSignal
  <1>4. Contents' = Tail(Contents)
    <2>1. /\ Contents' \in Seq(Signal) /\ Tail(Contents) \in Seq(Signal)
          /\ Len(Contents') = in_buffer - 1 /\ Len(Tail(Contents)) = in_buffer - 1
      BY <1>1, <1>2, <1>3 DEF Shape, DequeueSignal
    <2>2. ASSUME NEW i \in 1 .. in_buffer - 1
          PROVE  Contents'[i] = Tail(Contents)[i]
      <3>1. i - 1 \in 0 .. MAX_SIGNALS - 1 /\ i + 1 \in 1 .. in_buffer /\ i - 1 + 1 = i
            /\ i + 1 - 1 = i
        BY <1>2, RingAssumption
      <3>2. (SlotOf(i - 1))' = SlotOf(i)
        BY <1>2, <3>1, WrapShift DEF SlotOf, DequeueSignal
      <3>3. Contents'[i] = signal_buffer[SlotOf(i)]
        BY <1>1, <3>2 DEF Shape, DequeueSignal
      <3>4. Contents[i + 1] = signal_buffer[SlotOf(i)]
        BY <1>1, <3>1 DEF Shape
      <3>5. Tail(Contents)[i] = Contents[i + 1]
        BY <1>1, <1>2, <1>3 DEF Shape
      <3> QED BY <3>3, <3>4, <3>5
    <2> QED BY <1>2, <2>1, <2>2
  <1> QED BY <1>3, <1>4 DEF DequeueSignal, Queue!Take

LEMMA StepMaps == IInv /\ IInv' /\ [Next]_vars => [Queue!Next]_(Queue!vars)
  <1> SUFFICES ASSUME IInv, IInv', [Next]_vars PROVE [Queue!Next]_(Queue!vars)
    OBVIOUS
  <1> USE DEF Queue!Next
  <1>1. ASSUME NEW s \in Signal, QueueSignal(s) PROVE Queue!Next
    BY <1>1, QueueMaps
  <1>2. CASE QueueFull
    <2>1. Len(Contents) = MAX_SIGNALS /\ Contents' = Contents
      BY <1>2, ContentsShape, RingAssumption DEF QueueFull, IInv, Shape, Contents
    <2> QED BY <1>2, <2>1 DEF QueueFull, Queue!Refuse
  <1>3. CASE DequeueSignal
    BY <1>3, DequeueMaps
  <1>4. CASE DequeueEmpty
    <2>1. Contents = <<>> /\ Contents' = Contents
      BY <1>4 DEF DequeueEmpty, Contents
    <2> QED BY <1>4, <2>1 DEF DequeueEmpty, Queue!TakeNothing
  <1>5. CASE UNCHANGED vars
    BY <1>5 DEF vars, Queue!vars, Contents
  <1> QED BY <1>1, <1>2, <1>3, <1>4, <1>5 DEF Next

(* The ring is a first-in first-out queue of MAX_SIGNALS signals: nothing is *)
(* lost, duplicated, reordered or overwritten, however often it wraps.       *)
THEOREM RingIsFifo == Spec => FifoQueue
  <1>1. Spec => Queue!Spec
    BY InvariantHolds, InitMaps, StepMaps, PTL DEF Spec, Queue!Spec
  <1> QED BY <1>1 DEF FifoQueue
=============================================================================
