-------------------------- MODULE SignalIrqProofs ---------------------------
(***************************************************************************)
(* Interrupts on the bare machine, for any set of keys, signals and slots: *)
(* what the stack of interrupted frames can look like, when the interrupt  *)
(* flag is on, and that the PICs' in-service registers say which handlers  *)
(* on the stack have not ended.  The invariant (IrqInv) speaks of every    *)
(* frame, of the two on top and of the lines together: the controllers     *)
(* keep a handler from being entered again only because each frame below   *)
(* the top is past its sti, and it is only because of the controllers that *)
(* they are.                                                               *)
(***************************************************************************)
EXTENDS SignalIrq, SequenceTheorems, FiniteSetTheorems, TLAPS

(* Where a thread or handler may be interrupted. *)
Quiet == {"lua", "queue", "dequeue_cli"}
Sections ==
    {"check", "full", "copy", "count", "sti",
     "dequeue_copy", "dequeue_count", "dequeue_advance", "dequeue_sti"}
Unmasked == {"clear", "eoi", "iret"}
Masked == {"read", "queue", "check", "full", "copy", "count", "sti"}

IsFrame(f) == f = Frame(f.who, f.pc, f.sig)

(* The stack: the Lua thread, keyboard handlers that were interrupted after  *)
(* the sti of queue_signal, all of them done but for their iret or else      *)
(* interrupted by the PIT, and on top whoever runs.                          *)
Stacked(st) ==
    /\ \E S : st \in Seq(S)
    /\ Len(st) > 0
    /\ \A i \in 1 .. Len(st) : IsFrame(st[i])
    /\ st[1].who = Main /\ (Len(st) > 1 => st[1].pc \in Quiet)
    /\ \A i \in 2 .. Len(st) : st[i].who \in Line
    /\ \A i \in 2 .. Len(st) - 1 :
        /\ st[i].who = Keyboard /\ st[i].pc \in Unmasked
        /\ st[i].pc # "iret" => i = Len(st) - 1 /\ st[Len(st)].who = Pit

(* When the one who runs can be interrupted. *)
Steady(f, on) ==
    /\ on \in BOOLEAN
    /\ f.who = Main => \/ f.pc \in Quiet /\ on
                       \/ f.pc \in Sections /\ ~on
    /\ f.who = Keyboard => \/ f.pc \in Unmasked
                           \/ f.pc \in Masked /\ ~on
    /\ f.who = Pit => f.pc \in {"eoi", "iret"} /\ ~on
    /\ f.who = Rtc => f.pc \in {"tick", "eoi_secondary", "eoi", "iret"} /\ ~on

(* What the controllers hold in service. *)
ServedBy(f) ==
    IF f.who = Main \/ f.pc = "iret" THEN {}
    ELSE IF f.who = Rtc THEN (IF f.pc = "eoi" THEN {Cascade} ELSE {Rtc, Cascade})
    ELSE {f.who}
ServedBelow(st) ==
    IF Len(st) > 2 /\ st[Len(st) - 1].pc # "iret" THEN {Keyboard} ELSE {}

IrqInv ==
    /\ Stacked(stack) /\ Steady(Top, eflags_if)
    /\ irr \subseteq Line
    /\ isr = ServedBy(Top) \cup ServedBelow(stack)

-----------------------------------------------------------------------------
(* The stack's three changes. *)
LEMMA FrontIs ==
    ASSUME NEW S, NEW st \in Seq(S), Len(st) > 0
    PROVE  /\ Front(st) \in Seq(S) /\ Len(Front(st)) = Len(st) - 1
           /\ \A i \in 1 .. Len(st) - 1 : Front(st)[i] = st[i]
  <1>1. Len(st) \in Nat /\ \A i \in 1 .. Len(st) - 1 : st[i] \in S
    BY LenProperties, ElementOfSeq
  <1> DEFINE front == SubSeq(st, 1, Len(st) - 1)
  <1>2. /\ front \in Seq(S)
        /\ Len(front) = IF 1 <= Len(st) - 1 THEN (Len(st) - 1) - 1 + 1 ELSE 0
        /\ \A i \in 1 .. (Len(st) - 1) - 1 + 1 : front[i] = st[1 + i - 1]
    BY <1>1, SubSeqProperties
  <1> HIDE DEF front
  <1>3. /\ front \in Seq(S) /\ Len(front) = Len(st) - 1
        /\ \A i \in 1 .. Len(st) - 1 : front[i] = st[i]
    <2>1. \A i \in 1 .. Len(st) - 1 : i \in 1 .. (Len(st) - 1) - 1 + 1 /\ 1 + i - 1 = i
      BY <1>1
    <2>2. Len(front) = Len(st) - 1
      <3>1. Len(front) = IF 1 <= Len(st) - 1 THEN (Len(st) - 1) - 1 + 1 ELSE 0
        BY <1>2
      <3>2. \A n \in Nat : \A m : n > 0 /\ m = (IF 1 <= n - 1 THEN (n - 1) - 1 + 1 ELSE 0) => m = n - 1
        OBVIOUS
      <3> QED BY ONLY Len(st) \in Nat, Len(st) > 0, <1>1, <3>1, <3>2
    <2> QED BY <1>2, <2>1, <2>2
  <1> QED BY <1>3 DEF front, Front

LEMMA Replaced ==
    ASSUME NEW st, Stacked(st), NEW f
    PROVE  /\ \E S : Front(st) \o <<f>> \in Seq(S)
           /\ Len(st) \in Nat \ {0}
           /\ Len(Front(st) \o <<f>>) = Len(st) /\ (Front(st) \o <<f>>)[Len(st)] = f
           /\ \A i \in 1 .. Len(st) - 1 : (Front(st) \o <<f>>)[i] = st[i]
  <1>1. PICK S : st \in Seq(S)
    BY DEF Stacked
  <1> DEFINE T == S \cup {f}
             front == Front(st)
             back == <<f>>
             new == front \o back
  <1>2. Len(st) \in Nat \ {0}
    BY <1>1, LenProperties DEF Stacked
  <1>3. st \in Seq(T)
    BY <1>1, SeqMonotonic
  <1>4. /\ front \in Seq(T) /\ Len(front) = Len(st) - 1
        /\ \A i \in 1 .. Len(st) - 1 : front[i] = st[i]
    BY <1>2, <1>3, FrontIs
  <1>5. back \in Seq(T) /\ Len(back) = 1 /\ back[1] = f
    OBVIOUS
  <1> HIDE DEF front, back, T
  <1>6. /\ new \in Seq(T) /\ Len(new) = Len(front) + Len(back)
        /\ \A i \in 1 .. Len(front) + Len(back) :
               new[i] = IF i <= Len(front) THEN front[i] ELSE back[i - Len(front)]
    BY <1>4, <1>5, ConcatProperties
  <1> HIDE DEF new
  <1>7. /\ Len(new) = Len(st) /\ new[Len(st)] = f
        /\ \A i \in 1 .. Len(st) - 1 : new[i] = st[i]
    BY <1>2, <1>4, <1>5, <1>6
  <1> QED BY <1>2, <1>6, <1>7 DEF front, back, new

LEMMA Pushed ==
    ASSUME NEW st, Stacked(st), NEW f
    PROVE  /\ \E S : Append(st, f) \in Seq(S)
           /\ Len(st) \in Nat \ {0}
           /\ Len(Append(st, f)) = Len(st) + 1 /\ Append(st, f)[Len(st) + 1] = f
           /\ \A i \in 1 .. Len(st) : Append(st, f)[i] = st[i]
  <1>1. PICK S : st \in Seq(S)
    BY DEF Stacked
  <1>2. /\ Len(st) \in Nat \ {0} /\ st \in Seq(S \cup {f}) /\ f \in S \cup {f}
    BY <1>1, LenProperties, SeqMonotonic DEF Stacked
  <1> QED BY <1>2, AppendProperties

LEMMA Popped ==
    ASSUME NEW st, Stacked(st)
    PROVE  /\ \E S : Front(st) \in Seq(S)
           /\ Len(st) \in Nat \ {0} /\ Len(Front(st)) = Len(st) - 1
           /\ \A i \in 1 .. Len(st) - 1 : Front(st)[i] = st[i]
  <1>1. PICK S : st \in Seq(S)
    BY DEF Stacked
  <1> QED BY <1>1, FrontIs, LenProperties DEF Stacked

LEMMA ReplacedStays ==
    ASSUME NEW st, Stacked(st), NEW f, IsFrame(f), f.who = Last(st).who
    PROVE  /\ Stacked(Front(st) \o <<f>>) /\ Last(Front(st) \o <<f>>) = f
           /\ ServedBelow(Front(st) \o <<f>>) = ServedBelow(st)
  <1> DEFINE new == Front(st) \o <<f>>
  <1>1. /\ \E S : new \in Seq(S)
        /\ Len(st) \in Nat \ {0}
        /\ Len(new) = Len(st) /\ Last(new) = f /\ new[Len(st)] = f
        /\ \A i \in 1 .. Len(st) - 1 : new[i] = st[i]
    <2>1. /\ \E S : new \in Seq(S)
          /\ Len(st) \in Nat \ {0}
          /\ Len(new) = Len(st) /\ new[Len(st)] = f
          /\ \A i \in 1 .. Len(st) - 1 : new[i] = st[i]
      BY Replaced
    <2> QED BY <2>1 DEF Last
  <1> HIDE DEF new
  <1>2. /\ Last(st) = st[Len(st)]
        /\ \A i \in 1 .. Len(st) : new[i].who = st[i].who /\ IsFrame(new[i])
    BY <1>1 DEF Stacked, Last
  <1>3. /\ new[1].who = Main /\ (Len(new) > 1 => new[1].pc \in Quiet)
        /\ \A i \in 2 .. Len(new) : new[i].who \in Line
    <2>1. 1 \in 1 .. Len(st) /\ (Len(st) > 1 => 1 \in 1 .. Len(st) - 1)
      BY <1>1
    <2>2. new[1].who = Main
      BY <1>2, <2>1 DEF Stacked
    <2>3. Len(new) > 1 => new[1].pc \in Quiet
      BY <1>1, <2>1 DEF Stacked
    <2> QED BY <1>1, <1>2, <2>2, <2>3 DEF Stacked
  <1>4. \A i \in 2 .. Len(new) - 1 :
            /\ new[i].who = Keyboard /\ new[i].pc \in Unmasked
            /\ new[i].pc # "iret" => i = Len(new) - 1 /\ new[Len(new)].who = Pit
    BY <1>1, <1>2 DEF Stacked
  <1>5. Stacked(new)
    BY <1>1, <1>2, <1>3, <1>4 DEF Stacked
  <1>6. ServedBelow(new) = ServedBelow(st)
    BY <1>1 DEF ServedBelow
  <1> QED BY <1>1, <1>5, <1>6 DEF new

-----------------------------------------------------------------------------
(* Who runs: the Lua thread when it is alone, else a handler.                *)
LEMMA Runs ==
    ASSUME Stacked(stack)
    PROVE  /\ Len(stack) \in Nat \ {0} /\ Top = stack[Len(stack)] /\ IsFrame(Top)
           /\ Top.who = Main <=> Len(stack) = 1
           /\ Top.who \in {Main, Pit, Keyboard, Rtc} /\ Main \notin {Pit, Keyboard, Rtc}
           /\ Top.who # Main => Top.who \in Line
           /\ Top.who # Pit => ServedBelow(stack) = {}
  <1>1. Len(stack) \in Nat \ {0}
    BY LenProperties DEF Stacked
  <1>2. /\ Top = stack[Len(stack)] /\ Len(stack) \in 1 .. Len(stack)
        /\ Len(stack) = 1 \/ Len(stack) \in 2 .. Len(stack)
    <2>1. Top = stack[Len(stack)]
      BY DEF Top, Last
    <2>2. \A n \in Nat \ {0} : n \in 1 .. n /\ (n = 1 \/ n \in 2 .. n)
      OBVIOUS
    <2> QED BY ONLY <1>1, <2>1, <2>2
  <1>3. /\ IsFrame(Top)
        /\ Len(stack) = 1 => Top.who = Main
        /\ Len(stack) # 1 => Top.who \in Line
    BY <1>1, <1>2 DEF Stacked
  <1>4. Line \subseteq {Pit, Keyboard, Rtc}
    BY SizesAssumption DEF Pit, Keyboard, Rtc
  <1>5. Main \notin {Pit, Keyboard, Rtc}
    BY SizesAssumption DEF Pit, Keyboard, Rtc
  <1>6. Top.who # Pit => ServedBelow(stack) = {}
    BY <1>1, <1>2 DEF Stacked, ServedBelow
  <1> QED BY <1>1, <1>2, <1>3, <1>4, <1>5, <1>6

(* A frame with another pc. *)
LEMMA Moved ==
    ASSUME NEW f, IsFrame(f), NEW pc
    PROVE  LET g == [f EXCEPT !.pc = pc]
           IN  IsFrame(g) /\ g.who = f.who /\ g.pc = pc /\ g.sig = f.sig
  BY DEF IsFrame, Frame

(* A step of the one who runs that leaves it on the stack. *)
LEMMA GotoKeeps ==
    ASSUME IrqInv, NEW f, IsFrame(f), f.who = Top.who, Goto(f),
           Steady(f, eflags_if'), irr' \subseteq Line,
           isr' = ServedBy(f) \cup ServedBelow(stack)
    PROVE  IrqInv'
  <1>1. /\ Stacked(Front(stack) \o <<f>>) /\ Last(Front(stack) \o <<f>>) = f
        /\ ServedBelow(Front(stack) \o <<f>>) = ServedBelow(stack)
    BY ReplacedStays DEF IrqInv, Top
  <1>2. stack' = Front(stack) \o <<f>>
    BY DEF Goto
  <1>3. Stacked(stack') /\ Last(stack') = f /\ ServedBelow(stack') = ServedBelow(stack)
    BY <1>1, <1>2
  <1> QED BY <1>3 DEF IrqInv, Top, Stacked, ServedBelow

(* The same when the controllers are left alone. *)
LEMMA GotoPcKeeps ==
    ASSUME IrqInv, NEW pc, GotoPc(pc), UNCHANGED <<irr, isr>>,
           Steady([Top EXCEPT !.pc = pc], eflags_if'),
           ServedBy([Top EXCEPT !.pc = pc]) = ServedBy(Top)
    PROVE  IrqInv'
  <1> DEFINE f == [Top EXCEPT !.pc = pc]
  <1>1. IsFrame(f) /\ f.who = Top.who
    BY Runs, Moved DEF IrqInv
  <1>2. Goto(f) /\ Steady(f, eflags_if')
    BY DEF GotoPc
  <1>3. irr' \subseteq Line /\ isr' = ServedBy(f) \cup ServedBelow(stack)
    BY DEF IrqInv
  <1> HIDE DEF f
  <1> QED BY <1>1, <1>2, <1>3, GotoKeeps

(* In the ring's calls, whoever runs them, only the flag has to be watched.  *)
LEMMA CallKeeps ==
    ASSUME IrqInv, NEW pc, GotoPc(pc), UNCHANGED <<irr, isr>>,
           Top.pc # "iret", Top.who \in {Main, Keyboard}, pc # "iret",
           Top.who = Main => \/ pc \in Quiet /\ eflags_if' = TRUE
                             \/ pc \in Sections /\ eflags_if' = FALSE,
           Top.who = Keyboard => \/ pc \in Unmasked /\ eflags_if' \in BOOLEAN
                                 \/ pc \in Masked /\ eflags_if' = FALSE
    PROVE  IrqInv'
  <1> DEFINE f == [Top EXCEPT !.pc = pc]
  <1>1. f.who = Top.who /\ f.pc = pc
    BY Runs, Moved DEF IrqInv
  <1>2. Main \notin {Pit, Keyboard, Rtc} /\ Keyboard # Pit /\ Keyboard # Rtc
    BY Runs DEF IrqInv, Pit, Keyboard, Rtc
  <1>3. Steady(f, eflags_if')
    <2> HIDE DEF f
    <2>1. eflags_if' \in BOOLEAN
      BY Zenon
    <2> QED BY <1>1, <1>2, <2>1, Zenon DEF Steady
  <1>4. ServedBy(f) = ServedBy(Top)
    <2> HIDE DEF f
    <2> QED BY <1>1, <1>2 DEF ServedBy
  <1> QED BY <1>3, <1>4, GotoPcKeeps DEF f

-----------------------------------------------------------------------------
LEMMA InitHolds == Init => IrqInv
  <1> SUFFICES ASSUME Init PROVE IrqInv
    OBVIOUS
  <1> DEFINE f == Frame(Main, "lua", NoSignal)
  <1>1. f.who = Main /\ f.pc = "lua" /\ IsFrame(f)
    BY DEF Frame, IsFrame
  <1> HIDE DEF f
  <1>2. stack = <<f>> /\ <<f>> \in Seq({f}) /\ Len(<<f>>) = 1 /\ <<f>>[1] = f
    BY DEF Init, f
  <1>3. Stacked(stack)
    <2>1. 1 .. Len(stack) = {1} /\ 2 .. Len(stack) = {} /\ 2 .. Len(stack) - 1 = {}
      BY <1>2
    <2>2. /\ \E S : stack \in Seq(S)
          /\ Len(stack) = 1 /\ stack[1] = f
      BY <1>2
    <2>3. Len(stack) > 0 /\ ~(Len(stack) > 1)
      BY <2>2
    <2> QED BY <1>1, <2>1, <2>2, <2>3, Zenon DEF Stacked
  <1>4. Top = f /\ ServedBelow(stack) = {}
    BY <1>2 DEF Top, Last, ServedBelow
  <1>5. Steady(Top, eflags_if)
    <2>1. Main \notin {Pit, Keyboard, Rtc} /\ eflags_if = TRUE
      BY SizesAssumption DEF Init, Pit, Keyboard, Rtc
    <2> QED BY <1>1, <1>4, <2>1 DEF Steady, Quiet
  <1> QED BY <1>1, <1>3, <1>4, <1>5 DEF IrqInv, ServedBy, Init, PicInit

LEMMA QueueHolds == IrqInv /\ QueueSignal => IrqInv'
  <1> SUFFICES ASSUME IrqInv, QueueSignal PROVE IrqInv'
    OBVIOUS
  <1>1. /\ Top.who \in {Main, Pit, Keyboard, Rtc} /\ Main \notin {Pit, Keyboard, Rtc}
        /\ Pit # Keyboard /\ Rtc # Keyboard
    BY Runs DEF IrqInv, Pit, Keyboard, Rtc
  <1>2. ASSUME Top.pc \in Masked \ {"read"} PROVE Top.who \in {Main, Keyboard} /\ Top.pc # "iret"
    BY <1>1, <1>2 DEF IrqInv, Steady, Masked
  <1>3. Steady(Top, eflags_if)
    BY DEF IrqInv
  <1>4. CASE QueueCli
    BY <1>1, <1>2, <1>4, CallKeeps DEF QueueCli, At, CpuUnchanged, Masked, Sections
  <1>5. CASE QueueCheck
    <2> DEFINE pc == IF in_buffer >= MAX_SIGNALS THEN "full" ELSE "copy"
    <2>1. /\ pc \in {"full", "copy"} /\ GotoPc(pc) /\ Top.pc = "check"
          /\ UNCHANGED <<irr, isr>> /\ eflags_if' = eflags_if
      BY <1>5 DEF QueueCheck, At, CpuUnchanged
    <2> HIDE DEF pc
    <2>2. eflags_if = FALSE
      BY <1>1, <1>2, <1>3, <2>1 DEF Steady, Masked, Quiet, Unmasked, Sections
    <2> QED BY <1>1, <1>2, <2>1, <2>2, CallKeeps DEF Masked, Sections
  <1>6. CASE QueueFull
    BY <1>1, <1>2, <1>6, CallKeeps DEF QueueFull, At, CpuUnchanged, Caller, Masked, Unmasked, Quiet
  <1>7. CASE QueueCopy
    <2>1. /\ GotoPc("count") /\ Top.pc = "copy"
          /\ UNCHANGED <<irr, isr>> /\ eflags_if' = eflags_if
      BY <1>7 DEF QueueCopy, At, CpuUnchanged
    <2>2. eflags_if = FALSE
      BY <1>1, <1>2, <1>3, <2>1 DEF Steady, Masked, Quiet, Unmasked, Sections
    <2> QED BY <1>1, <1>2, <2>1, <2>2, CallKeeps DEF Masked, Sections
  <1>8. CASE QueueCount
    <2>1. /\ GotoPc("sti") /\ Top.pc = "count"
          /\ UNCHANGED <<irr, isr>> /\ eflags_if' = eflags_if
      BY <1>8 DEF QueueCount, At, CpuUnchanged
    <2>2. eflags_if = FALSE
      BY <1>1, <1>2, <1>3, <2>1 DEF Steady, Masked, Quiet, Unmasked, Sections
    <2> QED BY <1>1, <1>2, <2>1, <2>2, CallKeeps DEF Masked, Sections
  <1>9. CASE QueueSti
    BY <1>1, <1>2, <1>9, CallKeeps DEF QueueSti, At, CpuUnchanged, Caller, Masked, Unmasked, Quiet
  <1> QED BY <1>4, <1>5, <1>6, <1>7, <1>8, <1>9 DEF QueueSignal

LEMMA DequeueHolds == IrqInv /\ DequeueSignal => IrqInv'
  <1> SUFFICES ASSUME IrqInv, DequeueSignal PROVE IrqInv'
    OBVIOUS
  <1>1. /\ Top.who \in {Main, Pit, Keyboard, Rtc} /\ Main \notin {Pit, Keyboard, Rtc}
    BY Runs DEF IrqInv
  <1>2. Steady(Top, eflags_if)
    BY DEF IrqInv
  <1>3. ASSUME Top.pc \in {"lua", "dequeue_cli"}
        PROVE  Top.who = Main /\ Top.pc # "iret" /\ eflags_if = TRUE
    BY <1>1, <1>2, <1>3 DEF Steady, Masked, Unmasked, Quiet, Sections
  <1>4. ASSUME Top.pc \in {"dequeue_copy", "dequeue_count", "dequeue_advance", "dequeue_sti"}
        PROVE  Top.who = Main /\ Top.pc # "iret" /\ eflags_if = FALSE
    BY <1>1, <1>2, <1>4 DEF Steady, Masked, Unmasked, Quiet, Sections
  <1>5. CASE DequeueCheck
    <2>1. CASE in_buffer = 0
      BY <1>5, <2>1 DEF DequeueCheck, CpuUnchanged, IrqInv, Top, Stacked, ServedBelow
    <2>2. CASE in_buffer # 0
      BY <1>1, <1>3, <1>5, <2>2, CallKeeps DEF DequeueCheck, At, CpuUnchanged, Quiet
    <2> QED BY <2>1, <2>2
  <1>6. CASE DequeueCli
    BY <1>1, <1>3, <1>6, CallKeeps DEF DequeueCli, At, CpuUnchanged, Sections
  <1>7. CASE DequeueCopy
    BY <1>1, <1>4, <1>7, CallKeeps DEF DequeueCopy, At, CpuUnchanged, Sections
  <1>8. CASE DequeueCount
    BY <1>1, <1>4, <1>8, CallKeeps DEF DequeueCount, At, CpuUnchanged, Sections
  <1>9. CASE DequeueAdvance
    BY <1>1, <1>4, <1>9, CallKeeps DEF DequeueAdvance, At, CpuUnchanged, Sections
  <1>10. CASE DequeueSti
    BY <1>1, <1>4, <1>10, CallKeeps DEF DequeueSti, At, CpuUnchanged, Quiet
  <1> QED BY <1>5, <1>6, <1>7, <1>8, <1>9, <1>10 DEF DequeueSignal

(* A fresh frame of the one who runs. *)
LEMMA Made ==
    ASSUME NEW w, NEW p, NEW s
    PROVE  /\ IsFrame(Frame(w, p, s)) /\ Frame(w, p, s).who = w
           /\ Frame(w, p, s).pc = p /\ Frame(w, p, s).sig = s
  BY DEF IsFrame, Frame

LEMMA PushHolds == IrqInv /\ PushSignal => IrqInv'
  <1> SUFFICES ASSUME IrqInv, PushSignal PROVE IrqInv'
    OBVIOUS
  <1>1. /\ Top.who \in {Main, Pit, Keyboard, Rtc} /\ Main \notin {Pit, Keyboard, Rtc}
        /\ Steady(Top, eflags_if) /\ Top.pc = "lua" /\ eflags_if' = eflags_if
        /\ irr' = irr /\ isr' = isr
    BY Runs DEF IrqInv, PushSignal, At, CpuUnchanged
  <1>2. Top.who = Main /\ eflags_if = TRUE
    BY <1>1 DEF Steady, Masked, Unmasked, Quiet, Sections
  <1>3. PICK s \in LuaSignal : Goto(Frame(Main, "queue", s))
    BY DEF PushSignal
  <1> DEFINE f == Frame(Main, "queue", s)
  <1>4. IsFrame(f) /\ f.who = Main /\ f.pc = "queue" /\ Goto(f)
    BY <1>3, Made
  <1> HIDE DEF f
  <1>5. Steady(f, eflags_if')
    BY <1>1, <1>2, <1>4 DEF Steady, Quiet
  <1>6. irr' \subseteq Line /\ isr' = ServedBy(f) \cup ServedBelow(stack)
    BY <1>1, <1>2, <1>4 DEF IrqInv, ServedBy
  <1> QED BY <1>2, <1>4, <1>5, <1>6, GotoKeeps

-----------------------------------------------------------------------------
(* The lines as the controllers number them. *)
LEMMA Lowest ==
    /\ Min({Pit}) = Pit /\ Min({Pit, Keyboard}) = Pit /\ Min({Keyboard}) = Keyboard
    /\ Min({Cascade}) = Cascade /\ Min({Rtc}) = Rtc
    /\ \A S \in SUBSET {Pit, Keyboard, Rtc, Cascade} :
           S # {} => Min(S) \in S /\ \A l \in S : Min(S) <= l
  <1> USE DEF Min, Pit, Keyboard, Rtc, Cascade
  <1>1. \A l, m \in {0, 1, 2, 8} : l <= m /\ m <= l => l = m
    OBVIOUS
  <1>2. ASSUME NEW S \in SUBSET {0, 1, 2, 8}, S # {}
        PROVE  \E m \in S : \A l \in S : m <= l
    <2>1. CASE 0 \in S
      BY <2>1
    <2>2. CASE 0 \notin S /\ 1 \in S
      BY <2>2
    <2>3. CASE 0 \notin S /\ 1 \notin S /\ 2 \in S
      BY <2>3
    <2>4. CASE S = {8}
      BY <2>4
    <2> QED BY <1>2, <2>1, <2>2, <2>3, <2>4
  <1>3. \A S \in SUBSET {0, 1, 2, 8} : S # {} => Min(S) \in S /\ \A l \in S : Min(S) <= l
    BY <1>2
  <1> HIDE DEF Min
  <1> QED BY <1>3

(* The end of interrupt retires the line of the handler that sends it. *)
LEMMA EoiHolds == IrqInv /\ (EoiSecondary \/ EoiPrimary) => IrqInv'
  <1> SUFFICES ASSUME IrqInv, EoiSecondary \/ EoiPrimary PROVE IrqInv'
    OBVIOUS
  <1> DEFINE pc == IF EoiPrimary THEN "iret" ELSE "eoi"
             f == [Top EXCEPT !.pc = pc]
  <1>1. /\ Top.who \in {Main, Pit, Keyboard, Rtc} /\ Main \notin {Pit, Keyboard, Rtc}
        /\ Steady(Top, eflags_if) /\ IsFrame(Top)
        /\ Top.who # Pit => ServedBelow(stack) = {}
        /\ ServedBelow(stack) \in {{}, {Keyboard}}
        /\ Pit # Keyboard /\ Pit # Rtc /\ Keyboard # Rtc
    BY Runs DEF IrqInv, Pit, Keyboard, Rtc, ServedBelow
  <1>2. f.who = Top.who /\ f.pc = pc /\ IsFrame(f)
    BY <1>1, Moved
  <1>3. isr = ServedBy(Top) \cup ServedBelow(stack) /\ irr \subseteq Line
    BY DEF IrqInv
  <1>4. CASE EoiPrimary
    <2>1. /\ Top.pc = "eoi" /\ Goto(f) /\ pc = "iret"
          /\ eflags_if' = eflags_if /\ EndOfInterrupt(Primary)
      BY <1>4 DEF EoiPrimary, At, GotoPc
    <2> HIDE DEF f
    <2>2. Top.who # Main
      BY <1>1, <2>1 DEF Steady, Quiet, Sections
    <2>3. Steady(f, eflags_if')
      BY <1>1, <1>2, <2>1, <2>2 DEF Steady, Unmasked, Masked
    <2>4. isr' = ServedBelow(stack) /\ irr' = irr
      <3>1. CASE Top.who = Rtc
        <4>1. isr = {Cascade} /\ isr \cap Primary = {Cascade} /\ ServedBelow(stack) = {}
          BY <1>1, <1>3, <2>1, <2>2, <3>1 DEF ServedBy, Cascade, Primary
        <4> QED BY <2>1, <4>1, Lowest DEF EndOfInterrupt
      <3>2. CASE Top.who = Keyboard
        <4>1. isr = {Keyboard} /\ isr \cap Primary = {Keyboard} /\ ServedBelow(stack) = {}
          BY <1>1, <1>3, <2>1, <2>2, <3>2 DEF ServedBy, Keyboard, Primary
        <4> QED BY <2>1, <4>1, Lowest DEF EndOfInterrupt
      <3>3. CASE Top.who = Pit
        <4>1. isr = {Pit} \cup ServedBelow(stack) /\ isr \cap Primary = isr
          BY <1>1, <1>3, <2>1, <2>2, <3>3 DEF ServedBy, Keyboard, Pit, Primary
        <4>2. Min(isr) = Pit /\ isr # {}
          BY <1>1, <4>1, Lowest
        <4> QED BY <1>1, <2>1, <4>1, <4>2 DEF EndOfInterrupt
      <3> QED BY <1>1, <2>2, <3>1, <3>2, <3>3
    <2>5. ServedBy(f) = {}
      BY <1>2, <2>1 DEF ServedBy
    <2> QED BY <1>2, <1>3, <2>1, <2>3, <2>4, <2>5, GotoKeeps
  <1>5. CASE EoiSecondary /\ ~EoiPrimary
    <2>1. /\ Top.pc = "eoi_secondary" /\ Goto(f) /\ pc = "eoi"
          /\ eflags_if' = eflags_if /\ EndOfInterrupt(Secondary)
      BY <1>5 DEF EoiSecondary, At, GotoPc
    <2> HIDE DEF f
    <2>2. Top.who = Rtc
      BY <1>1, <2>1 DEF Steady, Quiet, Sections, Unmasked, Masked
    <2>3. Steady(f, eflags_if')
      BY <1>1, <1>2, <2>1, <2>2 DEF Steady
    <2>4. isr = {Rtc, Cascade} /\ isr \cap Secondary = {Rtc} /\ ServedBelow(stack) = {}
      BY <1>1, <1>3, <2>1, <2>2 DEF ServedBy, Cascade, Rtc, Secondary
    <2>5. isr' = {Cascade} /\ irr' = irr
      BY <2>1, <2>4, Lowest DEF EndOfInterrupt, Cascade, Rtc
    <2>6. ServedBy(f) = {Cascade}
      BY <1>1, <1>2, <2>1, <2>2 DEF ServedBy
    <2> QED BY <1>2, <1>3, <2>1, <2>3, <2>4, <2>5, <2>6, GotoKeeps
  <1> QED BY <1>4, <1>5

(* The keyboard handler outside queue_signal, and the RTC's own step. *)
LEMMA ServeHolds == IrqInv /\ (ReadByte \/ ClearPrefixes \/ TimerTick) => IrqInv'
  <1> SUFFICES ASSUME IrqInv, ReadByte \/ ClearPrefixes \/ TimerTick PROVE IrqInv'
    OBVIOUS
  <1>1. /\ Top.who \in {Main, Pit, Keyboard, Rtc} /\ Main \notin {Pit, Keyboard, Rtc}
        /\ Steady(Top, eflags_if) /\ IsFrame(Top)
        /\ Pit # Keyboard /\ Pit # Rtc /\ Keyboard # Rtc
    BY Runs DEF IrqInv, Pit, Keyboard, Rtc
  <1>2. CASE ReadByte
    <2>1. Top.pc = "read" /\ eflags_if' = eflags_if /\ irr' = irr /\ isr' = isr
      BY <1>2 DEF ReadByte, At
    <2>2. Top.who = Keyboard /\ eflags_if = FALSE
      BY <1>1, <2>1 DEF Steady, Quiet, Sections, Unmasked, Masked
    <2>3. CASE GotoPc("eoi")
      BY <1>1, <2>1, <2>2, <2>3, CallKeeps DEF Unmasked
    <2>4. ASSUME NEW pc \in {"clear", "queue"}, NEW s, Goto(Frame(Keyboard, pc, s))
          PROVE  IrqInv'
      <3> DEFINE f == Frame(Keyboard, pc, s)
      <3>1. IsFrame(f) /\ f.who = Keyboard /\ f.pc = pc /\ Goto(f)
        BY <2>4, Made
      <3> HIDE DEF f
      <3>2. Steady(f, eflags_if')
        BY <1>1, <2>1, <2>2, <3>1 DEF Steady, Unmasked, Masked
      <3>3. irr' \subseteq Line /\ isr' = ServedBy(f) \cup ServedBelow(stack)
        BY <1>1, <2>1, <2>2, <3>1 DEF IrqInv, ServedBy
      <3> QED BY <2>2, <3>1, <3>2, <3>3, GotoKeeps
    <2>5. \/ GotoPc("eoi")
          \/ \E s : \E pc \in {"clear", "queue"} : Goto(Frame(Keyboard, pc, s))
      BY <1>2 DEF ReadByte
    <2> QED BY <2>3, <2>4, <2>5
  <1>3. CASE ClearPrefixes
    <2>1. /\ Top.pc = "clear" /\ GotoPc("eoi")
          /\ eflags_if' = eflags_if /\ irr' = irr /\ isr' = isr
      BY <1>3 DEF ClearPrefixes, At
    <2>2. Top.who = Keyboard /\ eflags_if \in BOOLEAN
      BY <1>1, <2>1 DEF Steady, Quiet, Sections
    <2> QED BY <1>1, <2>1, <2>2, CallKeeps DEF Unmasked
  <1>4. CASE TimerTick
    <2> DEFINE f == [Top EXCEPT !.pc = "eoi_secondary"]
    <2>1. /\ Top.pc = "tick" /\ GotoPc("eoi_secondary")
          /\ eflags_if' = eflags_if /\ irr' = irr /\ isr' = isr
      BY <1>4 DEF TimerTick, At
    <2>2. Top.who = Rtc
      BY <1>1, <2>1 DEF Steady, Quiet, Sections, Unmasked, Masked
    <2>3. f.who = Rtc /\ f.pc = "eoi_secondary"
      BY <1>1, <2>2, Moved
    <2>4. Steady(f, eflags_if') /\ ServedBy(f) = ServedBy(Top)
      <3> HIDE DEF f
      <3> QED BY <1>1, <2>1, <2>2, <2>3 DEF Steady, ServedBy
    <2> QED BY <2>1, <2>4, GotoPcKeeps
  <1> QED BY <1>2, <1>3, <1>4

-----------------------------------------------------------------------------
(* Above Lua, or a keyboard handler done with its end of interrupt, any line *)
(* can be taken; above a keyboard handler still in service, only the PIT.    *)
LEMMA Taken ==
    ASSUME IrqInv, TakeInterrupt
    PROVE  /\ \/ Top.who = Main /\ Top.pc \in Quiet
              \/ Top.who = Keyboard /\ Top.pc \in Unmasked
           /\ Acknowledged \in Line /\ Acknowledged \in irr
           /\ isr = {} \/ (isr = {Keyboard} /\ Acknowledged = Pit)
           /\ isr # {} <=> Top.who = Keyboard /\ Top.pc # "iret"
  <1>1. /\ Top.who \in {Main, Pit, Keyboard, Rtc} /\ Main \notin {Pit, Keyboard, Rtc}
        /\ Steady(Top, eflags_if) /\ eflags_if
        /\ Top.who # Pit => ServedBelow(stack) = {}
        /\ Pit # Keyboard /\ Pit # Rtc /\ Keyboard # Rtc
    BY Runs DEF IrqInv, Pit, Keyboard, Rtc, TakeInterrupt, Interrupted
  <1>2. \/ Top.who = Main /\ Top.pc \in Quiet
        \/ Top.who = Keyboard /\ Top.pc \in Unmasked
    BY <1>1 DEF Steady
  <1>3. /\ isr = {} \/ isr = {Keyboard}
        /\ isr # {} <=> Top.who = Keyboard /\ Top.pc # "iret"
    BY <1>1, <1>2 DEF IrqInv, ServedBy
  <1>4. irr \subseteq Line /\ Line \subseteq {Pit, Keyboard, Rtc}
    BY SizesAssumption DEF IrqInv, Pit, Keyboard, Rtc
  <1>5. Asking \subseteq {Pit, Keyboard, Cascade} /\ Asking # {}
    <2>1. Asking # {}
      BY DEF TakeInterrupt, Interrupted, Pending
    <2>2. irr \cap Primary \subseteq {Pit, Keyboard}
      BY <1>4 DEF Pit, Keyboard, Rtc, Primary
    <2> QED BY <2>1, <2>2 DEF Asking
  <1>6. Min(Asking) \in Asking /\ \A l \in Asking : Min(Asking) <= l
    BY <1>5, Lowest
  <1>7. Acknowledged \in Line /\ Acknowledged \in irr
    <2>1. CASE Min(Asking) = Cascade
      <3>1. SecondaryAsks
        BY <1>4, <1>6, <2>1 DEF Asking, Cascade, Pit, Keyboard, Rtc
      <3>2. irr \cap Secondary = {Rtc}
        BY <1>4, <3>1 DEF SecondaryAsks, Pit, Keyboard, Rtc, Secondary
      <3> QED BY <1>4, <2>1, <3>2, Lowest DEF Acknowledged
    <2>2. CASE Min(Asking) # Cascade
      BY <1>4, <1>6, <2>2 DEF Acknowledged, Asking
    <2> QED BY <2>1, <2>2
  <1>8. ASSUME isr = {Keyboard} PROVE Acknowledged = Pit
    <2>1. PICK l \in Asking : Beats(l, Primary)
      BY DEF TakeInterrupt, Interrupted, Pending
    <2>2. l < Keyboard /\ Keyboard \in isr \cap Primary
      BY <1>8, <2>1 DEF Beats, Keyboard, Primary
    <2>3. l = Pit
      BY <1>5, <2>2 DEF Pit, Keyboard, Cascade
    <2>4. Min(Asking) = Pit
      <3>1. Min(Asking) \in {0, 1, 2} /\ Min(Asking) <= 0
        BY <1>5, <1>6, <2>1, <2>3 DEF Pit, Keyboard, Cascade
      <3> QED BY <3>1 DEF Pit
    <2> QED BY <2>4 DEF Acknowledged, Pit, Cascade
  <1>9. isr = {} \/ (isr = {Keyboard} /\ Acknowledged = Pit)
    BY <1>3, <1>8
  <1> QED BY <1>2, <1>3, <1>7, <1>9

LEMMA TakeHolds == IrqInv /\ TakeInterrupt => IrqInv'
  <1> SUFFICES ASSUME IrqInv, TakeInterrupt PROVE IrqInv'
    OBVIOUS
  <1> DEFINE line == Acknowledged
             f == Frame(line, EntryOf(line), NoSignal)
  <1>1. /\ Top.who \in {Main, Pit, Keyboard, Rtc} /\ Main \notin {Pit, Keyboard, Rtc}
        /\ Len(stack) \in Nat \ {0} /\ Top = stack[Len(stack)]
        /\ Top.who = Main <=> Len(stack) = 1
        /\ ServedBelow(stack) = {} \/ Top.who = Pit
    BY Runs DEF IrqInv
  <1>2. /\ \/ Top.who = Main /\ Top.pc \in Quiet
           \/ Top.who = Keyboard /\ Top.pc \in Unmasked
        /\ line \in Line
        /\ isr = {} \/ (isr = {Keyboard} /\ line = Pit)
        /\ isr # {} <=> Top.who = Keyboard /\ Top.pc # "iret"
    BY Taken
  <1>3. /\ line \in {Pit, Keyboard, Rtc} /\ Pit # Keyboard /\ Pit # Rtc /\ Keyboard # Rtc
    BY <1>2, SizesAssumption DEF Pit, Keyboard, Rtc
  <1>4. /\ IsFrame(f) /\ f.who = line
        /\ f.pc = IF line = Keyboard THEN "read" ELSE IF line = Rtc THEN "tick" ELSE "eoi"
    BY <1>3, Made DEF EntryOf
  <1>5. /\ irr' = irr \ {line} /\ eflags_if' = FALSE /\ stack' = Append(stack, f)
        /\ isr' = isr \cup {line} \cup (IF line \in Secondary THEN {Cascade} ELSE {})
    BY DEF TakeInterrupt, Acknowledge
  <1> HIDE DEF line, f
  <1>6. /\ \E S : stack' \in Seq(S)
        /\ Len(stack') = Len(stack) + 1 /\ stack'[Len(stack) + 1] = f
        /\ \A i \in 1 .. Len(stack) : stack'[i] = stack[i]
    BY <1>5, Pushed, SMTT(30) DEF IrqInv
  <1>7. \A n \in Nat \ {0} : /\ n + 1 > 0 /\ n + 1 > 1 /\ n + 1 - 1 = n /\ 1 \in 1 .. n
                             /\ 1 .. n + 1 = (1 .. n) \cup {n + 1}
                             /\ 2 .. n + 1 = (2 .. n) \cup {n + 1}
                             /\ 2 .. n \subseteq 1 .. n
                             /\ 2 .. n = (2 .. n - 1) \cup (IF n = 1 THEN {} ELSE {n})
    OBVIOUS
  <1>8. \A i \in 1 .. Len(stack') : IsFrame(stack'[i])
    <2>1. \A i \in 1 .. Len(stack) : IsFrame(stack[i])
      BY DEF IrqInv, Stacked
    <2>2. 1 .. Len(stack') = (1 .. Len(stack)) \cup {Len(stack) + 1}
      BY <1>1, <1>6, <1>7
    <2> QED BY <1>4, <1>6, <2>1, <2>2, Zenon
  <1>9. \A i \in 2 .. Len(stack') : stack'[i].who \in Line
    <2>1. \A i \in 2 .. Len(stack) : stack[i].who \in Line
      BY DEF IrqInv, Stacked
    <2>2. /\ 2 .. Len(stack') = (2 .. Len(stack)) \cup {Len(stack) + 1}
          /\ 2 .. Len(stack) \subseteq 1 .. Len(stack)
      BY <1>1, <1>6, <1>7
    <2> QED BY <1>2, <1>4, <1>6, <2>1, <2>2, Zenon
  <1>10. stack'[1].who = Main /\ stack'[1].pc \in Quiet
    <2>1. Len(stack) = 1 \/ Len(stack) > 1
      BY <1>1, SMTT(30)
    <2> QED BY <1>1, <1>2, <1>6, <1>7, <2>1 DEF IrqInv, Stacked
  <1>11. ASSUME NEW i \in 2 .. Len(stack') - 1
         PROVE  /\ stack'[i].who = Keyboard /\ stack'[i].pc \in Unmasked
                /\ stack'[i].pc # "iret" => i = Len(stack') - 1 /\ stack'[Len(stack')].who = Pit
    <2>1. /\ i \in 2 .. Len(stack) /\ stack'[i] = stack[i] /\ Len(stack') - 1 = Len(stack)
          /\ stack'[Len(stack')] = f
      BY <1>1, <1>6, <1>7
    <2>2. CASE i = Len(stack)
      <3>1. Top.who # Main /\ stack'[i] = Top
        BY <1>1, <2>1, <2>2
      <3> QED BY <1>2, <1>4, <2>1, <2>2, <3>1
    <2>3. CASE i # Len(stack)
      <3>1. i \in 2 .. Len(stack) - 1
        BY <1>1, <1>7, <2>1, <2>3
      <3> QED BY <1>1, <1>2, <1>3, <2>1, <3>1 DEF IrqInv, Stacked
    <2> QED BY <2>2, <2>3
  <1>12. Stacked(stack')
    BY <1>1, <1>6, <1>7, <1>8, <1>9, <1>10, <1>11 DEF Stacked
  <1>13. Last(stack') = f
    BY <1>6 DEF Last
  <1>14. Steady(f, eflags_if')
    BY <1>1, <1>3, <1>4, <1>5 DEF Steady, Masked
  <1>15. ServedBelow(stack') = isr
    <2>1. \A n \in Nat \ {0} : \A m :
              m = n + 1 => m - 1 = n /\ (m > 2 <=> n # 1) /\ n \in 1 .. n
      OBVIOUS
    <2>2. /\ Len(stack') - 1 = Len(stack) /\ (Len(stack') > 2 <=> Len(stack) # 1)
          /\ stack'[Len(stack)] = Top
      BY <1>1, <1>6, <2>1, Zenon
    <2>3. Top.pc # "iret" <=> isr # {} \/ Top.who = Main
      BY <1>1, <1>2 DEF Quiet
    <2> QED BY <1>1, <1>2, <2>2, <2>3 DEF ServedBelow
  <1>16. isr' = ServedBy(f) \cup isr
    <2>1. CASE line = Rtc
      BY <1>1, <1>3, <1>4, <1>5, <2>1 DEF ServedBy, Rtc, Secondary, Cascade
    <2>2. CASE line # Rtc
      BY <1>1, <1>3, <1>4, <1>5, <2>2 DEF ServedBy, Pit, Keyboard, Secondary
    <2> QED BY <2>1, <2>2
  <1>17. irr' \subseteq Line
    BY <1>5 DEF IrqInv
  <1>18. Top' = Last(stack')
    BY DEF Top, Last
  <1> QED BY <1>12, <1>13, <1>14, <1>15, <1>16, <1>17, <1>18 DEF IrqInv, Stacked, ServedBelow

LEMMA IretHolds == IrqInv /\ Iret => IrqInv'
  <1> SUFFICES ASSUME IrqInv, Iret PROVE IrqInv'
    OBVIOUS
  <1> DEFINE below == Front(stack)
             under == stack[Len(stack) - 1]
  <1>1. /\ Top.who \in {Main, Pit, Keyboard, Rtc} /\ Main \notin {Pit, Keyboard, Rtc}
        /\ Len(stack) \in Nat \ {0} /\ Top = stack[Len(stack)]
        /\ Top.who = Main <=> Len(stack) = 1
        /\ Steady(Top, eflags_if) /\ Top.pc = "iret"
        /\ Keyboard \notin {Pit, Rtc}
    BY Runs DEF IrqInv, Iret, At, Pit, Keyboard, Rtc
  <1>2. /\ stack' = below /\ eflags_if' = TRUE /\ irr' = irr /\ isr' = isr
        /\ irr \subseteq Line /\ isr = ServedBelow(stack)
    <2>1. ServedBy(Top) = {}
      BY <1>1 DEF ServedBy
    <2> QED BY <2>1 DEF IrqInv, Iret
  <1>3. Len(stack) # 1
    BY <1>1 DEF Steady, Quiet, Sections
  <1>4. /\ \E S : below \in Seq(S)
        /\ Len(below) = Len(stack) - 1
        /\ \A i \in 1 .. Len(stack) - 1 : below[i] = stack[i]
    BY Popped DEF IrqInv
  <1>5. \A n \in Nat \ {0} : \A m : n # 1 /\ m = n - 1 =>
            /\ m > 0 /\ m \in 1 .. m /\ 1 \in 1 .. m /\ n > 1 /\ n \in 2 .. n
            /\ 1 .. m \subseteq 1 .. n /\ 2 .. m \subseteq 2 .. n /\ 2 .. m \subseteq 1 .. m
            /\ 2 .. m - 1 \subseteq 2 .. m /\ (\A i \in 2 .. m - 1 : i # m)
            /\ (n > 2 <=> m # 1) /\ (m # 1 => m \in 2 .. m) /\ (m > 2 => m - 1 \in 2 .. m - 1)
    OBVIOUS
  <1> DEFINE n == Len(stack)
             m == Len(below)
  <1>6. /\ m = n - 1 /\ m > 0 /\ m \in 1 .. m /\ 1 \in 1 .. m /\ n > 1
        /\ 1 .. m \subseteq 1 .. n /\ 2 .. m \subseteq 2 .. n /\ 2 .. m \subseteq 1 .. m
        /\ 2 .. m - 1 \subseteq 2 .. m /\ (\A i \in 2 .. m - 1 : i # m)
        /\ (n > 2 <=> m # 1) /\ (m # 1 => m \in 2 .. m) /\ (m > 2 => m - 1 \in 2 .. m - 1)
    BY <1>1, <1>3, <1>4, <1>5, Zenon
  <1>7. /\ \A i \in 1 .. m : below[i] = stack[i]
        /\ under = stack[m] /\ under = below[m]
    BY <1>4, <1>6
  <1>8. /\ \A i \in 1 .. n : IsFrame(stack[i])
        /\ stack[1].who = Main /\ stack[1].pc \in Quiet
        /\ \A i \in 2 .. n : stack[i].who \in Line
        /\ \A i \in 2 .. m :
               /\ stack[i].who = Keyboard /\ stack[i].pc \in Unmasked
               /\ stack[i].pc # "iret" => i = m
    BY <1>6 DEF IrqInv, Stacked
  <1> HIDE DEF n, m, below, under
  <1>9. Stacked(below)
    <2>1. \A i \in 2 .. m - 1 :
               /\ below[i].who = Keyboard /\ below[i].pc \in Unmasked /\ below[i].pc = "iret"
      BY <1>6, <1>7, <1>8, Zenon
    <2>2. \A i \in 1 .. m : IsFrame(below[i])
      BY <1>6, <1>7, <1>8, Zenon
    <2>3. below[1].who = Main /\ below[1].pc \in Quiet
      BY <1>6, <1>7, <1>8, Zenon
    <2>4. \A i \in 2 .. m : below[i].who \in Line
      BY <1>6, <1>7, <1>8, Zenon
    <2>5. Len(below) = m /\ m > 0
      BY <1>6 DEF m
    <2> QED BY <1>4, <2>1, <2>2, <2>3, <2>4, <2>5, Zenon DEF Stacked
  <1>10. Top' = under
    BY <1>2, <1>7 DEF Top, Last, m
  <1>11. \/ under.who = Main /\ under.pc \in Quiet /\ m = 1
         \/ under.who = Keyboard /\ under.pc \in Unmasked /\ m # 1
    <2>1. CASE m = 1
      BY <1>7, <1>8, <2>1
    <2>2. CASE m # 1
      BY <1>6, <1>7, <1>8, <2>2
    <2> QED BY <2>1, <2>2
  <1>12. Steady(under, TRUE)
    BY <1>1, <1>11 DEF Steady
  <1>13. ServedBelow(stack) = ServedBy(under)
    <2>1. ServedBelow(stack) = IF n > 2 /\ under.pc # "iret" THEN {Keyboard} ELSE {}
      BY DEF ServedBelow, n, under
    <2>2. (n > 2) <=> (m # 1)
      BY <1>6
    <2> QED BY <1>1, <1>11, <2>1, <2>2 DEF ServedBy
  <1>14. ServedBelow(below) = {}
    <2>1. ServedBelow(below) = IF m > 2 /\ below[m - 1].pc # "iret" THEN {Keyboard} ELSE {}
      BY DEF ServedBelow, m
    <2>2. ASSUME m > 2 PROVE below[m - 1].pc = "iret"
      <3>1. m - 1 \in 2 .. m - 1
        BY <1>6, <2>2
      <3>2. m - 1 \in 2 .. m /\ m - 1 # m /\ below[m - 1] = stack[m - 1]
        BY <1>6, <1>7, <3>1, Zenon
      <3> QED BY <1>8, <3>2
    <2> QED BY <2>1, <2>2
  <1> QED BY <1>2, <1>9, <1>10, <1>12, <1>13, <1>14 DEF IrqInv, Stacked, ServedBelow

(* Only attached timers come due. *)
DueKnown == due \subseteq Timers

(* The devices raise lines and turn no processor state over. *)
LEMMA DeviceHolds == IrqInv /\ DueKnown /\ Device => IrqInv'
  <1> SUFFICES ASSUME IrqInv, DueKnown, Device PROVE IrqInv'
    OBVIOUS
  <1>1. UNCHANGED <<eflags_if, stack, isr>>
    BY DEF Device, SendByte, PitTick, RtcTick, TypeKey
  <1>2. irr' \subseteq Line
    <2>1. irr \subseteq Line
      BY DEF IrqInv
    <2>2. CASE SendByte
      BY <2>1, <2>2, SizesAssumption DEF SendByte, RaiseLine, Keyboard
    <2>3. CASE PitTick \/ RtcTick
      <3>1. due \subseteq Line
        BY DEF DueKnown, Timers
      <3> QED BY <2>1, <2>3, <3>1 DEF PitTick, RtcTick, RaiseLine
    <2>4. ASSUME NEW raw, NEW up, TypeKey(raw, up) PROVE irr' \subseteq Line
      BY <2>1, <2>4 DEF TypeKey
    <2> QED BY <2>2, <2>3, <2>4 DEF Device
  <1> QED BY <1>1, <1>2 DEF IrqInv, Top, Stacked, ServedBelow

LEMMA DueStays == DueKnown /\ [Next]_vars => DueKnown'
  <1> SUFFICES ASSUME DueKnown, [Next]_vars PROVE DueKnown'
    OBVIOUS
  <1> USE DEF DueKnown
  <1>1. CASE QueueSignal
    BY <1>1 DEF QueueSignal, QueueCli, QueueCheck, QueueFull, QueueCopy, QueueCount, QueueSti,
                Progress
  <1>2. CASE DequeueSignal
    BY <1>2 DEF DequeueSignal, DequeueCheck, DequeueCli, DequeueCopy, DequeueCount,
                DequeueAdvance, DequeueSti, Progress
  <1>3. CASE PushSignal
    BY <1>3 DEF PushSignal, Progress
  <1>4. CASE TakeInterrupt \/ Handler
    BY <1>4 DEF TakeInterrupt, Handler, ReadByte, ClearPrefixes, TimerTick, EoiSecondary,
                EoiPrimary, Iret
  <1>5. CASE Device
    BY <1>5 DEF Device, SendByte, PitTick, RtcTick, TypeKey
  <1>6. CASE UNCHANGED vars
    BY <1>6 DEF vars
  <1> QED BY <1>1, <1>2, <1>3, <1>4, <1>5, <1>6 DEF Next, Cpu

LEMMA StepHolds ==
    IrqInv /\ DueKnown /\ [Next]_vars => IrqInv' /\ DueKnown'
  <1> SUFFICES ASSUME IrqInv, DueKnown, [Next]_vars PROVE IrqInv'
    BY DueStays
  <1>1. CASE Cpu
    BY <1>1, QueueHolds, DequeueHolds, TakeHolds, ServeHolds, EoiHolds, IretHolds
       DEF Cpu, Handler
  <1>2. CASE PushSignal
    BY <1>2, PushHolds
  <1>3. CASE Device
    BY <1>3, DeviceHolds
  <1>4. CASE UNCHANGED vars
    BY <1>4 DEF vars, IrqInv, Top, Stacked, ServedBelow
  <1> QED BY <1>1, <1>2, <1>3, <1>4 DEF Next

LEMMA IrqHolds == Spec => []IrqInv
  <1>1. Init => DueKnown
    BY DEF Init, DueKnown
  <1> QED BY <1>1, InitHolds, StepHolds, PTL DEF Spec

-----------------------------------------------------------------------------
(* For any set of lines, keys and signals: no handler is entered again       *)
(* before it has sent its end of interrupt.  Two frames of one handler that  *)
(* are not at their iret would both be interrupted ones or one of them the   *)
(* running one: the controllers let only the PIT interrupt the keyboard      *)
(* handler, and nothing interrupts the PIT's.                                *)
THEOREM NeverReentered == Spec => []NotReentered
  <1>1. IrqInv => NotReentered
    <2> SUFFICES ASSUME IrqInv, NEW i \in DOMAIN stack, NEW j \in DOMAIN stack,
                        stack[i].who = stack[j].who,
                        "iret" \notin {stack[i].pc, stack[j].pc}
                 PROVE  i = j
      BY DEF NotReentered
    <2>1. /\ Len(stack) \in Nat \ {0} /\ Top = stack[Len(stack)] /\ DOMAIN stack = 1 .. Len(stack)
          /\ Main \notin {Pit, Keyboard, Rtc} /\ Keyboard # Pit
      BY Runs, LenProperties DEF IrqInv, Stacked, Keyboard, Pit
    <2>2. stack[1].who = Main /\ \A k \in 2 .. Len(stack) : stack[k].who \in Line
      BY DEF IrqInv, Stacked
    <2>3. Line \subseteq {Pit, Keyboard, Rtc}
      BY SizesAssumption DEF Pit, Keyboard, Rtc
    <2>4. ASSUME NEW k \in 2 .. Len(stack) - 1, stack[k].pc # "iret"
          PROVE  k = Len(stack) - 1 /\ stack[Len(stack)].who = Pit /\ stack[k].who = Keyboard
      BY <2>4 DEF IrqInv, Stacked
    <2>5. \A n \in Nat : \A k \in 1 .. n : /\ k = 1 \/ k \in 2 .. n
                                           /\ k = 1 \/ k \in 2 .. n - 1 \/ k = n
      OBVIOUS
    <2>6. \A k \in 1 .. Len(stack) : /\ k = 1 \/ k \in 2 .. Len(stack)
                                     /\ k = 1 \/ k \in 2 .. Len(stack) - 1 \/ k = Len(stack)
      BY <2>1, <2>5, Zenon
    <2>7. i \in 1 .. Len(stack) /\ j \in 1 .. Len(stack)
      BY <2>1
    <2>8. \A k \in 2 .. Len(stack) : stack[k].who # Main
      BY <2>1, <2>2, <2>3
    <2>9. CASE i = 1 \/ j = 1
      BY <2>2, <2>6, <2>7, <2>8, <2>9, Zenon
    <2>10. CASE i = Len(stack) \/
             (i = Len(stack) - 1 /\ Top.who = Pit /\ stack[i].who = Keyboard)
      <3>1. CASE j = Len(stack) \/ (j = Len(stack) - 1 /\ Top.who = Pit /\ stack[j].who = Keyboard)
        BY <2>1, <2>10, <3>1
      <3> QED BY <2>1, <2>4, <2>6, <2>7, <2>9, <3>1, Zenon
    <2> QED BY <2>1, <2>4, <2>6, <2>7, <2>9, <2>10, Zenon
  <1> QED BY <1>1, IrqHolds, PTL

(* What the controllers hold in service is what the handlers on the stack    *)
(* have not ended: each end of interrupt retires the line that sends it.     *)
THEOREM ServedIsOnStack == Spec => []InService
  <1>1. IrqInv => InService
    <2> SUFFICES ASSUME IrqInv PROVE InService
      OBVIOUS
    <2> DEFINE n == Len(stack)
               U == {i \in 2 .. Len(stack) : stack[i].pc # "iret"}
               C == {i \in U : stack[i].who \in Secondary}
               E == {j \in C : stack[j].pc = "eoi"}
               Below == n > 2 /\ stack[n - 1].pc # "iret"
               Serving == Top.who # Main /\ Top.pc # "iret"
    <2>1. /\ n \in Nat \ {0} /\ Top = stack[n]
          /\ (Top.who = Main) <=> (n = 1)
          /\ Top.who \in {Main, Pit, Keyboard, Rtc} /\ Main \notin {Pit, Keyboard, Rtc}
          /\ Pit \notin Secondary /\ Keyboard \notin Secondary /\ Rtc \in Secondary
          /\ Pit # Rtc /\ Keyboard # Rtc /\ Pit # Keyboard
      BY Runs DEF IrqInv, Pit, Keyboard, Rtc, Secondary
    <2>2. \A k \in Nat \ {0} :
              /\ (k # 1 => k \in 2 .. k) /\ (k > 2 => k - 1 \in 2 .. k - 1 /\ k - 1 \in 2 .. k)
              /\ k # k - 1 /\ \A i \in 2 .. k : k # 1 /\ (i = k \/ i \in 2 .. k - 1) /\ (i = k - 1 => k > 2)
      OBVIOUS
    <2>3. \A i \in 2 .. n - 1 :
              stack[i].pc # "iret" => i = n - 1 /\ stack[n].who = Pit /\ stack[i].who = Keyboard
      BY DEF IrqInv, Stacked
    <2> HIDE DEF n
    <2>4. /\ n \in U <=> Serving
          /\ Below => n - 1 \in U /\ stack[n - 1].who = Keyboard /\ Top.who = Pit
          /\ \A i \in U : i = n \/ (i = n - 1 /\ Below)
      <3>1. n \in U <=> Serving
        BY <2>1, <2>2 DEF n
      <3>2. ASSUME Below PROVE n - 1 \in U /\ stack[n - 1].who = Keyboard /\ Top.who = Pit
        BY <2>1, <2>2, <2>3, <3>2 DEF n
      <3>3. ASSUME NEW i \in U PROVE i = n \/ (i = n - 1 /\ Below)
        BY <2>1, <2>2, <2>3, <3>3 DEF n
      <3> QED BY <3>1, <3>2, <3>3
    <2> HIDE DEF U, Below
    <2>5. C = IF Top.who = Rtc /\ Serving THEN {n} ELSE {}
      BY <2>1, <2>4
    <2>6. E = IF Top.who = Rtc /\ Top.pc = "eoi" THEN {n} ELSE {}
      BY <2>1, <2>5
    <2> HIDE DEF C, E
    <2>7. {stack[i].who : i \in U \ E} =
              (IF Serving /\ ~(Top.who = Rtc /\ Top.pc = "eoi") THEN {Top.who} ELSE {})
                  \cup (IF Below THEN {Keyboard} ELSE {})
      <3>1. n # n - 1
        BY <2>1, <2>2
      <3> QED BY <2>1, <2>4, <2>6, <3>1
    <2>8. isr = ServedBy(Top) \cup (IF Below THEN {Keyboard} ELSE {})
      BY DEF IrqInv, ServedBelow, Below, n
    <2>9. isr = {stack[i].who : i \in U \ E} \cup (IF C = {} THEN {} ELSE {Cascade})
      BY <2>1, <2>5, <2>7, <2>8 DEF ServedBy
    <2> QED BY <2>9 DEF InService, U, C, E
  <1> QED BY <1>1, IrqHolds, PTL

(* Whatever path Lua's calls take, interrupts are on when they are over.     *)
THEOREM InterruptsComeBack == Spec => []InterruptsOn
  <1>1. IrqInv => InterruptsOn
    BY DEF IrqInv, Steady, InterruptsOn, Sections
  <1> QED BY <1>1, IrqHolds, PTL

-----------------------------------------------------------------------------
(***************************************************************************)
(* The keyboard driver, from the byte on the wire to the signal in the     *)
(* ring, whatever interrupts arrive between its machine steps.             *)
(*                                                                         *)
(* Decoding: the flag byte follows the user's hands and every key event    *)
(* comes out once, in order.  The invariant (KeyInv) looks at all bytes    *)
(* between the user and the decoder as one stream: a prefix remembered in  *)
(* the flag byte, the byte in the controller's buffer, the bytes on the    *)
(* wire.  A set of "readings" says that the stream is the scancodes of the *)
(* key events still to come, with the modifiers each of them finds; it is  *)
(* closed under taking the first event off, so no induction over the       *)
(* stream is needed.                                                       *)
(*                                                                         *)
(* The ring: shared by Lua and the handler through cli and sti, it behaves *)
(* as SignalRing says, each call one atomic step, for any number of slots, *)
(* any keys and any interrupt lines.  A call takes effect at its copy;     *)
(* every other machine step of it is a stutter.                            *)
(***************************************************************************)

Byte == 0 .. 255
KeySets == SUBSET AllKeySignals

(* The prefixes in front of a key's code. *)
Prefixed(ext, up, s) ==
    LET released == IF up THEN Cons(Break, s) ELSE s
    IN  IF ext THEN Cons(Extended, released) ELSE released

(* The handler is past its key's code and has not cleared the prefixes yet.  *)
Decodes(f) ==
    f.who = Keyboard /\ f.pc \in {"queue", "check", "full", "copy", "count", "sti", "clear"}
DecodesBelow(st) == \E i \in 1 .. Len(st) - 1 : Decodes(st[i])
Decoding == Decodes(Top) \/ DecodesBelow(stack)

(* The bytes of the key events that are not decoded yet. *)
Waiting == IF obf = Nothing THEN wire ELSE Cons(obf, wire)
Stream ==
    IF Decoding THEN Waiting ELSE Prefixed("EXT" \in flags, "BREAK" \in flags, Waiting)

(* The modifiers ps2_interrupt looks at, for a key found with some held.     *)
Found(raw, up, held) == WithModifier(raw, held \cup (IF up THEN {"BREAK"} ELSE {}))

Reading(bytes, keys, held) == [bytes |-> bytes, keys |-> keys, held |-> held]

(* Every reading that is not at its end begins with a key event of the user, *)
(* and what is left after it is a reading too.                               *)
Begins(p, q, raw, up) ==
    /\ p.bytes = Scancodes(raw, up) \o q.bytes
    /\ p.keys # <<>> /\ Head(p.keys) = KeySignals(raw, Found(raw, up, p.held))
    /\ q.keys = Tail(p.keys)
    /\ q.held = Found(raw, up, p.held) \ {"BREAK"}
Reads(R, last) ==
    /\ R \subseteq [bytes : Seq(Byte), keys : Seq(KeySets), held : SUBSET Modifiers]
    /\ \A p \in R :
        \/ p = Reading(<<>>, <<>>, last)
        \/ \E q \in R, raw \in Key, up \in BOOLEAN : Begins(p, q, raw, up)

KeyInv ==
    /\ obf \in Byte \cup {Nothing} /\ wire \in Seq(Byte)
    /\ flags \subseteq Modifiers \cup {"EXT", "BREAK"}
    /\ latched \subseteq Modifiers
    /\ Keyboard \in irr \/ Top.pc = "read" => obf # Nothing
    /\ ~(Keyboard \in irr /\ Top.pc = "read")
    /\ \E R : Reads(R, latched) /\ Reading(Stream, typed, flags \cap Modifiers) \in R

-----------------------------------------------------------------------------
(* Bytes in front of bytes. *)
LEMMA ConsIs ==
    ASSUME NEW x \in Byte, NEW s \in Seq(Byte)
    PROVE  /\ Cons(x, s) \in Seq(Byte) /\ Cons(x, s) # <<>>
           /\ Head(Cons(x, s)) = x /\ Tail(Cons(x, s)) = s
           /\ Len(s) \in Nat /\ Len(Cons(x, s)) = 1 + Len(s) /\ Cons(x, s)[1] = x
           /\ \A i \in 1 .. Len(s) : Cons(x, s)[i + 1] = s[i]
  <1> DEFINE front == <<x>>
             new == front \o s
  <1>1. front \in Seq(Byte) /\ Len(front) = 1 /\ front[1] = x
    OBVIOUS
  <1> HIDE DEF front
  <1>2. /\ new \in Seq(Byte) /\ Len(new) = Len(front) + Len(s)
        /\ \A i \in 1 .. Len(front) + Len(s) :
               new[i] = IF i <= Len(front) THEN front[i] ELSE s[i - Len(front)]
    BY <1>1, ConcatProperties
  <1> HIDE DEF new
  <1>3. Len(s) \in Nat
    BY LenProperties
  <1>4. Len(new) = 1 + Len(s) /\ new # <<>> /\ new[1] = x
    BY <1>1, <1>2, <1>3
  <1>5. \A i \in 1 .. Len(s) : new[i + 1] = s[i]
    BY <1>1, <1>2, <1>3
  <1>6. Head(new) = x
    BY <1>2, <1>4
  <1>7. Tail(new) = s
    <2> DEFINE tail == Tail(new)
    <2>1. /\ tail \in Seq(Byte) /\ Len(tail) = Len(new) - 1
          /\ \A i \in 1 .. Len(tail) : tail[i] = new[i + 1]
      BY <1>2, <1>4, HeadTailProperties
    <2> HIDE DEF tail
    <2>2. Len(tail) = Len(s)
      BY <1>3, <1>4, <2>1
    <2>3. tail = s
      BY <1>5, <2>1, <2>2, SeqEqual
    <2> QED BY <2>3 DEF tail
  <1> QED BY <1>2, <1>3, <1>4, <1>5, <1>6, <1>7 DEF Cons, new, front

LEMMA ConsInjective ==
    ASSUME NEW x \in Byte, NEW y \in Byte, NEW s \in Seq(Byte), NEW t \in Seq(Byte),
           Cons(x, s) = Cons(y, t)
    PROVE  x = y /\ s = t
  <1>1. Head(Cons(x, s)) = x /\ Tail(Cons(x, s)) = s
    BY ConsIs
  <1>2. Head(Cons(y, t)) = y /\ Tail(Cons(y, t)) = t
    BY ConsIs
  <1> QED BY <1>1, <1>2

LEMMA ConsConcat ==
    ASSUME NEW x \in Byte, NEW s \in Seq(Byte), NEW t \in Seq(Byte)
    PROVE  Cons(x, s) \o t = Cons(x, s \o t)
  <1>1. <<x>> \in Seq(Byte)
    OBVIOUS
  <1> QED BY <1>1, ConcatAssociative DEF Cons

LEMMA ConsHeadTail ==
    ASSUME NEW s \in Seq(Byte), s # <<>>
    PROVE  Head(s) \in Byte /\ Tail(s) \in Seq(Byte) /\ Cons(Head(s), Tail(s)) = s
  <1> DEFINE head == Head(s)
             tail == Tail(s)
             new == Cons(head, tail)
  <1>1. /\ head \in Byte /\ tail \in Seq(Byte) /\ Len(tail) = Len(s) - 1
        /\ \A i \in 1 .. Len(tail) : tail[i] = s[i + 1]
    BY HeadTailProperties
  <1>2. head = s[1] /\ Len(s) \in Nat
    BY LenProperties
  <1> HIDE DEF head, tail
  <1>3. /\ new \in Seq(Byte) /\ Len(new) = 1 + Len(tail) /\ new[1] = head
        /\ \A i \in 1 .. Len(tail) : new[i + 1] = tail[i]
    BY <1>1, ConsIs
  <1> HIDE DEF new
  <1>4. Len(new) = Len(s)
    BY <1>1, <1>2, <1>3
  <1>5. ASSUME NEW i \in 1 .. Len(new) PROVE new[i] = s[i]
    <2>1. CASE i = 1
      BY <1>2, <1>3, <2>1
    <2>2. CASE i # 1
      <3>1. i - 1 \in 1 .. Len(tail) /\ (i - 1) + 1 = i
        BY <1>1, <1>2, <1>4, <2>2
      <3> QED BY <1>1, <1>3, <3>1
    <2> QED BY <2>1, <2>2
  <1>6. new = s
    BY <1>3, <1>4, <1>5, SeqEqual
  <1> QED BY <1>1, <1>6 DEF new, head, tail

-----------------------------------------------------------------------------
(* Prefixes in front of a byte stream say which prefixes they are: a byte    *)
(* that is none comes after all of them, 0xE0 first of all, 0xF0 after it.   *)
LEMMA PrefixedIs ==
    ASSUME NEW e \in BOOLEAN, NEW u \in BOOLEAN, NEW s \in Seq(Byte), NEW t \in Seq(Byte)
    PROVE  /\ Prefixed(e, u, s) \in Seq(Byte)
           /\ Prefixed(e, u, s) \o t = Prefixed(e, u, s \o t)
           /\ Prefixed(e, u, s) = <<>> => ~e /\ ~u /\ s = <<>>
  <1>1. Break \in Byte /\ Extended \in Byte /\ s \o t \in Seq(Byte)
    BY ConcatProperties DEF Break, Extended, Byte
  <1> DEFINE a == IF u THEN Cons(Break, s) ELSE s
  <1>2. /\ a \in Seq(Byte) /\ a \o t = (IF u THEN Cons(Break, s \o t) ELSE s \o t)
        /\ a = <<>> => ~u /\ s = <<>>
    BY <1>1, ConsIs, ConsConcat
  <1>3. Prefixed(e, u, s) = IF e THEN Cons(Extended, a) ELSE a
    BY DEF Prefixed
  <1>4. Prefixed(e, u, s \o t) = IF e THEN Cons(Extended, a \o t) ELSE a \o t
    BY <1>2 DEF Prefixed
  <1> HIDE DEF a
  <1>5. CASE e
    <2>1. Cons(Extended, a) \in Seq(Byte) /\ Cons(Extended, a) # <<>>
      BY <1>1, <1>2, ConsIs
    <2>2. Cons(Extended, a) \o t = Cons(Extended, a \o t)
      BY <1>1, <1>2, ConsConcat
    <2> QED BY <1>3, <1>4, <1>5, <2>1, <2>2
  <1>6. CASE ~e
    BY <1>2, <1>3, <1>4, <1>6
  <1> QED BY <1>5, <1>6

LEMMA ScancodesPrefixed ==
    ASSUME NEW raw \in Key, NEW up \in BOOLEAN, NEW t \in Seq(Byte)
    PROVE  /\ Scancodes(raw, up) \in Seq(Byte)
           /\ Scancodes(raw, up) \o t = Prefixed(raw >= 256, up, Cons(raw % 256, t))
           /\ raw % 256 \in Byte \ {Extended, Break}
  <1>1. /\ raw \in 0 .. 511 /\ raw % 256 \in Byte \ {Extended, Break}
        /\ Extended \in Byte /\ Break \in Byte
    <2>1. raw \in 0 .. 511 /\ raw % 256 \notin {Extended, Break}
      BY SizesAssumption
    <2>2. \A n \in 0 .. 511 : n % 256 \in 0 .. 255
      OBVIOUS
    <2> QED BY <2>1, <2>2 DEF Byte, Extended, Break
  <1> DEFINE e == IF raw >= 256 THEN <<Extended>> ELSE <<>>
             u == IF up THEN <<Break>> ELSE <<>>
             c == <<raw % 256>>
  <1>2. e \in Seq(Byte) /\ u \in Seq(Byte) /\ c \in Seq(Byte)
    BY <1>1
  <1>3. /\ Scancodes(raw, up) = (e \o u) \o c
        /\ Prefixed(raw >= 256, up, Cons(raw % 256, t)) = e \o (u \o (c \o t))
    <2>1. Cons(raw % 256, t) = c \o t /\ c \o t \in Seq(Byte)
      BY <1>2, ConcatProperties DEF Cons
    <2>2. /\ u \o (c \o t) = IF up THEN Cons(Break, c \o t) ELSE c \o t
          /\ u \o (c \o t) \in Seq(Byte)
      BY <1>2, <2>1, ConcatEmptySeq, ConcatProperties DEF Cons
    <2>3. e \o (u \o (c \o t)) =
              IF raw >= 256 THEN Cons(Extended, u \o (c \o t)) ELSE u \o (c \o t)
      BY <2>2, ConcatEmptySeq DEF Cons
    <2>4. Scancodes(raw, up) = (e \o u) \o c
      BY DEF Scancodes
    <2>5. Prefixed(raw >= 256, up, c \o t) = e \o (u \o (c \o t))
      <3> HIDE DEF e, u, c
      <3> QED BY <2>2, <2>3 DEF Prefixed
    <2> QED BY <2>1, <2>4, <2>5, ZenonT(40)
  <1> HIDE DEF e, u, c
  <1>4. /\ e \o u \in Seq(Byte) /\ (e \o u) \o c \in Seq(Byte) /\ c \o t \in Seq(Byte)
    BY <1>2, ConcatProperties
  <1>5. ((e \o u) \o c) \o t = (e \o u) \o (c \o t)
    BY <1>2, <1>4, ConcatAssociative
  <1>6. (e \o u) \o (c \o t) = e \o (u \o (c \o t))
    BY <1>2, <1>4, ConcatAssociative, SMTT(30)
  <1> QED BY <1>1, <1>3, <1>4, <1>5, <1>6

LEMMA PrefixesKnown ==
    ASSUME NEW e \in BOOLEAN, NEW u \in BOOLEAN, NEW b \in Byte, NEW s \in Seq(Byte),
           NEW e2 \in BOOLEAN, NEW u2 \in BOOLEAN, NEW c \in Byte \ {Extended, Break},
           NEW t \in Seq(Byte),
           Prefixed(e, u, Cons(b, s)) = Prefixed(e2, u2, Cons(c, t))
    PROVE  /\ b = Extended => ~e /\ ~u
           /\ b = Break => ~u
           /\ b \notin {Extended, Break} => e = e2 /\ u = u2 /\ b = c /\ s = t
  <1>1. Extended \in Byte /\ Break \in Byte /\ Extended # Break
    BY DEF Byte, Extended, Break
  <1>2. Cons(b, s) \in Seq(Byte) /\ Cons(c, t) \in Seq(Byte)
    BY ConsIs
  <1> DEFINE p == Cons(b, s)
             q == Cons(c, t)
  <1> HIDE DEF p, q
  <1>3. Cons(Break, p) \in Seq(Byte) /\ Cons(Break, q) \in Seq(Byte)
    BY <1>1, <1>2, ConsIs DEF p, q
  <1>4. \A x, y \in Byte : \A v, w \in Seq(Byte) : Cons(x, v) = Cons(y, w) => x = y /\ v = w
    BY ConsInjective
  <1>5. Prefixed(e, u, p) = Prefixed(e2, u2, q)
    BY DEF p, q
  <1>6. ASSUME p = q PROVE b = c /\ s = t
    BY <1>4, <1>6 DEF p, q
  <1>7. ASSUME NEW x \in {Extended, Break}, NEW v \in Seq(Byte), p = Cons(x, v)
        PROVE  b = x
    BY <1>1, <1>4, <1>7 DEF p
  <1>8. ASSUME NEW x \in {Extended, Break}, NEW v \in Seq(Byte) PROVE Cons(x, v) # q
    BY <1>1, <1>4 DEF q
  <1> DEFINE a == IF u THEN Cons(Break, p) ELSE p
             d == IF u2 THEN Cons(Break, q) ELSE q
  <1>9. /\ a \in Seq(Byte) /\ d \in Seq(Byte)
        /\ Prefixed(e, u, p) = IF e THEN Cons(Extended, a) ELSE a
        /\ Prefixed(e2, u2, q) = IF e2 THEN Cons(Extended, d) ELSE d
    BY <1>2, <1>3 DEF p, q, Prefixed
  <1>10. ASSUME a = d
         PROVE  /\ b # Extended /\ (b = Break => ~u)
                /\ b \notin {Extended, Break} => u = u2 /\ b = c /\ s = t
    <2>1. CASE u /\ u2
      <3>1. p = q
        BY <1>1, <1>2, <1>4, <1>10, <2>1 DEF p, q
      <3> QED BY <1>1, <1>6, <2>1, <3>1
    <2>2. CASE u /\ ~u2
      BY <1>2, <1>8, <1>10, <2>2 DEF p
    <2>3. CASE ~u /\ u2
      <3>1. b = Break
        BY <1>2, <1>7, <1>10, <2>3 DEF q
      <3> QED BY <1>1, <2>3, <3>1
    <2>4. CASE ~u /\ ~u2
      BY <1>6, <1>10, <2>4
    <2> QED BY <2>1, <2>2, <2>3, <2>4
  <1>11. CASE (e /\ e2) \/ (~e /\ ~e2)
    <2>1. a = d
      <3> HIDE DEF a, d
      <3>1. CASE e /\ e2
        BY <1>1, <1>4, <1>5, <1>9, <3>1
      <3>2. CASE ~e /\ ~e2
        BY <1>5, <1>9, <3>2
      <3> QED BY <1>11, <3>1, <3>2
    <2> QED BY <1>10, <1>11, <2>1
  <1>12. CASE e /\ ~e2
    <2>1. Cons(Extended, a) = d
      BY <1>5, <1>9, <1>12
    <2>2. CASE u2
      BY <1>1, <1>2, <1>4, <1>9, <2>1, <2>2 DEF q
    <2>3. CASE ~u2
      BY <1>8, <1>9, <2>1, <2>3
    <2> QED BY <2>2, <2>3
  <1>13. CASE ~e /\ e2
    <2>1. Cons(Extended, d) = a
      BY <1>5, <1>9, <1>13
    <2>2. CASE u
      BY <1>1, <1>2, <1>4, <1>9, <2>1, <2>2 DEF p
    <2>3. CASE ~u
      <3>1. b = Extended
        BY <1>7, <1>9, <2>1, <2>3
      <3> QED BY <1>1, <1>13, <2>3, <3>1
    <2> QED BY <2>2, <2>3
  <1> QED BY <1>11, <1>12, <1>13

-----------------------------------------------------------------------------
(* The modifiers after a key, and that the extended flag is none of them.    *)
LEMMA FoundIs ==
    ASSUME NEW raw \in Key, NEW up \in BOOLEAN, NEW held \in SUBSET Modifiers
    PROVE  /\ Found(raw, up, held) \ {"BREAK"} \in SUBSET Modifiers
           /\ KeySignals(raw, Found(raw, up, held)) \in KeySets
  <1>1. Modifier(raw) \subseteq Modifiers
    BY DEF Modifier, Modifiers
  <1>2. Found(raw, up, held) \in SUBSET {"BREAK", "SHIFT", "CTRL", "ALT"}
    BY <1>1 DEF Found, WithModifier, Modifiers
  <1>3. Found(raw, up, held) \ {"BREAK"} \in SUBSET Modifiers
    BY <1>2 DEF Modifiers
  <1>4. KeySignals(raw, Found(raw, up, held)) \subseteq AllKeySignals
    <2>1. \A f \in SUBSET {"BREAK", "SHIFT", "CTRL", "ALT"} :
              KeySignals(raw, f) \subseteq AllKeySignals
      BY DEF AllKeySignals
    <2> QED BY <1>2, <2>1
  <1> QED BY <1>3, <1>4 DEF KeySets

LEMMA FlagsFound ==
    ASSUME NEW raw \in Key, NEW f \in SUBSET (Modifiers \cup {"EXT", "BREAK"})
    PROVE  LET up == "BREAK" \in f
               found == Found(raw, up, f \cap Modifiers)
               now == WithModifier(raw, f)
           IN  /\ KeySignals(raw, now) = KeySignals(raw, found)
               /\ now \cap Modifiers = found \ {"BREAK"}
               /\ now \subseteq Modifiers \cup {"EXT", "BREAK"}
  <1> DEFINE up == "BREAK" \in f
             found == Found(raw, up, f \cap Modifiers)
             now == WithModifier(raw, f)
  <1>1. Modifier(raw) \subseteq Modifiers /\ "BREAK" \notin Modifiers /\ "EXT" \notin Modifiers
    BY DEF Modifier, Modifiers
  <1>2. found = now \ {"EXT"}
    BY <1>1 DEF Found, WithModifier
  <1>3. /\ now \subseteq Modifiers \cup {"EXT", "BREAK"}
        /\ ("BREAK" \in now) <=> up
    BY <1>1 DEF WithModifier
  <1> HIDE DEF found, now
  <1>4. now \cap Modifiers = found \ {"BREAK"}
    BY <1>1, <1>2, <1>3
  <1>5. /\ ("BREAK" \in now) <=> ("BREAK" \in found)
        /\ ("SHIFT" \in now) <=> ("SHIFT" \in found)
        /\ now \cap {"CTRL", "ALT"} = found \cap {"CTRL", "ALT"}
    BY <1>2
  <1>6. Characters(raw, now) = Characters(raw, found)
    BY <1>5 DEF Characters
  <1>7. KeySignals(raw, now) = KeySignals(raw, found)
    BY <1>5, <1>6 DEF KeySignals
  <1> QED BY <1>3, <1>4, <1>7 DEF found, now

(* What a byte does to the readings: a prefix is out of place after itself   *)
(* or a later one, and any other byte is the first key event's.              *)
LEMMA Parsed ==
    ASSUME NEW R, NEW last, Reads(R, last),
           NEW e \in BOOLEAN, NEW u \in BOOLEAN, NEW b \in Byte, NEW w \in Seq(Byte),
           NEW keys, NEW held, Reading(Prefixed(e, u, Cons(b, w)), keys, held) \in R
    PROVE  /\ b = Extended => ~e /\ ~u
           /\ b = Break => ~u
           /\ b \notin {Extended, Break} =>
                 \E raw \in Key :
                     /\ raw = IF e THEN b + 256 ELSE b
                     /\ keys # <<>> /\ Head(keys) = KeySignals(raw, Found(raw, u, held))
                     /\ Reading(w, Tail(keys), Found(raw, u, held) \ {"BREAK"}) \in R
  <1> DEFINE bytes == Prefixed(e, u, Cons(b, w))
             p == Reading(bytes, keys, held)
  <1>1. p.bytes = bytes /\ p.keys = keys /\ p.held = held
    BY DEF Reading
  <1>2. bytes # <<>>
    BY ConsIs, PrefixedIs
  <1>3. p \in R
    OBVIOUS
  <1> HIDE DEF p, bytes
  <1>4. p # Reading(<<>>, <<>>, last)
    BY <1>1, <1>2 DEF Reading
  <1>5. PICK q \in R, raw \in Key, up \in BOOLEAN : Begins(p, q, raw, up)
    BY <1>3, <1>4 DEF Reads
  <1>6. q \in [bytes : Seq(Byte), keys : Seq(KeySets), held : SUBSET Modifiers]
    BY DEF Reads
  <1>7. Prefixed(e, u, Cons(b, w)) = Prefixed(raw >= 256, up, Cons(raw % 256, q.bytes))
    BY <1>1, <1>5, <1>6, ScancodesPrefixed, SMTT(30) DEF Begins, bytes
  <1>8. /\ raw % 256 \in Byte \ {Extended, Break} /\ q.bytes \in Seq(Byte)
        /\ (raw >= 256) \in BOOLEAN
    BY <1>6, ScancodesPrefixed
  <1>9. /\ b = Extended => ~e /\ ~u
        /\ b = Break => ~u
        /\ b \notin {Extended, Break} =>
               e = (raw >= 256) /\ u = up /\ b = raw % 256 /\ w = q.bytes
    <2> DEFINE ext == raw >= 256
               code == raw % 256
               rest == q.bytes
    <2>1. /\ ext \in BOOLEAN /\ code \in Byte \ {Extended, Break} /\ rest \in Seq(Byte)
          /\ Prefixed(e, u, Cons(b, w)) = Prefixed(ext, up, Cons(code, rest))
      BY <1>7, <1>8
    <2> HIDE DEF ext, code, rest
    <2>2. /\ b = Extended => ~e /\ ~u
          /\ b = Break => ~u
          /\ b \notin {Extended, Break} => e = ext /\ u = up /\ b = code /\ w = rest
      BY <2>1, PrefixesKnown
    <2> QED BY <2>2 DEF ext, code, rest
  <1>10. ASSUME b \notin {Extended, Break}
         PROVE  /\ raw = IF e THEN b + 256 ELSE b
                /\ keys # <<>> /\ Head(keys) = KeySignals(raw, Found(raw, u, held))
                /\ Reading(w, Tail(keys), Found(raw, u, held) \ {"BREAK"}) \in R
    <2>1. e = (raw >= 256) /\ u = up /\ b = raw % 256 /\ w = q.bytes
      BY <1>9, <1>10
    <2>2. raw = IF e THEN b + 256 ELSE b
      <3>1. \A n \in 0 .. 511 : n = IF n >= 256 THEN (n % 256) + 256 ELSE n % 256
        OBVIOUS
      <3>2. raw \in 0 .. 511
        BY SizesAssumption
      <3> QED BY <2>1, <3>1, <3>2
    <2>3. /\ keys # <<>> /\ Head(keys) = KeySignals(raw, Found(raw, u, held))
          /\ q.keys = Tail(keys) /\ q.held = Found(raw, u, held) \ {"BREAK"}
      BY <1>1, <1>5, <2>1 DEF Begins
    <2>4. q = Reading(q.bytes, q.keys, q.held)
      BY <1>6 DEF Reading
    <2> QED BY <2>1, <2>2, <2>3, <2>4
  <1> QED BY <1>9, <1>10

(* A key event typed behind the others is read behind the others. *)
LEMMA Appended ==
    ASSUME NEW R, NEW last \in SUBSET Modifiers, Reads(R, last),
           NEW raw \in Key, NEW up \in BOOLEAN
    PROVE  LET found == Found(raw, up, last)
               After(p) == Reading(p.bytes \o Scancodes(raw, up),
                                   Append(p.keys, KeySignals(raw, found)), p.held)
           IN  Reads({After(p) : p \in R} \cup {Reading(<<>>, <<>>, found \ {"BREAK"})},
                     found \ {"BREAK"})
  <1> DEFINE found == Found(raw, up, last)
             sc == Scancodes(raw, up)
             ks == KeySignals(raw, found)
             end == Reading(<<>>, <<>>, found \ {"BREAK"})
             After(p) == Reading(p.bytes \o sc, Append(p.keys, ks), p.held)
             R2 == {After(p) : p \in R} \cup {end}
             All == [bytes : Seq(Byte), keys : Seq(KeySets), held : SUBSET Modifiers]
  <1>1. /\ found \ {"BREAK"} \in SUBSET Modifiers /\ ks \in KeySets /\ sc \in Seq(Byte)
        /\ ks = KeySignals(raw, found)
    BY FoundIs, ScancodesPrefixed, EmptySeq, ZenonT(40)
  <1> HIDE DEF ks, sc
  <1>2. end \in All /\ end.bytes = <<>> /\ end.keys = <<>> /\ end.held = found \ {"BREAK"}
    BY <1>1 DEF Reading
  <1> HIDE DEF end, found
  <1>3. ASSUME NEW p \in R
        PROVE  /\ p.bytes \in Seq(Byte) /\ p.keys \in Seq(KeySets) /\ p.held \in SUBSET Modifiers
               /\ After(p) \in All
               /\ After(p).bytes = p.bytes \o sc /\ After(p).keys = Append(p.keys, ks)
               /\ After(p).held = p.held
    <2>1. p \in All
      BY DEF Reads
    <2>2. p.bytes \o sc \in Seq(Byte) /\ Append(p.keys, ks) \in Seq(KeySets)
      BY <1>1, <2>1, ConcatProperties, AppendProperties
    <2> QED BY <2>1, <2>2 DEF Reading
  <1> HIDE DEF After
  <1>4. ASSUME NEW p \in R
        PROVE  \E q \in R2, r \in Key, v \in BOOLEAN : Begins(After(p), q, r, v)
    <2>1. CASE p = Reading(<<>>, <<>>, last)
      <3>1. /\ p.bytes = <<>> /\ p.keys = <<>> /\ p.held = last
        BY <2>1 DEF Reading
      <3>2. After(p).bytes = sc \o end.bytes
        <4>1. sc \o <<>> = sc /\ <<>> \o sc = sc
          BY <1>1, ConcatEmptySeq
        <4> QED BY <1>2, <1>3, <3>1, <4>1
      <3>3. /\ After(p).keys # <<>> /\ Head(After(p).keys) = ks /\ Tail(After(p).keys) = <<>>
        <4>1. /\ <<>> \in Seq(KeySets) /\ Append(<<>>, ks) # <<>>
              /\ Head(Append(<<>>, ks)) = ks /\ Tail(Append(<<>>, ks)) = <<>>
          BY <1>1, EmptySeq, AppendProperties, HeadTailAppend
        <4> QED BY <1>3, <3>1, <4>1
      <3>4. Begins(After(p), end, raw, up)
        BY <1>1, <1>2, <1>3, <3>1, <3>2, <3>3 DEF Begins, sc, found
      <3> QED BY <3>4
    <2>2. CASE p # Reading(<<>>, <<>>, last)
      <3>1. PICK q \in R, r \in Key, v \in BOOLEAN : Begins(p, q, r, v)
        BY <2>2 DEF Reads
      <3>2. After(p).bytes = Scancodes(r, v) \o After(q).bytes
        <4>1. Scancodes(r, v) \in Seq(Byte) /\ q.bytes \in Seq(Byte)
          BY <1>3, ScancodesPrefixed, EmptySeq
        <4>2. (Scancodes(r, v) \o q.bytes) \o sc = Scancodes(r, v) \o (q.bytes \o sc)
          <5> DEFINE codes == Scancodes(r, v)
                     rest == q.bytes
          <5> HIDE DEF codes, rest
          <5>1. codes \in Seq(Byte) /\ rest \in Seq(Byte)
            BY <4>1 DEF codes, rest
          <5>2. (codes \o rest) \o sc = codes \o (rest \o sc)
            BY <1>1, <5>1, ConcatAssociative
          <5> QED BY <5>2 DEF codes, rest
        <4> QED BY <1>3, <3>1, <4>2 DEF Begins
      <3>3. /\ After(p).keys # <<>> /\ Head(After(p).keys) = Head(p.keys)
            /\ After(q).keys = Tail(After(p).keys)
        <4>1. /\ Append(p.keys, ks) # <<>> /\ Head(Append(p.keys, ks)) = Head(p.keys)
              /\ Tail(Append(p.keys, ks)) = Append(Tail(p.keys), ks)
          <5> DEFINE keys == p.keys
          <5>1. keys \in Seq(KeySets) /\ keys # <<>>
            BY <1>3, <3>1 DEF Begins
          <5> HIDE DEF keys
          <5>2. /\ Append(keys, ks) # <<>> /\ Head(Append(keys, ks)) = Head(keys)
                /\ Tail(Append(keys, ks)) = Append(Tail(keys), ks)
            BY <1>1, <5>1, AppendProperties, HeadTailAppend
          <5> QED BY <5>2 DEF keys
        <4> QED BY <1>3, <3>1, <4>1 DEF Begins
      <3>4. Begins(After(p), After(q), r, v)
        BY <1>3, <3>1, <3>2, <3>3 DEF Begins
      <3> QED BY <3>4
    <2> QED BY <2>1, <2>2
  <1>5. Reads(R2, found \ {"BREAK"})
    <2>1. R2 \subseteq All
      BY <1>2, <1>3
    <2>2. \A p \in R2 : p = end \/ \E q \in R2, r \in Key, v \in BOOLEAN : Begins(p, q, r, v)
      BY <1>4
    <2> HIDE DEF R2
    <2> QED BY <2>1, <2>2 DEF Reads, end
  <1> QED BY <1>5 DEF found, sc, ks, end, After

-----------------------------------------------------------------------------
(* Who decodes when: the running frame, or the one the PIT interrupted.      *)
LEMMA BelowIdle ==
    ASSUME Stacked(stack), Top.who # Pit
    PROVE  ~DecodesBelow(stack)
  <1>1. Top = stack[Len(stack)] /\ Len(stack) \in Nat \ {0}
    BY Runs
  <1>2. Main # Keyboard
    BY Runs
  <1>3. \A n \in Nat \ {0} : \A i \in 1 .. n - 1 : i = 1 \/ i \in 2 .. n - 1
    OBVIOUS
  <1>4. \A i \in 1 .. Len(stack) - 1 : i = 1 \/ i \in 2 .. Len(stack) - 1
    BY <1>1, <1>3, Zenon
  <1>5. stack[1].who = Main
    BY DEF Stacked
  <1>6. \A i \in 2 .. Len(stack) - 1 : stack[i].pc = "iret"
    BY <1>1 DEF Stacked
  <1> QED BY <1>2, <1>4, <1>5, <1>6 DEF DecodesBelow, Decodes

LEMMA GotoDecodes ==
    ASSUME IrqInv, NEW f, Goto(f)
    PROVE  /\ Top' = f
           /\ Decoding' <=> Decodes(f) \/ DecodesBelow(stack)
  <1>1. /\ Len(stack) \in Nat \ {0}
        /\ stack' = Front(stack) \o <<f>>
    BY Replaced DEF IrqInv, Goto
  <1>2. /\ Len(stack') = Len(stack) /\ stack'[Len(stack)] = f
        /\ \A i \in 1 .. Len(stack) - 1 : stack'[i] = stack[i]
    BY <1>1, Replaced DEF IrqInv
  <1>3. Top' = f
    BY <1>2 DEF Top, Last
  <1>4. DecodesBelow(stack)' <=> DecodesBelow(stack)
    BY <1>2 DEF DecodesBelow, Decodes
  <1>5. Decoding' <=> Decodes(f) \/ DecodesBelow(stack)'
    BY <1>3 DEF Decoding, Decodes
  <1> QED BY <1>3, <1>4, <1>5

(* Nothing a step does matters that leaves the bytes, the flags and who      *)
(* decodes as they are.                                                      *)
LEMMA SameBytes ==
    ASSUME KeyInv, UNCHANGED <<obf, wire, flags, latched, typed>>, Decoding' <=> Decoding,
           Keyboard \in irr' \/ Top'.pc = "read" => obf # Nothing,
           ~(Keyboard \in irr' /\ Top'.pc = "read")
    PROVE  KeyInv'
  <1>1. Stream' = Stream
    BY DEF Stream, Waiting
  <1> QED BY <1>1 DEF KeyInv

LEMMA SameDecoder ==
    ASSUME IrqInv, KeyInv, NEW f, Goto(f), UNCHANGED <<obf, wire, flags, latched, typed, irr>>,
           Decodes(f) <=> Decodes(Top), f.pc # "read"
    PROVE  KeyInv'
  <1>1. Top' = f /\ (Decoding' <=> Decoding)
    BY GotoDecodes DEF Decoding
  <1>2. /\ Keyboard \in irr' \/ Top'.pc = "read" => obf # Nothing
        /\ ~(Keyboard \in irr' /\ Top'.pc = "read")
    BY <1>1 DEF KeyInv
  <1> QED BY <1>1, <1>2, SameBytes

LEMMA SameDecoderPc ==
    ASSUME IrqInv, KeyInv, NEW pc, GotoPc(pc),
           UNCHANGED <<obf, wire, flags, latched, typed, irr>>,
           LET keys == {"queue", "check", "full", "copy", "count", "sti", "clear"}
           IN  Top.who = Keyboard => (Top.pc \in keys <=> pc \in keys),
           pc # "read"
    PROVE  KeyInv'
  <1> DEFINE f == [Top EXCEPT !.pc = pc]
  <1>1. f.who = Top.who /\ f.pc = pc
    BY Runs, Moved DEF IrqInv
  <1>2. Goto(f)
    BY DEF GotoPc
  <1> HIDE DEF f
  <1>3. Decodes(f) <=> Decodes(Top)
    BY <1>1 DEF Decodes
  <1> QED BY <1>1, <1>2, <1>3, SameDecoder

LEMMA KeyInit == Init => KeyInv
  <1> SUFFICES ASSUME Init PROVE KeyInv
    OBVIOUS
  <1>1. /\ wire = <<>> /\ typed = <<>> /\ flags = latched /\ obf = Nothing /\ irr = {}
        /\ stack = <<Frame(Main, "lua", NoSignal)>>
    BY DEF Init, PicInit
  <1>0. /\ latched \in SUBSET Modifiers /\ flags \cap Modifiers = latched
        /\ "EXT" \notin flags /\ "BREAK" \notin flags
    <2>1. latched \in SUBSET Modifiers
      BY DEF latched
    <2> HIDE DEF latched
    <2> QED BY <1>1, <2>1 DEF Modifiers
  <1> DEFINE f == Frame(Main, "lua", NoSignal)
  <1>2. f.who = Main /\ f.pc = "lua"
    BY Made
  <1> HIDE DEF f
  <1>3. stack = <<f>> /\ Len(<<f>>) = 1 /\ <<f>>[1] = f /\ 1 .. 1 - 1 = {}
    BY <1>1 DEF f
  <1>4. Top = f /\ ~DecodesBelow(stack)
    BY <1>3 DEF Top, Last, DecodesBelow
  <1>5. ~Decoding
    BY <1>2, <1>4 DEF Decoding, Decodes
  <1>6. Stream = <<>>
    BY <1>0, <1>1, <1>5 DEF Stream, Waiting, Prefixed
  <1> DEFINE r == Reading(<<>>, <<>>, latched)
  <1>7. Reads({r}, latched)
    <2>1. r \in [bytes : Seq(Byte), keys : Seq(KeySets), held : SUBSET Modifiers]
      BY <1>0, EmptySeq DEF Reading
    <2> HIDE DEF r
    <2> QED BY <1>1, <2>1 DEF Reads, r
  <1>8. Reading(Stream, typed, flags \cap Modifiers) = r
    BY <1>0, <1>1, <1>6
  <1>9. \E R : Reads(R, latched) /\ Reading(Stream, typed, flags \cap Modifiers) \in R
    BY <1>7, <1>8
  <1>10. wire \in Seq(Byte)
    BY <1>1, EmptySeq
  <1>11. Top.pc # "read"
    BY <1>2, <1>4
  <1> QED BY <1>0, <1>1, <1>9, <1>10, <1>11 DEF KeyInv

(* The calls of the ring happen after a key is decoded, or in Lua. *)
LEMMA KeyCalls == IrqInv /\ KeyInv /\ (QueueSignal \/ DequeueSignal \/ PushSignal) => KeyInv'
  <1> SUFFICES ASSUME IrqInv, KeyInv, QueueSignal \/ DequeueSignal \/ PushSignal
               PROVE  KeyInv'
    OBVIOUS
  <1>1. /\ Main \notin {Pit, Keyboard, Rtc} /\ Steady(Top, eflags_if)
        /\ Top.who \in {Main, Pit, Keyboard, Rtc}
    BY Runs DEF IrqInv
  <1>2. UNCHANGED <<obf, wire, flags, latched, typed, irr>>
    <2>1. CpuUnchanged
      BY DEF QueueSignal, QueueCli, QueueCheck, QueueFull, QueueCopy, QueueCount, QueueSti,
             DequeueSignal, DequeueCheck, DequeueCli, DequeueCopy, DequeueCount,
             DequeueAdvance, DequeueSti, PushSignal
    <2> QED BY <2>1 DEF CpuUnchanged, keyboard, latched
  <1>3. CASE QueueSignal
    <2> DEFINE keys == {"queue", "check", "full", "copy", "count", "sti", "clear"}
    <2>1. \E pc \in {"check", "full", "copy", "count", "sti", Caller} :
              GotoPc(pc) /\ Top.pc \in keys
      BY <1>3 DEF QueueSignal, QueueCli, QueueCheck, QueueFull, QueueCopy, QueueCount,
                  QueueSti, At
    <2>2. PICK pc \in {"check", "full", "copy", "count", "sti", Caller} :
              GotoPc(pc) /\ Top.pc \in keys
      BY <2>1
    <2>3. /\ Caller \in {"lua", "clear"}
          /\ Top.who = Keyboard => Caller = "clear"
      BY <1>1 DEF Caller
    <2>4. pc # "read" /\ (Top.who = Keyboard => (Top.pc \in keys <=> pc \in keys))
      BY <2>2, <2>3
    <2> QED BY <1>2, <2>2, <2>4, SameDecoderPc
  <1>4. CASE DequeueSignal
    <2>1. Top.who # Keyboard
      <3>1. Top.pc \in {"lua", "dequeue_cli", "dequeue_copy", "dequeue_count",
                        "dequeue_advance", "dequeue_sti"}
        BY <1>4 DEF DequeueSignal, DequeueCheck, DequeueCli, DequeueCopy, DequeueCount,
                    DequeueAdvance, DequeueSti, At
      <3> QED BY <1>1, <3>1 DEF Steady, Unmasked, Masked
    <2>2. CASE stack' = stack
      <3>1. Top' = Top /\ Decoding' = Decoding
        BY <2>2 DEF Top, Decoding, Decodes, DecodesBelow
      <3> QED BY <1>2, <3>1, SameBytes DEF KeyInv
    <2>3. CASE stack' # stack
      <3>1. \E pc \in {"lua", "dequeue_cli", "dequeue_copy", "dequeue_count",
                       "dequeue_advance", "dequeue_sti"} : GotoPc(pc)
        BY <1>4, <2>3 DEF DequeueSignal, DequeueCheck, DequeueCli, DequeueCopy, DequeueCount,
                          DequeueAdvance, DequeueSti
      <3> QED BY <1>2, <2>1, <3>1, SameDecoderPc
    <2> QED BY <2>2, <2>3
  <1>5. CASE PushSignal
    <2>1. PICK s \in LuaSignal : Goto(Frame(Main, "queue", s))
      BY <1>5 DEF PushSignal
    <2> DEFINE f == Frame(Main, "queue", s)
    <2>2. Goto(f) /\ f.who = Main /\ f.pc = "queue"
      BY <2>1, Made
    <2> HIDE DEF f
    <2>3. Top.who = Main
      BY <1>1, <1>5 DEF Steady, PushSignal, At, Unmasked, Masked
    <2>4. Decodes(f) <=> Decodes(Top)
      BY <1>1, <2>2, <2>3 DEF Decodes
    <2> QED BY <1>2, <2>2, <2>4, SameDecoder
  <1> QED BY <1>3, <1>4, <1>5

(* Ends of interrupt, the RTC's step and the iret are no part of decoding.   *)
LEMMA KeyEnds ==
    IrqInv /\ KeyInv /\ (TimerTick \/ EoiSecondary \/ EoiPrimary \/ Iret) => KeyInv'
  <1> SUFFICES ASSUME IrqInv, KeyInv, TimerTick \/ EoiSecondary \/ EoiPrimary \/ Iret
               PROVE  KeyInv'
    OBVIOUS
  <1>1. UNCHANGED <<obf, wire, flags, latched, typed, irr>>
    BY DEF TimerTick, EoiSecondary, EoiPrimary, Iret, keyboard, latched, EndOfInterrupt
  <1>2. CASE TimerTick \/ EoiSecondary \/ EoiPrimary
    <2>1. /\ Top.pc \in {"tick", "eoi_secondary", "eoi"}
          /\ \E pc \in {"eoi_secondary", "eoi", "iret"} : GotoPc(pc)
      BY <1>2 DEF TimerTick, EoiSecondary, EoiPrimary, At
    <2> QED BY <1>1, <2>1, SameDecoderPc
  <1>3. CASE Iret
    <2>1. Top.pc = "iret" /\ stack' = Front(stack)
      BY <1>3 DEF Iret, At
    <2>2. /\ Len(stack) \in Nat \ {0} /\ Top = stack[Len(stack)]
          /\ Top.who = Main <=> Len(stack) = 1
          /\ Steady(Top, eflags_if)
      BY Runs DEF IrqInv
    <2>3. Len(stack) # 1
      BY <2>1, <2>2 DEF Steady, Quiet, Sections
    <2>4. /\ Len(stack') = Len(stack) - 1
          /\ \A i \in 1 .. Len(stack) - 1 : stack'[i] = stack[i]
      BY <2>1, Popped DEF IrqInv
    <2>5. \A n \in Nat \ {0} : \A m : n # 1 /\ m = n - 1 =>
              /\ m \in 1 .. m /\ 1 .. m = (1 .. m - 1) \cup {m} /\ m - 1 + 1 = m
              /\ m \in 2 .. n - 1 \/ (m = 1 /\ n > 1)
      OBVIOUS
    <2> DEFINE n == Len(stack)
               m == Len(stack')
    <2>6. /\ m = n - 1 /\ m \in 1 .. m /\ 1 .. m = (1 .. m - 1) \cup {m}
          /\ m \in 2 .. n - 1 \/ (m = 1 /\ n > 1)
      BY <2>2, <2>3, <2>4, <2>5, Zenon
    <2>7. Top' = stack[m]
      BY <2>4, <2>6 DEF Top, Last
    <2>8. Decoding <=> \E i \in 1 .. m : Decodes(stack[i])
      BY <2>1, <2>6 DEF Decoding, DecodesBelow, Decodes
    <2>9. Decoding' <=> \E i \in 1 .. m : Decodes(stack[i])
      <3>1. Decoding' <=> Decodes(stack[m]) \/ \E i \in 1 .. m - 1 : Decodes(stack'[i])
        BY <2>7 DEF Decoding, DecodesBelow, Decodes
      <3>2. \A i \in 1 .. m - 1 : stack'[i] = stack[i]
        BY <2>4, <2>6
      <3> HIDE DEF m
      <3> QED BY <2>6, <3>1, <3>2
    <2>10. Top'.pc # "read"
      <3>1. CASE m = 1
        <4>1. ~(m \in 2 .. n - 1)
          BY <3>1
        <4>2. n > 1 /\ Top' = stack[1]
          BY <2>6, <2>7, <3>1, <4>1
        <4>3. Top'.pc \in Quiet
          BY <4>2, Zenon DEF IrqInv, Stacked
        <4> QED BY <4>3 DEF Quiet
      <3>2. CASE m # 1
        <4>1. Top'.pc \in Unmasked
          BY <2>6, <2>7, <3>2 DEF IrqInv, Stacked
        <4> QED BY <4>1 DEF Unmasked
      <3> QED BY <3>1, <3>2
    <2>11. Decoding' <=> Decoding
      BY <2>8, <2>9
    <2>12. Keyboard \in irr' \/ Top'.pc = "read" => obf # Nothing
      BY <1>1, <2>10 DEF KeyInv
    <2> QED BY <1>1, <2>10, <2>11, <2>12, SameBytes
  <1> QED BY <1>2, <1>3

LEMMA KeyTake == IrqInv /\ KeyInv /\ TakeInterrupt => KeyInv'
  <1> SUFFICES ASSUME IrqInv, KeyInv, TakeInterrupt PROVE KeyInv'
    OBVIOUS
  <1> DEFINE line == Acknowledged
             f == Frame(line, EntryOf(line), NoSignal)
  <1>1. /\ irr' = irr \ {line} /\ line \in irr /\ stack' = Append(stack, f)
        /\ UNCHANGED <<obf, wire, flags, latched, typed>>
    BY Taken DEF TakeInterrupt, Acknowledge, keyboard, latched
  <1>2. /\ f.pc \in {"read", "tick", "eoi"}
        /\ f.pc = "read" => line = Keyboard
    BY Made DEF EntryOf
  <1> HIDE DEF line, f
  <1>3. /\ Len(stack) \in Nat \ {0} /\ Top = stack[Len(stack)]
        /\ Len(stack') = Len(stack) + 1 /\ stack'[Len(stack) + 1] = f
        /\ \A i \in 1 .. Len(stack) : stack'[i] = stack[i]
    BY <1>1, Pushed, Runs DEF IrqInv
  <1>4. \A k \in Nat \ {0} : \A m : m = k + 1 =>
            m - 1 = k /\ k \in 1 .. k /\ 1 .. k = (1 .. k - 1) \cup {k}
    OBVIOUS
  <1> DEFINE n == Len(stack)
             m == Len(stack')
  <1>5. m = n + 1 /\ m - 1 = n /\ n \in 1 .. n /\ 1 .. n = (1 .. n - 1) \cup {n}
    BY <1>3, <1>4, Zenon
  <1>6. Top' = f
    BY <1>3, <1>5 DEF Top, Last
  <1>7. Decoding' <=> \E i \in 1 .. n : Decodes(stack[i])
    <2>1. Decoding' <=> \E i \in 1 .. m - 1 : Decodes(stack'[i])
      BY <1>2, <1>6 DEF Decoding, DecodesBelow, Decodes
    <2> HIDE DEF n, m
    <2> QED BY <1>3, <1>5, <2>1 DEF n
  <1>8. Decoding <=> \E i \in 1 .. n : Decodes(stack[i])
    <2>1. Decoding <=> Decodes(stack[n]) \/ \E i \in 1 .. n - 1 : Decodes(stack[i])
      BY <1>3 DEF Decoding, DecodesBelow
    <2> HIDE DEF n, m
    <2> QED BY <1>5, <2>1
  <1>9. Keyboard \in irr' \/ Top'.pc = "read" => obf # Nothing
    BY <1>1, <1>2, <1>6 DEF KeyInv
  <1>10. ~(Keyboard \in irr' /\ Top'.pc = "read")
    BY <1>1, <1>2, <1>6
  <1> QED BY <1>1, <1>7, <1>8, <1>9, <1>10, SameBytes

(* The handler clears the prefixes of a key whose code it has taken.         *)
LEMMA KeyClear == IrqInv /\ KeyInv /\ ClearPrefixes => KeyInv'
  <1> SUFFICES ASSUME IrqInv, KeyInv, ClearPrefixes PROVE KeyInv'
    OBVIOUS
  <1> DEFINE f == [Top EXCEPT !.pc = "eoi"]
  <1>1. /\ Top.pc = "clear" /\ Goto(f) /\ flags' = flags \ {"EXT", "BREAK"}
        /\ UNCHANGED <<obf, wire, latched, typed, irr>>
    BY DEF ClearPrefixes, At, GotoPc, keyboard, latched
  <1>2. /\ Steady(Top, eflags_if) /\ IsFrame(Top) /\ Keyboard # Pit
        /\ Top.who \in {Main, Pit, Keyboard, Rtc}
    BY Runs DEF IrqInv, Keyboard, Pit
  <1>3. f.pc = "eoi"
    BY <1>2, Moved
  <1> HIDE DEF f
  <1>4. Top.who = Keyboard
    BY <1>1, <1>2 DEF Steady, Quiet, Sections
  <1>5. ~DecodesBelow(stack) /\ Decoding
    BY <1>1, <1>2, <1>4, BelowIdle DEF IrqInv, Decoding, Decodes
  <1>6. ~Decoding' /\ Top' = f
    BY <1>1, <1>3, <1>5, GotoDecodes DEF Decodes
  <1>7. Stream = Waiting
    BY <1>5 DEF Stream
  <1>8. Stream' = Waiting
    <2>1. "EXT" \notin flags' /\ "BREAK" \notin flags' /\ Waiting' = Waiting
      BY <1>1 DEF Waiting
    <2> QED BY <1>6, <2>1 DEF Stream, Prefixed
  <1>9. flags' \cap Modifiers = flags \cap Modifiers
    BY <1>1 DEF Modifiers
  <1> QED BY <1>1, <1>3, <1>6, <1>7, <1>8, <1>9 DEF KeyInv

(* What ps2_interrupt makes of a byte. *)
LEMMA KeyRead ==
    ASSUME IrqInv, KeyInv, ReadByte
    PROVE  /\ KeyInv'
           /\ Top'.pc \in {"queue", "clear"} =>
                  typed # <<>> /\ Top'.sig \in Head(typed) /\ Top'.sig \in AllKeySignals
                  /\ (Top'.sig = NoSignal <=> Top'.pc = "clear")
  <1>1. /\ Top.pc = "read" /\ obf' = Nothing
        /\ UNCHANGED <<wire, latched, irr>>
    BY DEF ReadByte, At, latched
  <1>2. /\ Steady(Top, eflags_if) /\ IsFrame(Top) /\ Keyboard # Pit
        /\ Top.who \in {Main, Pit, Keyboard, Rtc}
    BY Runs DEF IrqInv, Keyboard, Pit
  <1>3. Top.who = Keyboard
    BY <1>1, <1>2 DEF Steady, Quiet, Sections
  <1>4. ~DecodesBelow(stack) /\ ~Decoding
    BY <1>1, <1>2, <1>3, BelowIdle DEF IrqInv, Decoding, Decodes
  <1>5. obf \in Byte /\ wire \in Seq(Byte) /\ obf # Nothing /\ Keyboard \notin irr
    BY <1>1 DEF KeyInv
  <1> DEFINE ext == "EXT" \in flags
             up == "BREAK" \in flags
             held == flags \cap Modifiers
  <1>6. Stream = Prefixed(ext, up, Cons(obf, wire))
    BY <1>4, <1>5 DEF Stream, Waiting
  <1>7. Waiting' = wire
    BY <1>1 DEF Waiting
  <1>8. PICK R : Reads(R, latched) /\ Reading(Stream, typed, held) \in R
    BY DEF KeyInv
  <1>9. flags \in SUBSET (Modifiers \cup {"EXT", "BREAK"}) /\ latched \in SUBSET Modifiers
    BY DEF KeyInv
  <1>10. /\ obf = Extended => ~ext /\ ~up
         /\ obf = Break => ~up
         /\ obf \notin {Extended, Break} =>
               \E raw \in Key :
                   /\ raw = IF ext THEN obf + 256 ELSE obf
                   /\ typed # <<>> /\ Head(typed) = KeySignals(raw, Found(raw, up, held))
                   /\ Reading(wire, Tail(typed), Found(raw, up, held) \ {"BREAK"}) \in R
    <2>1. ext \in BOOLEAN /\ up \in BOOLEAN /\ Reading(Prefixed(ext, up, Cons(obf, wire)), typed, held) \in R
      BY <1>6, <1>8
    <2> HIDE DEF ext, up, held
    <2>2. ASSUME NEW e \in BOOLEAN, NEW u \in BOOLEAN, NEW b \in Byte, NEW w \in Seq(Byte),
                 Reading(Prefixed(e, u, Cons(b, w)), typed, held) \in R
          PROVE  /\ b = Extended => ~e /\ ~u
                 /\ b = Break => ~u
                 /\ b \notin {Extended, Break} =>
                       \E raw \in Key :
                           /\ raw = IF e THEN b + 256 ELSE b
                           /\ typed # <<>> /\ Head(typed) = KeySignals(raw, Found(raw, u, held))
                           /\ Reading(w, Tail(typed), Found(raw, u, held) \ {"BREAK"}) \in R
      <3>1. Reads(R, latched)
        BY <1>8
      <3> QED BY <2>2, <3>1, Parsed
    <2> QED BY <1>5, <2>1, <2>2, SMTT(30)
  <1>11. CASE obf \in {Extended, Break}
    <2> DEFINE f == [Top EXCEPT !.pc = "eoi"]
    <2>1. /\ flags' = flags \cup (IF obf = Break THEN {"BREAK"} ELSE {"EXT"})
          /\ Goto(f) /\ typed' = typed
      BY <1>11 DEF ReadByte, GotoPc, Break, Extended
    <2>2. f.pc = "eoi"
      BY <1>2, Moved
    <2> HIDE DEF f
    <2>3. Top' = f /\ ~Decoding'
      BY <1>4, <2>1, <2>2, GotoDecodes DEF Decodes
    <2>4. Stream' = Stream
      <3>1. Stream' = Prefixed("EXT" \in flags', "BREAK" \in flags', wire)
        BY <1>7, <2>3 DEF Stream
      <3>2. CASE obf = Extended
        BY <1>6, <1>10, <2>1, <3>1, <3>2 DEF Prefixed, Extended, Break
      <3>3. CASE obf = Break
        BY <1>6, <1>10, <2>1, <3>1, <3>3 DEF Prefixed
      <3> QED BY <1>11, <3>2, <3>3
    <2>5. /\ flags' \cap Modifiers = held
          /\ flags' \subseteq Modifiers \cup {"EXT", "BREAK"}
      BY <1>9, <2>1 DEF Modifiers
    <2>6. KeyInv'
      BY <1>1, <1>5, <1>8, <1>9, <2>1, <2>2, <2>3, <2>4, <2>5 DEF KeyInv
    <2> QED BY <2>2, <2>3, <2>6
  <1>12. CASE obf \notin {Extended, Break}
    <2>1. PICK raw \in Key :
              /\ raw = IF ext THEN obf + 256 ELSE obf
              /\ typed # <<>> /\ Head(typed) = KeySignals(raw, Found(raw, up, held))
              /\ Reading(wire, Tail(typed), Found(raw, up, held) \ {"BREAK"}) \in R
      BY <1>10, <1>12
    <2> DEFINE now == WithModifier(raw, flags)
    <2>2. raw = RawCode(obf, flags)
      BY <2>1 DEF RawCode
    <2>3. /\ flags' = now /\ typed' = Tail(typed)
          /\ \E s \in KeySignals(raw, now) :
                 Goto(Frame(Keyboard, IF s = NoSignal THEN "clear" ELSE "queue", s))
      BY <1>12, <2>1, <2>2 DEF ReadByte
    <2>4. /\ KeySignals(raw, now) = KeySignals(raw, Found(raw, up, held))
          /\ now \cap Modifiers = Found(raw, up, held) \ {"BREAK"}
          /\ now \subseteq Modifiers \cup {"EXT", "BREAK"}
      BY <1>9, FlagsFound
    <2> HIDE DEF now
    <2>5. PICK s \in KeySignals(raw, now) :
              Goto(Frame(Keyboard, IF s = NoSignal THEN "clear" ELSE "queue", s))
      BY <2>3
    <2> DEFINE f == Frame(Keyboard, IF s = NoSignal THEN "clear" ELSE "queue", s)
    <2>6. /\ Goto(f) /\ f.who = Keyboard /\ f.sig = s
          /\ f.pc = IF s = NoSignal THEN "clear" ELSE "queue"
      BY <2>5, Made
    <2> HIDE DEF f
    <2>7. Top' = f /\ Decoding'
      BY <2>6, GotoDecodes DEF Decodes
    <2>8. Stream' = wire
      BY <1>7, <2>7 DEF Stream
    <2>9. Reading(Stream', typed', flags' \cap Modifiers) \in R
      BY <2>1, <2>3, <2>4, <2>8
    <2>10. Top'.pc # "read"
      BY <2>6, <2>7
    <2>11. KeyInv'
      BY <1>1, <1>5, <1>8, <1>9, <2>3, <2>4, <2>9, <2>10 DEF KeyInv
    <2>12. s \in AllKeySignals
      <3>1. KeySignals(raw, Found(raw, up, held)) \in KeySets
        <4>1. up \in BOOLEAN /\ held \in SUBSET Modifiers
          OBVIOUS
        <4> QED BY <4>1, FoundIs
      <3> QED BY <2>4, <3>1 DEF KeySets
    <2> QED BY <2>1, <2>4, <2>6, <2>7, <2>11, <2>12
  <1> QED BY <1>11, <1>12

-----------------------------------------------------------------------------
LEMMA KeySend == IrqInv /\ KeyInv /\ SendByte => KeyInv'
  <1> SUFFICES ASSUME IrqInv, KeyInv, SendByte PROVE KeyInv'
    OBVIOUS
  <1>1. /\ wire # <<>> /\ obf = Nothing /\ obf' = Head(wire) /\ wire' = Tail(wire)
        /\ UNCHANGED <<flags, stack, latched, typed>>
    BY DEF SendByte, latched
  <1>2. wire \in Seq(Byte)
    BY DEF KeyInv
  <1>3. /\ obf' \in Byte /\ wire' \in Seq(Byte) /\ Cons(obf', wire') = wire
    BY <1>1, <1>2, ConsHeadTail
  <1>4. obf' # Nothing
    <2>1. Nothing \notin Byte
      BY SizesAssumption, Zenon DEF Byte
    <2> QED BY <1>3, <2>1, Zenon
  <1>5. Waiting' = Waiting
    BY <1>1, <1>3, <1>4 DEF Waiting
  <1>6. Decoding' = Decoding /\ Top' = Top
    BY <1>1 DEF Decoding, Top, Decodes, DecodesBelow
  <1>7. Stream' = Stream
    BY <1>1, <1>5, <1>6 DEF Stream
  <1>8. Top.pc # "read"
    BY <1>1 DEF KeyInv
  <1> QED BY <1>1, <1>3, <1>4, <1>6, <1>7, <1>8 DEF KeyInv

LEMMA KeyTicks == IrqInv /\ KeyInv /\ (PitTick \/ RtcTick) => KeyInv'
  <1> SUFFICES ASSUME IrqInv, KeyInv, PitTick \/ RtcTick PROVE KeyInv'
    OBVIOUS
  <1>1. /\ UNCHANGED <<obf, wire, flags, stack, latched, typed>>
        /\ Keyboard \in irr' <=> Keyboard \in irr
    BY DEF PitTick, RtcTick, keyboard, latched, RaiseLine, Pit, Keyboard, Rtc
  <1>2. Decoding' = Decoding /\ Top' = Top
    BY <1>1 DEF Decoding, Top, Decodes, DecodesBelow
  <1> QED BY <1>1, <1>2, SameBytes DEF KeyInv

(* What a key event leaves the user meaning is what ps2_interrupt's one flag *)
(* per modifier makes of it: each key belongs to one modifier at most.       *)
LEMMA Typing ==
    ASSUME NEW raw \in Key, NEW up \in BOOLEAN, TypeKey(raw, up)
    PROVE  /\ latched' = Found(raw, up, latched) \ {"BREAK"}
           /\ typed' = Append(typed, KeySignals(raw, Found(raw, up, latched)))
  <1>1. /\ latched \subseteq Modifiers /\ latched' \subseteq Modifiers
        /\ "BREAK" \notin Modifiers
    BY DEF latched, Modifiers
  <1>2. \A m \in Modifiers :
            /\ m \in Modifier(raw) <=> raw \in KeysOf[m]
            /\ raw \in KeysOf[m] => KeysOf[m] = Together(raw)
            /\ raw \notin KeysOf[m] => KeysOf[m] \cap Together(raw) = {}
    BY DEF Modifiers, KeysOf, Together, Modifier
  <1>3. Modifier(raw) \subseteq Modifiers
    BY DEF Modifier, Modifiers
  <1>4. latched' = IF up THEN latched \ Modifier(raw) ELSE latched \cup Modifier(raw)
    <2>1. ASSUME NEW m \in Modifiers
          PROVE  m \in latched' <=>
                     IF raw \in KeysOf[m] THEN ~up ELSE m \in latched
      <3>1. /\ m \in latched <=> (down \cap KeysOf[m]) \ lifted # {}
            /\ m \in latched' <=> (down' \cap KeysOf[m]) \ lifted' # {}
        BY DEF latched
      <3>2. CASE up
        <4>1. /\ down' = down \ {raw}
              /\ lifted' = (lifted \cup (down \cap Together(raw))) \ {raw}
          BY <3>2 DEF TypeKey
        <4> QED BY <1>2, <3>1, <3>2, <4>1
      <3>3. CASE ~up
        <4>1. down' = down \cup {raw} /\ lifted' = lifted \ Together(raw)
          BY <3>3 DEF TypeKey
        <4> QED BY <1>2, <3>1, <3>3, <4>1
      <3> QED BY <3>2, <3>3
    <2> QED BY <1>1, <1>2, <1>3, <2>1
  <1>5. Found(raw, up, latched) =
            IF up THEN (latched \cup {"BREAK"}) \ Modifier(raw) ELSE latched \cup Modifier(raw)
    BY <1>1 DEF Found, WithModifier
  <1>6. Found(raw, up, latched) = latched' \cup (IF up THEN {"BREAK"} ELSE {})
    BY <1>1, <1>3, <1>4, <1>5
  <1>7. latched' = Found(raw, up, latched) \ {"BREAK"}
    BY <1>1, <1>6
  <1> QED BY <1>6, <1>7 DEF TypeKey

LEMMA KeyTyped ==
    ASSUME IrqInv, KeyInv, NEW raw \in Key, NEW up \in BOOLEAN, TypeKey(raw, up)
    PROVE  KeyInv'
  <1> DEFINE found == Found(raw, up, latched)
             sc == Scancodes(raw, up)
             ks == KeySignals(raw, found)
  <1>1. /\ wire' = wire \o sc /\ latched' = found \ {"BREAK"}
        /\ typed' = Append(typed, ks)
        /\ UNCHANGED <<flags, stack, obf, irr>>
    BY Typing DEF TypeKey
  <1>2. /\ wire \in Seq(Byte) /\ obf \in Byte \cup {Nothing} /\ latched \in SUBSET Modifiers
    BY DEF KeyInv
  <1>3. sc \in Seq(Byte)
    BY ScancodesPrefixed, EmptySeq
  <1>4. wire' \in Seq(Byte) /\ latched' \in SUBSET Modifiers
    BY <1>1, <1>2, <1>3, FoundIs, ConcatProperties
  <1>5. PICK R : Reads(R, latched) /\ Reading(Stream, typed, flags \cap Modifiers) \in R
    BY DEF KeyInv
  <1> DEFINE After(p) == Reading(p.bytes \o sc, Append(p.keys, ks), p.held)
             R2 == {After(p) : p \in R} \cup {Reading(<<>>, <<>>, found \ {"BREAK"})}
             r == Reading(Stream, typed, flags \cap Modifiers)
  <1>6. Reads(R2, latched')
    BY <1>1, <1>2, <1>5, Appended
  <1> HIDE DEF sc, ks, found
  <1>7. After(r) = Reading(Stream \o sc, typed', flags \cap Modifiers)
    BY <1>1 DEF Reading
  <1>8. Waiting \in Seq(Byte) /\ Waiting' = Waiting \o sc
    BY <1>1, <1>2, <1>3, ConsIs, ConsConcat DEF Waiting
  <1>9. Decoding' = Decoding /\ Top' = Top
    BY <1>1 DEF Decoding, Top, Decodes, DecodesBelow
  <1>10. Stream' = Stream \o sc
    <2> DEFINE e == "EXT" \in flags
               u == "BREAK" \in flags
    <2>1. e \in BOOLEAN /\ u \in BOOLEAN
      OBVIOUS
    <2>2. Stream = (IF Decoding THEN Waiting ELSE Prefixed(e, u, Waiting))
      BY DEF Stream
    <2>3. Stream' = (IF Decoding THEN Waiting' ELSE Prefixed(e, u, Waiting'))
      BY <1>1, <1>9 DEF Stream
    <2> HIDE DEF e, u
    <2>4. Prefixed(e, u, Waiting) \o sc = Prefixed(e, u, Waiting \o sc)
      BY <1>3, <1>8, <2>1, PrefixedIs
    <2> QED BY <1>8, <2>2, <2>3, <2>4
  <1>11. Reading(Stream', typed', flags' \cap Modifiers) \in R2
    <2>1. Reading(Stream', typed', flags' \cap Modifiers) = After(r)
      BY <1>1, <1>7, <1>10
    <2> HIDE DEF After
    <2> QED BY <1>5, <2>1
  <1> HIDE DEF R2
  <1> QED BY <1>1, <1>4, <1>6, <1>9, <1>11 DEF KeyInv

LEMMA KeyStep == IrqInv /\ KeyInv /\ [Next]_vars => KeyInv'
  <1> SUFFICES ASSUME IrqInv, KeyInv, [Next]_vars PROVE KeyInv'
    OBVIOUS
  <1>1. CASE Cpu
    BY <1>1, KeyCalls, KeyEnds, KeyTake, KeyClear, KeyRead DEF Cpu, Handler
  <1>2. CASE PushSignal
    BY <1>2, KeyCalls
  <1>3. CASE Device
    BY <1>3, KeySend, KeyTicks, KeyTyped DEF Device
  <1>4. CASE UNCHANGED vars
    <2>1. UNCHANGED <<obf, wire, flags, stack, latched, typed, irr>>
      BY <1>4 DEF vars, keyboard, latched
    <2>2. Decoding' = Decoding /\ Top' = Top
      BY <2>1 DEF Decoding, Top, Decodes, DecodesBelow
    <2> QED BY <2>1, <2>2, SameBytes DEF KeyInv
  <1> QED BY <1>1, <1>2, <1>3, <1>4 DEF Next

LEMMA KeyHolds == Spec => []KeyInv
  BY KeyInit, KeyStep, IrqHolds, PTL DEF Spec

-----------------------------------------------------------------------------
(* For any keys and any lines: when everything typed is decoded and no       *)
(* handler is on its way to clear the prefixes, the flag byte holds exactly  *)
(* the modifiers of keys that are down and were pressed after the last       *)
(* release of the modifier's other key; no prefix is left over.              *)
THEOREM FlagsAreHeldKeys == Spec => []FlagsFollowKeys
  <1>1. IrqInv /\ KeyInv => FlagsFollowKeys
    <2> SUFFICES ASSUME IrqInv, KeyInv, typed = <<>>,
                        \A i \in DOMAIN stack :
                            stack[i].who = Keyboard => stack[i].pc \in {"read", "eoi", "iret"}
                 PROVE  flags = latched
      BY DEF FlagsFollowKeys
    <2>1. PICK R : Reads(R, latched) /\ Reading(Stream, typed, flags \cap Modifiers) \in R
      BY DEF KeyInv
    <2> DEFINE p == Reading(Stream, typed, flags \cap Modifiers)
    <2>2. p.bytes = Stream /\ p.keys = <<>> /\ p.held = flags \cap Modifiers
      BY DEF Reading
    <2>3. p \in R
      BY <2>1
    <2> HIDE DEF p
    <2>4. p = Reading(<<>>, <<>>, latched)
      BY <2>1, <2>2, <2>3 DEF Reads, Begins
    <2>5. Stream = <<>> /\ flags \cap Modifiers = latched
      BY <2>2, <2>4 DEF Reading
    <2>6. /\ DOMAIN stack = 1 .. Len(stack) /\ Len(stack) \in Nat \ {0} /\ Top = stack[Len(stack)]
      BY Runs, LenProperties DEF IrqInv, Stacked
    <2>7. ~Decoding
      BY <2>6 DEF Decoding, Decodes, DecodesBelow
    <2>8. "EXT" \notin flags /\ "BREAK" \notin flags
      <3> DEFINE e == "EXT" \in flags
                 u == "BREAK" \in flags
      <3>1. e \in BOOLEAN /\ u \in BOOLEAN /\ Prefixed(e, u, Waiting) = <<>>
        BY <2>5, <2>7 DEF Stream
      <3>2. Waiting \in Seq(Byte)
        BY ConsIs DEF Waiting, KeyInv
      <3> HIDE DEF e, u
      <3>3. ~e /\ ~u
        BY <3>1, <3>2, PrefixedIs, EmptySeq
      <3> QED BY <3>3 DEF e, u
    <2> QED BY <2>5, <2>8 DEF KeyInv
  <1> QED BY <1>1, IrqHolds, KeyHolds, PTL

(* For any keys and any lines: what comes out of the decoder is the oldest   *)
(* key event typed that has not come out yet, as one of its key signals.     *)
THEOREM DecodedInOrder == Spec => KeysInOrder
  <1> DEFINE Out == Top.pc = "read" /\ Top'.pc \in {"queue", "clear"}
                        => typed # <<>> /\ Top'.sig \in Head(typed)
  <1>1. IrqInv /\ KeyInv /\ [Next]_vars => [Out]_vars
    <2> SUFFICES ASSUME IrqInv, KeyInv, Next, Top.pc = "read", Top'.pc \in {"queue", "clear"}
                 PROVE  typed # <<>> /\ Top'.sig \in Head(typed)
      OBVIOUS
    <2>1. CASE ReadByte
      BY <2>1, KeyRead
    <2>2. CASE ~ReadByte
      <3>1. stack' = stack \/ TakeInterrupt
        BY <2>2 DEF Next, Cpu, PushSignal, Device, Handler, At, QueueSignal, QueueCli, QueueCheck,
               QueueFull, QueueCopy, QueueCount, QueueSti, DequeueSignal, DequeueCheck,
               DequeueCli, DequeueCopy, DequeueCount, DequeueAdvance, DequeueSti,
               ClearPrefixes, TimerTick, EoiSecondary, EoiPrimary, Iret,
               SendByte, PitTick, RtcTick, TypeKey
      <3>2. stack' # stack
        BY DEF Top
      <3>3. TakeInterrupt => FALSE
        BY Taken DEF Quiet, Unmasked
      <3> QED BY <3>1, <3>2, <3>3
    <2> QED BY <2>1, <2>2
  <1> QED BY <1>1, IrqHolds, KeyHolds, PTL DEF Spec, KeysInOrder

-----------------------------------------------------------------------------
(* The ring. *)
(* What a call has checked of the counters still holds when it uses it, and  *)
(* the signal in its hands is one.                                           *)
RingInv ==
    /\ in_buffer \in 0 .. MAX_SIGNALS /\ buffer_pos \in Slot
    /\ refused \in BOOLEAN
    /\ Top.pc \in {"copy", "count"} => in_buffer < MAX_SIGNALS
    /\ Lua.pc \in {"dequeue_cli", "dequeue_copy", "dequeue_count"} => in_buffer > 0
    /\ \A i \in 1 .. Len(stack) :
           stack[i].pc \in {"queue", "check", "copy"} => stack[i].sig \in Signal

-----------------------------------------------------------------------------
(* Only the running frame can be between the copy and the count. *)
LEMMA Committed ==
    ASSUME IrqInv, in_buffer \in Int
    PROVE  /\ CommittedCount = IF Top.pc = "count" THEN in_buffer + 1
                               ELSE IF Top.pc = "dequeue_count" THEN in_buffer - 1
                               ELSE in_buffer
           /\ CommittedPos = IF Top.pc \in {"dequeue_count", "dequeue_advance"}
                             THEN (buffer_pos + 1) % MAX_SIGNALS ELSE buffer_pos
  <1>1. /\ Len(stack) \in Nat \ {0} /\ Top = stack[Len(stack)]
        /\ Top.who = Main <=> Len(stack) = 1
        /\ Steady(Top, eflags_if) /\ Top.who \in {Main, Pit, Keyboard, Rtc}
        /\ DOMAIN stack = 1 .. Len(stack)
    BY Runs, LenProperties DEF IrqInv, Stacked
  <1>2. \A n \in Nat \ {0} :
            /\ n \in 1 .. n
            /\ \A i \in 1 .. n : i = n \/ (i = 1 /\ n > 1) \/ i \in 2 .. n - 1
    OBVIOUS
  <1>3. \A i \in 1 .. Len(stack) :
            i = Len(stack) \/ stack[i].pc \in Quiet \cup Unmasked
    BY <1>1, <1>2 DEF IrqInv, Stacked
  <1>4. ASSUME NEW pc \in {"count", "dequeue_count"}
        PROVE  Cardinality(FramesAt({pc})) = IF Top.pc = pc THEN 1 ELSE 0
    <2>1. pc \notin Quiet \cup Unmasked
      BY DEF Quiet, Unmasked
    <2>2. CASE Top.pc = pc
      <3>1. Len(stack) \in 1 .. Len(stack)
        BY <1>1, <1>2, Zenon
      <3>2. FramesAt({pc}) = {Len(stack)}
        BY <1>1, <1>3, <2>1, <2>2, <3>1 DEF FramesAt
      <3> QED BY <2>2, <3>2, FS_Singleton
    <2>3. CASE Top.pc # pc
      <3>1. FramesAt({pc}) = {}
        BY <1>1, <1>3, <2>1, <2>3 DEF FramesAt
      <3> QED BY <2>3, <3>1, FS_EmptySet
    <2> QED BY <2>2, <2>3
  <1>5. CommittedCount = in_buffer + (IF Top.pc = "count" THEN 1 ELSE 0)
                             - (IF Top.pc = "dequeue_count" THEN 1 ELSE 0)
    BY <1>4 DEF CommittedCount
  <1>6. Lua.pc \in {"dequeue_count", "dequeue_advance"}
            <=> Top.pc \in {"dequeue_count", "dequeue_advance"}
    <2>1. CASE Len(stack) = 1
      BY <1>1, <2>1 DEF Lua
    <2>2. CASE Len(stack) # 1
      <3>1. Len(stack) > 1
        BY <1>1, <2>2
      <3>2. Lua.pc \in Quiet
        BY <3>1 DEF IrqInv, Stacked, Lua
      <3>3. Top.pc \notin {"dequeue_count", "dequeue_advance"}
        BY <1>1, <2>2 DEF Steady, Masked, Unmasked
      <3> QED BY <3>2, <3>3 DEF Quiet
    <2> QED BY <2>1, <2>2
  <1>7. CommittedCount = IF Top.pc = "count" THEN in_buffer + 1
                         ELSE IF Top.pc = "dequeue_count" THEN in_buffer - 1 ELSE in_buffer
    BY <1>5
  <1> QED BY <1>6, <1>7 DEF CommittedPos

(* A step of the one who runs, seen from the whole stack. *)
LEMMA Gone ==
    ASSUME IrqInv, NEW f, Goto(f)
    PROVE  /\ Top' = f /\ Len(stack') = Len(stack) /\ Len(stack) \in Nat \ {0}
           /\ stack'[Len(stack)] = f
           /\ \A i \in 1 .. Len(stack) - 1 : stack'[i] = stack[i]
           /\ Lua' = IF Top.who = Main THEN f ELSE Lua
  <1>1. /\ Len(stack) \in Nat \ {0}
        /\ Len(stack') = Len(stack) /\ stack'[Len(stack)] = f
        /\ \A i \in 1 .. Len(stack) - 1 : stack'[i] = stack[i]
    BY Replaced DEF IrqInv, Goto
  <1>2. Top' = f
    BY <1>1 DEF Top, Last
  <1>3. Top.who = Main <=> Len(stack) = 1
    BY Runs DEF IrqInv
  <1>4. \A n \in Nat \ {0} : n # 1 => 1 \in 1 .. n - 1
    OBVIOUS
  <1>5. Lua' = IF Top.who = Main THEN f ELSE Lua
    BY <1>1, <1>3, <1>4 DEF Lua
  <1> QED BY <1>1, <1>2, <1>5

LEMMA RingGoto ==
    ASSUME IrqInv, RingInv, NEW f, Goto(f),
           in_buffer' \in 0 .. MAX_SIGNALS, buffer_pos' \in Slot, refused' \in BOOLEAN,
           Top.who = Main \/ in_buffer' >= in_buffer,
           f.pc \in {"copy", "count"} => in_buffer' < MAX_SIGNALS,
           f.pc \in {"dequeue_cli", "dequeue_copy", "dequeue_count"} => in_buffer' > 0,
           f.pc \in {"queue", "check", "copy"} => f.sig \in Signal
    PROVE  RingInv'
  <1>1. /\ Top' = f /\ Len(stack') = Len(stack) /\ Len(stack) \in Nat \ {0}
        /\ stack'[Len(stack)] = f
        /\ \A i \in 1 .. Len(stack) - 1 : stack'[i] = stack[i]
        /\ Lua' = IF Top.who = Main THEN f ELSE Lua
    BY Gone
  <1>2. Lua'.pc \in {"dequeue_cli", "dequeue_copy", "dequeue_count"} => in_buffer' > 0
    <2>1. CASE Top.who = Main
      BY <1>1, <2>1
    <2>2. CASE Top.who # Main
      <3>1. Lua' = Lua /\ in_buffer' >= in_buffer
        BY <1>1, <2>2
      <3>2. in_buffer \in Int /\ in_buffer' \in Int
        BY SizesAssumption DEF RingInv
      <3>3. Lua.pc \in {"dequeue_cli", "dequeue_copy", "dequeue_count"} => in_buffer > 0
        BY DEF RingInv
      <3>4. \A m, n \in Int : n > 0 /\ m >= n => m > 0
        OBVIOUS
      <3> QED BY <3>1, <3>2, <3>3, <3>4
    <2> QED BY <2>1, <2>2
  <1>3. \A i \in 1 .. Len(stack') :
            stack'[i].pc \in {"queue", "check", "copy"} => stack'[i].sig \in Signal
    <2>1. \A n \in Nat \ {0} : \A i \in 1 .. n : i = n \/ (i # n /\ i \in 1 .. n - 1)
      OBVIOUS
    <2>2. \A i \in 1 .. Len(stack) : i = Len(stack) \/ i \in 1 .. Len(stack) - 1
      BY <1>1, <2>1, Zenon
    <2>3. \A i \in 1 .. Len(stack) : stack[i].pc \in {"queue", "check", "copy"} => stack[i].sig \in Signal
      BY DEF RingInv
    <2> QED BY <1>1, <2>2, <2>3, Zenon
  <1>4. Top'.pc \in {"copy", "count"} => in_buffer' < MAX_SIGNALS
    BY <1>1
  <1> QED BY <1>2, <1>3, <1>4 DEF RingInv

(* A step that leaves the counters and the stack alone. *)
LEMMA RingSame ==
    RingInv /\ UNCHANGED <<in_buffer, buffer_pos, refused, stack>> => RingInv'
  BY DEF RingInv, Top, Lua

LEMMA RingGotoPc ==
    ASSUME IrqInv, RingInv, NEW pc, GotoPc(pc),
           in_buffer' \in 0 .. MAX_SIGNALS, buffer_pos' \in Slot, refused' \in BOOLEAN,
           Top.who = Main \/ in_buffer' >= in_buffer,
           pc \in {"copy", "count"} => in_buffer' < MAX_SIGNALS,
           pc \in {"dequeue_cli", "dequeue_copy", "dequeue_count"} => in_buffer' > 0,
           pc \in {"queue", "check", "copy"} => Top.pc \in {"queue", "check"}
    PROVE  RingInv' /\ Top'.pc = pc
  <1> DEFINE f == [Top EXCEPT !.pc = pc]
  <1>1. f.who = Top.who /\ f.pc = pc /\ f.sig = Top.sig
    BY Runs, Moved DEF IrqInv
  <1>2. Goto(f)
    BY DEF GotoPc
  <1>3. Top.pc \in {"queue", "check"} => Top.sig \in Signal
    <2>1. Top = stack[Len(stack)] /\ Len(stack) \in Nat \ {0}
      BY Runs DEF IrqInv
    <2>2. \A n \in Nat \ {0} : n \in 1 .. n
      OBVIOUS
    <2>3. Len(stack) \in 1 .. Len(stack)
      BY <2>1, <2>2, Zenon
    <2> QED BY <2>1, <2>3, Zenon DEF RingInv
  <1> HIDE DEF f
  <1>4. RingInv'
    BY <1>1, <1>2, <1>3, RingGoto
  <1>5. Top' = f
    BY <1>2, Gone
  <1> QED BY <1>1, <1>4, <1>5

-----------------------------------------------------------------------------
(* The ring's step each action of this module is, once the counters are      *)
(* known to keep their promises.                                             *)
RingStep == [Ring!Next]_(Ring!vars)

LEMMA Stutters ==
    ASSUME UNCHANGED <<signal_buffer, taken, refused, CommittedCount, CommittedPos>>
    PROVE  RingStep
  BY DEF RingStep, Ring!vars

(* What the running frame knows of the ring. *)
LEMMA Known ==
    ASSUME IrqInv, RingInv
    PROVE  /\ in_buffer \in Nat /\ MAX_SIGNALS \in Nat \ {0} /\ in_buffer <= MAX_SIGNALS
           /\ buffer_pos \in Slot /\ (buffer_pos + 1) % MAX_SIGNALS \in Slot
           /\ Top.pc \in {"dequeue_cli", "dequeue_copy", "dequeue_count"} => in_buffer > 0
           /\ Top.pc \in {"queue", "check", "copy"} => Top.sig \in Signal
           /\ Top.pc \in {"lua", "dequeue_cli", "dequeue_copy", "dequeue_count",
                          "dequeue_advance", "dequeue_sti"} => Top.who = Main
  <1>1. /\ Top = stack[Len(stack)] /\ Len(stack) \in Nat \ {0}
        /\ Top.who = Main <=> Len(stack) = 1
        /\ Steady(Top, eflags_if) /\ Top.who \in {Main, Pit, Keyboard, Rtc}
    BY Runs DEF IrqInv
  <1>2. \A n \in Nat \ {0} : n \in 1 .. n
    OBVIOUS
  <1>3. Len(stack) \in 1 .. Len(stack)
    BY <1>1, <1>2, Zenon
  <1>4. Top.pc \in {"queue", "check", "copy"} => Top.sig \in Signal
    BY <1>1, <1>3, Zenon DEF RingInv
  <1>5. ASSUME Top.pc \in {"lua", "dequeue_cli", "dequeue_copy", "dequeue_count",
                           "dequeue_advance", "dequeue_sti"}
        PROVE  Top.who = Main
    BY <1>1, <1>5 DEF Steady, Unmasked, Masked
  <1>6. ASSUME Top.pc \in {"dequeue_cli", "dequeue_copy", "dequeue_count"}
        PROVE  in_buffer > 0
    <2>1. Top.who = Main
      BY <1>5, <1>6
    <2>2. Lua = Top
      BY <1>1, <2>1 DEF Lua
    <2> QED BY <1>6, <2>2 DEF RingInv
  <1>7. /\ in_buffer \in Nat /\ MAX_SIGNALS \in Nat \ {0} /\ in_buffer <= MAX_SIGNALS
        /\ buffer_pos \in Slot
    BY SizesAssumption DEF RingInv
  <1>8. (buffer_pos + 1) % MAX_SIGNALS \in Slot
    BY <1>7, SizesAssumption DEF Slot
  <1> QED BY <1>4, <1>5, <1>6, <1>7, <1>8

(* The counters the callers agree on, from the running frame's step. *)
Agreed ==
    /\ CommittedCount = IF Top.pc = "count" THEN in_buffer + 1
                        ELSE IF Top.pc = "dequeue_count" THEN in_buffer - 1
                        ELSE in_buffer
    /\ CommittedPos = IF Top.pc \in {"dequeue_count", "dequeue_advance"}
                      THEN (buffer_pos + 1) % MAX_SIGNALS ELSE buffer_pos

LEMMA AgreedIs == IrqInv /\ RingInv => Agreed
  <1> SUFFICES ASSUME IrqInv, RingInv PROVE Agreed
    OBVIOUS
  <1>1. in_buffer \in Int
    BY SizesAssumption DEF RingInv
  <1> QED BY <1>1, Committed DEF Agreed

LEMMA AgreedBoth ==
    ASSUME IrqInv, RingInv, IrqInv', RingInv'
    PROVE  Agreed /\ Agreed'
  <1>1. (IrqInv /\ RingInv => Agreed)'
    BY AgreedIs, PTL
  <1> QED BY <1>1, AgreedIs

(* A step between two machine steps that both agree on the ring. *)
LEMMA Between ==
    ASSUME IrqInv, RingInv, IrqInv', RingInv',
           UNCHANGED <<signal_buffer, in_buffer, buffer_pos, taken, refused>>,
           Top.pc \notin {"count", "dequeue_count", "dequeue_advance"},
           Top'.pc \notin {"count", "dequeue_count", "dequeue_advance"}
    PROVE  RingStep
  BY AgreedBoth, Stutters DEF Agreed

LEMMA QueueRing ==
    ASSUME IrqInv, RingInv, IrqInv', QueueSignal
    PROVE  RingInv' /\ RingStep
  <1> USE Known
  <1>1. refused \in BOOLEAN /\ (Top.pc \in {"copy", "count"} => in_buffer < MAX_SIGNALS)
        /\ Caller \in {"lua", "clear"} /\ in_buffer \in 0 .. MAX_SIGNALS
    BY DEF RingInv, Caller
  <1>2. CASE QueueCli
    <2>1. /\ Top.pc = "queue" /\ GotoPc("check")
          /\ UNCHANGED <<signal_buffer, in_buffer, buffer_pos, taken, refused>>
      BY <1>2 DEF QueueCli, At, ring
    <2>2. RingInv' /\ Top'.pc = "check"
      BY <1>1, <2>1, RingGotoPc
    <2> QED BY <2>1, <2>2, Between
  <1>3. CASE QueueCheck
    <2> DEFINE pc == IF in_buffer >= MAX_SIGNALS THEN "full" ELSE "copy"
    <2>1. /\ Top.pc = "check" /\ GotoPc(pc)
          /\ UNCHANGED <<signal_buffer, in_buffer, buffer_pos, taken>>
          /\ pc \in {"full", "copy"}
          /\ pc = "copy" => in_buffer < MAX_SIGNALS
      BY <1>3 DEF QueueCheck, At
    <2>2. refused' = (refused \/ in_buffer >= MAX_SIGNALS)
      BY <1>3 DEF QueueCheck
    <2>3. refused' \in BOOLEAN
      BY <2>2, Zenon
    <2> HIDE DEF pc
    <2>4. RingInv' /\ Top'.pc = pc
      BY <1>1, <2>1, <2>3, RingGotoPc
    <2>5. Agreed /\ Agreed'
      BY <2>4, AgreedBoth
    <2>6. CommittedCount = in_buffer /\ UNCHANGED <<CommittedCount, CommittedPos>>
      BY <2>1, <2>4, <2>5 DEF Agreed
    <2>7. CASE in_buffer >= MAX_SIGNALS
      <3>1. refused' = TRUE
        BY <2>2, <2>7, Zenon
      <3>2. Ring!QueueFull
        BY <2>1, <2>6, <2>7, <3>1 DEF Ring!QueueFull
      <3> QED BY <2>4, <3>2 DEF RingStep, Ring!Next
    <2>8. CASE ~(in_buffer >= MAX_SIGNALS)
      <3>1. refused' = refused
        BY <1>1, <2>2, <2>8, Zenon
      <3> QED BY <2>1, <2>4, <2>6, <3>1, Stutters
    <2> QED BY <2>7, <2>8
  <1>4. CASE QueueFull
    <2>1. /\ Top.pc = "full" /\ GotoPc(Caller)
          /\ UNCHANGED <<signal_buffer, in_buffer, buffer_pos, taken, refused>>
      BY <1>4 DEF QueueFull, At, ring
    <2>2. RingInv' /\ Top'.pc = Caller
      BY <1>1, <2>1, RingGotoPc
    <2> QED BY <1>1, <2>1, <2>2, Between
  <1>5. CASE QueueCopy
    <2>1. /\ Top.pc = "copy" /\ GotoPc("count")
          /\ UNCHANGED <<in_buffer, buffer_pos, taken>> /\ refused' = FALSE
          /\ signal_buffer' =
               [signal_buffer EXCEPT ![(buffer_pos + in_buffer) % MAX_SIGNALS] = Top.sig]
      BY <1>5 DEF QueueCopy, At
    <2>2. RingInv' /\ Top'.pc = "count"
      <3>1. refused' \in BOOLEAN
        BY <2>1, Zenon
      <3>2. in_buffer' < MAX_SIGNALS /\ in_buffer' >= in_buffer
        BY <1>1, <2>1
      <3> QED BY <1>1, <2>1, <3>1, <3>2, RingGotoPc
    <2>3. Agreed /\ Agreed'
      BY <2>2, AgreedBoth
    <2>4. /\ CommittedCount = in_buffer /\ CommittedCount' = in_buffer + 1
          /\ CommittedPos = buffer_pos /\ CommittedPos' = buffer_pos
      BY <2>1, <2>2, <2>3 DEF Agreed
    <2>5. Top.sig \in Signal /\ in_buffer < MAX_SIGNALS
      BY <1>1, <2>1
    <2>6. Ring!QueueSignal(Top.sig)
      BY <2>1, <2>4, <2>5 DEF Ring!QueueSignal, Ring!FreeSlot
    <2> QED BY <2>2, <2>5, <2>6 DEF RingStep, Ring!Next
  <1>6. CASE QueueCount
    <2>1. /\ Top.pc = "count" /\ GotoPc("sti") /\ in_buffer' = in_buffer + 1
          /\ UNCHANGED <<signal_buffer, buffer_pos, taken, refused>>
      BY <1>6 DEF QueueCount, At
    <2>2. in_buffer' \in 0 .. MAX_SIGNALS /\ in_buffer' >= in_buffer
      BY <1>1, <2>1
    <2>3. RingInv' /\ Top'.pc = "sti"
      BY <1>1, <2>1, <2>2, RingGotoPc
    <2>4. Agreed /\ Agreed'
      BY <2>3, AgreedBoth
    <2> QED BY <2>1, <2>3, <2>4, Stutters DEF Agreed
  <1>7. CASE QueueSti
    <2>1. /\ Top.pc = "sti" /\ GotoPc(Caller)
          /\ UNCHANGED <<signal_buffer, in_buffer, buffer_pos, taken, refused>>
      BY <1>7 DEF QueueSti, At, ring
    <2>2. RingInv' /\ Top'.pc = Caller
      BY <1>1, <2>1, RingGotoPc
    <2> QED BY <1>1, <2>1, <2>2, Between
  <1> QED BY <1>2, <1>3, <1>4, <1>5, <1>6, <1>7 DEF QueueSignal

LEMMA DequeueRing ==
    ASSUME IrqInv, RingInv, IrqInv', DequeueSignal
    PROVE  RingInv' /\ RingStep
  <1> USE Known
  <1>1. refused \in BOOLEAN /\ in_buffer \in 0 .. MAX_SIGNALS
    BY DEF RingInv
  <1>2. CASE DequeueCheck
    <2>1. /\ Top.pc = "lua" /\ UNCHANGED <<signal_buffer, in_buffer, buffer_pos, refused>>
          /\ IF in_buffer = 0 THEN taken' = NoSignal /\ UNCHANGED stack
                              ELSE taken' = taken /\ GotoPc("dequeue_cli")
      BY <1>2 DEF DequeueCheck, At
    <2>2. CASE in_buffer = 0
      <3>1. RingInv' /\ Top' = Top
        BY <2>1, <2>2, RingSame DEF Top
      <3>2. Agreed /\ Agreed'
        BY <3>1, AgreedBoth
      <3>3. CommittedCount = 0 /\ UNCHANGED <<CommittedCount, CommittedPos>>
        BY <2>1, <2>2, <3>1, <3>2 DEF Agreed
      <3>4. Ring!DequeueEmpty
        BY <2>1, <2>2, <3>3 DEF Ring!DequeueEmpty
      <3> QED BY <3>1, <3>4 DEF RingStep, Ring!Next
    <2>3. CASE in_buffer # 0
      <3>1. RingInv' /\ Top'.pc = "dequeue_cli"
        BY <1>1, <2>1, <2>3, RingGotoPc
      <3> QED BY <2>1, <2>3, <3>1, Between
    <2> QED BY <2>2, <2>3
  <1>3. CASE DequeueCli
    <2>1. /\ Top.pc = "dequeue_cli" /\ GotoPc("dequeue_copy")
          /\ UNCHANGED <<signal_buffer, in_buffer, buffer_pos, taken, refused>>
      BY <1>3 DEF DequeueCli, At, ring
    <2>2. RingInv' /\ Top'.pc = "dequeue_copy"
      BY <1>1, <2>1, RingGotoPc
    <2> QED BY <2>1, <2>2, Between
  <1>4. CASE DequeueCopy
    <2>1. /\ Top.pc = "dequeue_copy" /\ GotoPc("dequeue_count")
          /\ UNCHANGED <<signal_buffer, in_buffer, buffer_pos, refused>>
          /\ taken' = signal_buffer[buffer_pos]
      BY <1>4 DEF DequeueCopy, At
    <2>2. RingInv' /\ Top'.pc = "dequeue_count"
      BY <1>1, <2>1, RingGotoPc
    <2>3. Agreed /\ Agreed'
      BY <2>2, AgreedBoth
    <2>4. /\ CommittedCount = in_buffer /\ CommittedCount' = in_buffer - 1
          /\ CommittedPos = buffer_pos /\ CommittedPos' = (buffer_pos + 1) % MAX_SIGNALS
      BY <2>1, <2>2, <2>3 DEF Agreed
    <2>5. in_buffer # 0
      BY <2>1
    <2>6. Ring!DequeueSignal
      BY <2>1, <2>4, <2>5 DEF Ring!DequeueSignal
    <2> QED BY <2>2, <2>6 DEF RingStep, Ring!Next
  <1>5. CASE DequeueCount
    <2>1. /\ Top.pc = "dequeue_count" /\ GotoPc("dequeue_advance")
          /\ in_buffer' = in_buffer - 1
          /\ UNCHANGED <<signal_buffer, buffer_pos, taken, refused>>
      BY <1>5 DEF DequeueCount, At
    <2>2. in_buffer' \in 0 .. MAX_SIGNALS
      BY <1>1, <2>1
    <2>3. RingInv' /\ Top'.pc = "dequeue_advance"
      BY <1>1, <2>1, <2>2, RingGotoPc
    <2>4. Agreed /\ Agreed'
      BY <2>3, AgreedBoth
    <2> QED BY <2>1, <2>3, <2>4, Stutters DEF Agreed
  <1>6. CASE DequeueAdvance
    <2>1. /\ Top.pc = "dequeue_advance" /\ GotoPc("dequeue_sti")
          /\ buffer_pos' = (buffer_pos + 1) % MAX_SIGNALS
          /\ UNCHANGED <<signal_buffer, in_buffer, taken, refused>>
      BY <1>6 DEF DequeueAdvance, At
    <2>2. RingInv' /\ Top'.pc = "dequeue_sti"
      BY <1>1, <2>1, RingGotoPc
    <2>3. Agreed /\ Agreed'
      BY <2>2, AgreedBoth
    <2> QED BY <2>1, <2>2, <2>3, Stutters DEF Agreed
  <1>7. CASE DequeueSti
    <2>1. /\ Top.pc = "dequeue_sti" /\ GotoPc("lua")
          /\ UNCHANGED <<signal_buffer, in_buffer, buffer_pos, taken, refused>>
      BY <1>7 DEF DequeueSti, At, ring
    <2>2. RingInv' /\ Top'.pc = "lua"
      BY <1>1, <2>1, RingGotoPc
    <2> QED BY <2>1, <2>2, Between
  <1> QED BY <1>2, <1>3, <1>4, <1>5, <1>6, <1>7 DEF DequeueSignal

LEMMA PushRing ==
    ASSUME IrqInv, RingInv, IrqInv', PushSignal
    PROVE  RingInv' /\ RingStep
  <1> USE Known
  <1>1. PICK s \in LuaSignal : Goto(Frame(Main, "queue", s))
    BY DEF PushSignal
  <1>2. /\ Top.pc = "lua"
        /\ UNCHANGED <<signal_buffer, in_buffer, buffer_pos, taken, refused>>
    BY DEF PushSignal, At, ring
  <1> DEFINE f == Frame(Main, "queue", s)
  <1>3. f.pc = "queue" /\ f.sig = s /\ Goto(f)
    BY <1>1, Made
  <1>4. s \in Signal
    BY SizesAssumption DEF Signal
  <1> HIDE DEF f
  <1>5. refused \in BOOLEAN /\ in_buffer \in 0 .. MAX_SIGNALS
    BY DEF RingInv
  <1>6. RingInv' /\ Top' = f
    BY <1>2, <1>3, <1>4, <1>5, RingGoto, Gone
  <1> QED BY <1>2, <1>3, <1>6, Between

(* The handlers' other steps: the ring does not notice. *)
LEMMA HandlerRing ==
    ASSUME IrqInv, KeyInv, RingInv, IrqInv',
           ReadByte \/ ClearPrefixes \/ TimerTick \/ EoiSecondary \/ EoiPrimary
    PROVE  RingInv' /\ RingStep
  <1> USE Known
  <1>1. /\ UNCHANGED <<signal_buffer, in_buffer, buffer_pos, taken, refused>>
        /\ Top.pc \in {"read", "clear", "tick", "eoi_secondary", "eoi"}
    BY DEF ReadByte, ClearPrefixes, TimerTick, EoiSecondary, EoiPrimary, At, ring
  <1>2. refused \in BOOLEAN /\ in_buffer \in 0 .. MAX_SIGNALS
    BY DEF RingInv
  <1>3. ASSUME NEW pc \in {"eoi", "eoi_secondary", "iret"}, GotoPc(pc)
        PROVE  RingInv' /\ RingStep
    <2>1. RingInv' /\ Top'.pc = pc
      BY <1>1, <1>2, <1>3, RingGotoPc
    <2> QED BY <1>1, <2>1, Between
  <1>4. CASE ReadByte
    <2>1. CASE GotoPc("eoi")
      BY <1>3, <2>1
    <2>2. CASE ~GotoPc("eoi")
      <3>1. \E s : Goto(Frame(Keyboard, IF s = NoSignal THEN "clear" ELSE "queue", s))
        BY <1>4, <2>2 DEF ReadByte
      <3>2. PICK s : Goto(Frame(Keyboard, IF s = NoSignal THEN "clear" ELSE "queue", s))
        BY <3>1
      <3> DEFINE f == Frame(Keyboard, IF s = NoSignal THEN "clear" ELSE "queue", s)
      <3>3. f.pc = (IF s = NoSignal THEN "clear" ELSE "queue") /\ f.sig = s /\ Goto(f)
        BY <3>2, Made
      <3> HIDE DEF f
      <3>4. Top' = f
        BY <3>3, Gone
      <3>5. f.pc = "queue" => f.sig \in Signal
        BY <1>4, <3>3, <3>4, KeyRead DEF Signal
      <3>6. RingInv'
        BY <1>1, <1>2, <3>3, <3>5, RingGoto
      <3> QED BY <1>1, <3>3, <3>4, <3>6, Between
    <2> QED BY <2>1, <2>2
  <1>5. CASE ~ReadByte
    <2>1. \E pc \in {"eoi", "eoi_secondary", "iret"} : GotoPc(pc)
      BY <1>5 DEF ClearPrefixes, TimerTick, EoiSecondary, EoiPrimary
    <2> QED BY <1>3, <2>1
  <1> QED BY <1>4, <1>5

(* Taking an interrupt and returning from one, above a thread or handler     *)
(* that holds no lock on the ring.                                           *)
LEMMA TakeRing ==
    ASSUME IrqInv, RingInv, IrqInv', TakeInterrupt
    PROVE  RingInv' /\ RingStep
  <1> DEFINE f == Frame(Acknowledged, EntryOf(Acknowledged), NoSignal)
  <1>1. /\ stack' = Append(stack, f)
        /\ UNCHANGED <<signal_buffer, in_buffer, buffer_pos, taken, refused>>
    BY DEF TakeInterrupt, ring
  <1>2. f.pc \in {"read", "tick", "eoi"}
    BY Made DEF EntryOf
  <1>3. Top.pc \in Quiet \cup Unmasked
    BY Taken
  <1> HIDE DEF f
  <1>4. /\ Len(stack) \in Nat \ {0}
        /\ Len(stack') = Len(stack) + 1 /\ stack'[Len(stack) + 1] = f
        /\ \A i \in 1 .. Len(stack) : stack'[i] = stack[i]
    BY <1>1, Pushed, Runs DEF IrqInv
  <1>5. \A n \in Nat \ {0} : 1 \in 1 .. n /\ 1 .. n + 1 = (1 .. n) \cup {n + 1}
    OBVIOUS
  <1>6. 1 \in 1 .. Len(stack) /\ 1 .. Len(stack') = (1 .. Len(stack)) \cup {Len(stack) + 1}
    BY <1>4, <1>5, Zenon
  <1>7. Top' = f
    BY <1>4 DEF Top, Last
  <1>8. Lua' = Lua
    BY <1>4, <1>6 DEF Lua
  <1>9. \A i \in 1 .. Len(stack') :
            stack'[i].pc \in {"queue", "check", "copy"} => stack'[i].sig \in Signal
    <2>1. f.pc \notin {"queue", "check", "copy"}
      BY <1>2
    <2> QED BY <1>4, <1>6, <2>1, Zenon DEF RingInv
  <1>10. RingInv'
    BY <1>1, <1>2, <1>7, <1>8, <1>9 DEF RingInv
  <1> QED BY <1>1, <1>2, <1>3, <1>7, <1>10, Between DEF Quiet, Unmasked

LEMMA QuietWhenOn == IrqInv => Top.pc \in Quiet \cup Unmasked \/ eflags_if = FALSE
  BY Runs DEF IrqInv, Steady

LEMMA IretRing ==
    ASSUME IrqInv, RingInv, IrqInv', Iret
    PROVE  RingInv' /\ RingStep
  <1>1. /\ Top.pc = "iret" /\ stack' = Front(stack) /\ eflags_if' = TRUE
        /\ UNCHANGED <<signal_buffer, in_buffer, buffer_pos, taken, refused>>
    BY DEF Iret, At, ring
  <1>2. /\ Len(stack) \in Nat \ {0} /\ Top = stack[Len(stack)]
        /\ Top.who = Main <=> Len(stack) = 1
        /\ Steady(Top, eflags_if)
    BY Runs DEF IrqInv
  <1>3. Len(stack) # 1
    BY <1>1, <1>2 DEF Steady, Quiet, Sections
  <1>4. /\ Len(stack') = Len(stack) - 1
        /\ \A i \in 1 .. Len(stack) - 1 : stack'[i] = stack[i]
    BY <1>1, Popped DEF IrqInv
  <1>5. \A n \in Nat \ {0} : \A m : n # 1 /\ m = n - 1 =>
            1 \in 1 .. n - 1 /\ 1 .. m \subseteq 1 .. n /\ 1 .. m \subseteq 1 .. n - 1
    OBVIOUS
  <1>6. /\ 1 \in 1 .. Len(stack) - 1 /\ 1 .. Len(stack') \subseteq 1 .. Len(stack)
        /\ 1 .. Len(stack') \subseteq 1 .. Len(stack) - 1
    BY <1>2, <1>3, <1>4, <1>5, Zenon
  <1>7. Lua' = Lua
    BY <1>4, <1>6 DEF Lua
  <1>8. \A i \in 1 .. Len(stack') :
            stack'[i].pc \in {"queue", "check", "copy"} => stack'[i].sig \in Signal
    BY <1>4, <1>6, Zenon DEF RingInv
  <1>9. Top'.pc \notin {"count", "dequeue_count", "dequeue_advance", "copy"}
    <2>1. (IrqInv => Top.pc \in Quiet \cup Unmasked \/ eflags_if = FALSE)'
      BY QuietWhenOn, PTL
    <2> QED BY <1>1, <2>1 DEF Quiet, Unmasked
  <1>10. RingInv'
    BY <1>1, <1>7, <1>8, <1>9 DEF RingInv
  <1> QED BY <1>1, <1>9, <1>10, Between

(* Devices and stuttering touch neither the ring nor the stack. *)
LEMMA OtherRing ==
    ASSUME IrqInv, RingInv, IrqInv', Device \/ UNCHANGED vars
    PROVE  RingInv' /\ RingStep
  <1>1. UNCHANGED <<signal_buffer, in_buffer, buffer_pos, taken, refused, stack>>
    BY DEF Device, SendByte, PitTick, RtcTick, TypeKey, vars, ring
  <1>2. RingInv'
    BY <1>1, RingSame
  <1>3. Top' = Top
    BY <1>1 DEF Top
  <1> QED BY <1>1, <1>2, <1>3, AgreedBoth, Stutters DEF Agreed

LEMMA RingKeeps ==
    IrqInv /\ KeyInv /\ RingInv /\ IrqInv' /\ [Next]_vars => RingInv' /\ RingStep
  BY QueueRing, DequeueRing, PushRing, HandlerRing, TakeRing, IretRing, OtherRing
     DEF Next, Cpu, Handler

LEMMA RingInit == Init => RingInv /\ Ring!Init
  <1> SUFFICES ASSUME Init PROVE RingInv /\ Ring!Init
    OBVIOUS
  <1> DEFINE f == Frame(Main, "lua", NoSignal)
  <1>1. f.pc = "lua"
    BY Made
  <1> HIDE DEF f
  <1>2. stack = <<f>> /\ Len(<<f>>) = 1 /\ <<f>>[1] = f
    BY DEF Init, f
  <1>3. Top = f /\ Lua = f /\ \A i \in 1 .. Len(stack) : stack[i] = f
    BY <1>2 DEF Top, Last, Lua
  <1>4. /\ in_buffer = 0 /\ buffer_pos = 0 /\ taken = NoSignal /\ refused = FALSE
        /\ signal_buffer = [i \in Slot |-> NoSignal]
    BY DEF Init
  <1>5. /\ 0 \in 0 .. MAX_SIGNALS /\ 0 \in Slot
    BY SizesAssumption DEF Slot
  <1>6. refused \in BOOLEAN
    BY <1>4, Zenon
  <1>7. RingInv
    BY <1>1, <1>3, <1>4, <1>5, <1>6 DEF RingInv
  <1>8. Agreed
    BY <1>7, InitHolds, AgreedIs
  <1>9. CommittedCount = 0 /\ CommittedPos = 0
    BY <1>1, <1>3, <1>4, <1>8 DEF Agreed
  <1> QED BY <1>4, <1>7, <1>9 DEF Ring!Init, Ring!Slot, Slot

(* For any number of slots, any keys and lines: queue_signal and             *)
(* dequeue_signal, cut into machine steps and interrupted anywhere, do what  *)
(* SignalRing's one-step operations do.                                      *)
THEOREM RingIsAtomic == Spec => AtomicRing
  <1>1. Ring!Spec <=> Ring!Init /\ [][Ring!Next]_(Ring!vars)
    BY DEF Ring!Spec
  <1>2. IrqInv /\ KeyInv /\ RingInv /\ IrqInv' /\ [Next]_vars
            => RingInv' /\ [Ring!Next]_(Ring!vars)
    BY RingKeeps DEF RingStep
  <1> QED BY <1>1, <1>2, RingInit, IrqHolds, KeyHolds, PTL DEF Spec, AtomicRing
=============================================================================
