----------------------------- MODULE SignalIrq ------------------------------
(***************************************************************************)
(* The signal ring shared by Lua and the keyboard interrupt, machine step  *)
(* by machine step: the Lua thread in computer.pushSignal or pullSignal,   *)
(* the handlers of the PIT (line 0), the keyboard (1) and the RTC (8), the *)
(* interrupt flag that cli and sti change, and the interrupt controllers.  *)
(* The kernel has booted: ps2_init has set keyboard_address and switched   *)
(* scancode translation off, and rtc_init has set the RTC ticking.         *)
(*                                                                         *)
(* queue_signal executes sti before it returns, so the keyboard handler    *)
(* runs its last steps with interrupts on.  Only the controller's priority *)
(* keeps a second keyboard interrupt out, until the handler sends the end  *)
(* of interrupt: that is what the properties are about.                    *)
(***************************************************************************)
EXTENDS Pic, Ps2Decode, SequencesExt

CONSTANTS
    Main,           \* the thread Lua runs on
    MAX_SIGNALS,    \* slots of the ring
    LuaSignal,      \* signals Lua code pushes
    Key,            \* keys the user has
    Held,           \* keys held down from the start, their presses decoded and pulled
    MaxTyped        \* bound: key presses and releases in a behaviour

ASSUME SizesAssumption ==
    /\ MAX_SIGNALS \in Nat \ {0}
    /\ MaxTyped \in Nat
    /\ {1} \subseteq Line /\ Line \subseteq {0, 1, 8}
    /\ Main \notin 0 .. 15 /\ NoSignal \notin LuaSignal
    /\ Key \subseteq 0 .. 511 /\ \A raw \in Key : raw % 256 \notin {Extended, Break}
    /\ Held \subseteq Key
    /\ Nothing \notin 0 .. 255

VARIABLES
    signal_buffer, in_buffer, buffer_pos,   \* the ring of api/computer.c
    flags,      \* the static flag byte of ps2_interrupt, as a set
    eflags_if,  \* the processor's interrupt flag
    stack,      \* the Lua thread and the handlers running above it
    obf,        \* the byte in the PS/2 controller's output buffer
    rtc_flag,   \* the RTC's register C: set by a tick, cleared by reading it
    taken,      \* what the last dequeue_signal returned
    refused,    \* whether the last queue_signal is returning false
    wire,       \* bytes on their way from the keyboard
    down,       \* keys the user holds down
    lifted,     \* held keys whose modifier the release of its other key took away
    typed,      \* for each key event not decoded yet, the signals it may give
    presses,    \* number of key events so far
    due         \* timers whose period has elapsed

ring == <<signal_buffer, in_buffer, buffer_pos, taken, refused>>
keyboard == <<wire, down, lifted, typed, presses>>
vars == <<ring, flags, eflags_if, stack, obf, rtc_flag, irr, isr, keyboard, due>>

Pit == 0
Keyboard == 1
Rtc == 8
Timers == Line \cap {Pit, Rtc}

(* The modifiers and, on each side of the keyboard, the key of each.         *)
Modifiers == {"SHIFT", "CTRL", "ALT"}
KeysOf == [SHIFT |-> {\h12, \h59}, CTRL |-> {\h14, \h114}, ALT |-> {\h11, \h111}]
Together(raw) == UNION { KeysOf[m] : m \in {n \in Modifiers : raw \in KeysOf[n]} }

(* The modifiers the user means: those with a key held down that was pressed *)
(* after the last release of the modifier's other key.                       *)
latched == {m \in Modifiers : (down \cap KeysOf[m]) \ lifted # {}}

Slot == 0 .. MAX_SIGNALS - 1
AllKeySignals ==
    UNION { KeySignals(raw, f) : raw \in Key, f \in SUBSET {"BREAK", "SHIFT", "CTRL", "ALT"} }
Signal == (LuaSignal \cup AllKeySignals) \ {NoSignal}

(* An activation: whose it is, its next step, the signal in its hands. *)
Frame(who, pc, sig) == [who |-> who, pc |-> pc, sig |-> sig]

Init ==
    /\ signal_buffer = [i \in Slot |-> NoSignal]
    /\ in_buffer = 0 /\ buffer_pos = 0
    /\ taken = NoSignal /\ refused = FALSE
    /\ eflags_if = TRUE
    /\ stack = <<Frame(Main, "lua", NoSignal)>>
    /\ obf = Nothing /\ rtc_flag = FALSE
    /\ PicInit
    /\ wire = <<>> /\ down = Held /\ lifted = {} /\ typed = <<>> /\ presses = 0
    /\ flags = latched
    /\ due = Timers

-----------------------------------------------------------------------------
Top == Last(stack)

(* The processor takes a pending interrupt before the next instruction.      *)
Interrupted == eflags_if /\ Pending

At(pc) == ~Interrupted /\ Top.pc = pc

Goto(frame) == stack' = Front(stack) \o <<frame>>
GotoPc(pc) == Goto([Top EXCEPT !.pc = pc])

(* Progress of the Lua thread lets the timers come round again. *)
Progress == due' = IF Top.who = Main THEN Timers ELSE due

(* Where queue_signal returns to. *)
Caller == IF Top.who = Main THEN "lua" ELSE "clear"

-----------------------------------------------------------------------------
(* queue_signal, called from push_signal and from queue_key_signal. *)
CpuUnchanged == UNCHANGED <<flags, obf, rtc_flag, irr, isr, keyboard>>

(* Mutants: queue_signal without its cli; one that waits for room instead of *)
(* refusing; one that returns without the sti when it refuses.               *)
QueueCliForgotten ==
    /\ At("queue")
    /\ GotoPc("check") /\ Progress
    /\ UNCHANGED <<ring, eflags_if>> /\ CpuUnchanged

QueueCheckWaits ==
    /\ At("check")
    /\ GotoPc(IF in_buffer >= MAX_SIGNALS THEN "check" ELSE "copy") /\ Progress
    /\ UNCHANGED <<ring, eflags_if>> /\ CpuUnchanged

QueueFullForgetsSti ==
    /\ At("full")
    /\ GotoPc(Caller) /\ Progress
    /\ UNCHANGED <<ring, eflags_if>> /\ CpuUnchanged

QueueCli ==
    /\ At("queue")
    /\ eflags_if' = FALSE
    /\ GotoPc("check") /\ Progress
    /\ UNCHANGED ring /\ CpuUnchanged

QueueCheck ==
    /\ At("check")
    /\ GotoPc(IF in_buffer >= MAX_SIGNALS THEN "full" ELSE "copy") /\ Progress
    /\ refused' = (refused \/ in_buffer >= MAX_SIGNALS)
    /\ UNCHANGED <<signal_buffer, in_buffer, buffer_pos, taken, eflags_if>> /\ CpuUnchanged

QueueFull ==
    /\ At("full")
    /\ eflags_if' = TRUE
    /\ GotoPc(Caller) /\ Progress
    /\ UNCHANGED ring /\ CpuUnchanged

QueueCopy ==
    /\ At("copy")
    /\ signal_buffer' =
         [signal_buffer EXCEPT ![(buffer_pos + in_buffer) % MAX_SIGNALS] = Top.sig]
    /\ refused' = FALSE
    /\ GotoPc("count") /\ Progress
    /\ UNCHANGED <<in_buffer, buffer_pos, taken, eflags_if>> /\ CpuUnchanged

QueueCount ==
    /\ At("count")
    /\ in_buffer' = in_buffer + 1
    /\ GotoPc("sti") /\ Progress
    /\ UNCHANGED <<signal_buffer, buffer_pos, taken, refused, eflags_if>> /\ CpuUnchanged

QueueSti ==
    /\ At("sti")
    /\ eflags_if' = TRUE
    /\ GotoPc(Caller) /\ Progress
    /\ UNCHANGED ring /\ CpuUnchanged

QueueSignal ==
    QueueCli \/ QueueCheck \/ QueueFull \/ QueueCopy \/ QueueCount \/ QueueSti

-----------------------------------------------------------------------------
(* dequeue_signal, called from pull_signal; it looks at in_buffer before cli. *)
DequeueCheck ==
    /\ At("lua")
    /\ IF in_buffer = 0
       THEN taken' = NoSignal /\ UNCHANGED stack
       ELSE taken' = taken /\ GotoPc("dequeue_cli")
    /\ Progress
    /\ UNCHANGED <<signal_buffer, in_buffer, buffer_pos, refused, eflags_if>> /\ CpuUnchanged

DequeueCli ==
    /\ At("dequeue_cli")
    /\ eflags_if' = FALSE
    /\ GotoPc("dequeue_copy") /\ Progress
    /\ UNCHANGED ring /\ CpuUnchanged

DequeueCopy ==
    /\ At("dequeue_copy")
    /\ taken' = signal_buffer[buffer_pos]
    /\ GotoPc("dequeue_count") /\ Progress
    /\ UNCHANGED <<signal_buffer, in_buffer, buffer_pos, refused, eflags_if>> /\ CpuUnchanged

DequeueCount ==
    /\ At("dequeue_count")
    /\ in_buffer' = in_buffer - 1
    /\ GotoPc("dequeue_advance") /\ Progress
    /\ UNCHANGED <<signal_buffer, buffer_pos, taken, refused, eflags_if>> /\ CpuUnchanged

DequeueAdvance ==
    /\ At("dequeue_advance")
    /\ buffer_pos' = (buffer_pos + 1) % MAX_SIGNALS
    /\ GotoPc("dequeue_sti") /\ Progress
    /\ UNCHANGED <<signal_buffer, in_buffer, taken, refused, eflags_if>> /\ CpuUnchanged

DequeueSti ==
    /\ At("dequeue_sti")
    /\ eflags_if' = TRUE
    /\ GotoPc("lua") /\ Progress
    /\ UNCHANGED ring /\ CpuUnchanged

DequeueSignal ==
    DequeueCheck \/ DequeueCli \/ DequeueCopy \/ DequeueCount \/ DequeueAdvance \/ DequeueSti

(* computer.pushSignal builds a signal and calls queue_signal. *)
PushSignal ==
    /\ At("lua")
    /\ \E s \in LuaSignal : Goto(Frame(Main, "queue", s))
    /\ Progress
    /\ UNCHANGED <<ring, eflags_if>> /\ CpuUnchanged

-----------------------------------------------------------------------------
(* The processor acknowledges the interrupt and enters the stub through an   *)
(* interrupt gate, which clears the interrupt flag.                          *)
EntryOf(line) == CASE line = Keyboard -> "read" [] line = Rtc -> "tick" [] OTHER -> "eoi"

TakeInterrupt ==
    /\ Interrupted
    /\ Acknowledge
    /\ eflags_if' = FALSE
    /\ stack' = Append(stack, Frame(Acknowledged, EntryOf(Acknowledged), NoSignal))
    /\ UNCHANGED <<ring, flags, obf, rtc_flag, keyboard, due>>

(* ps2_interrupt up to its call of queue_signal: a prefix only sets its      *)
(* flag, any other byte is a key whose signal is queued if it has one.       *)
ReadByte ==
    /\ At("read")
    /\ obf' = Nothing
    /\ LET raw == RawCode(obf, flags)
           now == WithModifier(raw, flags)
       IN  \/ /\ obf = Break
              /\ flags' = flags \cup {"BREAK"} /\ GotoPc("eoi") /\ UNCHANGED typed
           \/ /\ obf = Extended
              /\ flags' = flags \cup {"EXT"} /\ GotoPc("eoi") /\ UNCHANGED typed
           \/ /\ obf \notin {Break, Extended}
              /\ flags' = now
              /\ typed' = IF typed = <<>> THEN typed ELSE Tail(typed)
              /\ \E s \in KeySignals(raw, now) :
                   Goto(Frame(Keyboard, IF s = NoSignal THEN "clear" ELSE "queue", s))
    /\ UNCHANGED <<ring, eflags_if, rtc_flag, irr, isr, wire, down, lifted, presses, due>>

(* Mutant: the release prefix survives its key. *)
ClearOnlyExt ==
    /\ At("clear")
    /\ flags' = flags \ {"EXT"}
    /\ GotoPc("eoi")
    /\ UNCHANGED <<ring, eflags_if, obf, rtc_flag, irr, isr, keyboard, due>>

ClearPrefixes ==
    /\ At("clear")
    /\ flags' = flags \ {"EXT", "BREAK"}
    /\ GotoPc("eoi")
    /\ UNCHANGED <<ring, eflags_if, obf, rtc_flag, irr, isr, keyboard, due>>

(* Mutants: register C is not read; the secondary is told nothing.          *)
TimerTickUnread ==
    /\ At("tick")
    /\ GotoPc("eoi_secondary")
    /\ UNCHANGED <<ring, flags, eflags_if, obf, rtc_flag, irr, isr, keyboard, due>>

EoiSecondaryForgotten ==
    /\ At("eoi_secondary")
    /\ GotoPc("eoi")
    /\ UNCHANGED <<ring, flags, eflags_if, obf, rtc_flag, irr, isr, keyboard, due>>

(* timer_tick reads register C, without which the RTC stays silent. *)
TimerTick ==
    /\ At("tick")
    /\ rtc_flag' = FALSE
    /\ GotoPc("eoi_secondary")
    /\ UNCHANGED <<ring, flags, eflags_if, obf, irr, isr, keyboard, due>>

EoiSecondary ==
    /\ At("eoi_secondary")
    /\ EndOfInterrupt(Secondary)
    /\ GotoPc("eoi")
    /\ UNCHANGED <<ring, flags, eflags_if, obf, rtc_flag, keyboard, due>>

EoiPrimary ==
    /\ At("eoi")
    /\ EndOfInterrupt(Primary)
    /\ GotoPc("iret")
    /\ UNCHANGED <<ring, flags, eflags_if, obf, rtc_flag, keyboard, due>>

(* sti; iret: sti takes effect only after the iret. *)
Iret ==
    /\ At("iret")
    /\ eflags_if' = TRUE
    /\ stack' = Front(stack)
    /\ UNCHANGED <<ring, flags, obf, rtc_flag, irr, isr, keyboard, due>>

Handler == ReadByte \/ ClearPrefixes \/ TimerTick \/ EoiSecondary \/ EoiPrimary \/ Iret

-----------------------------------------------------------------------------
(* The user presses a key (again, while it repeats) or releases one. *)
TypeKey(raw, up) ==
    /\ presses < MaxTyped
    /\ up => raw \in down
    /\ presses' = presses + 1
    /\ IF up
       THEN /\ down' = down \ {raw}
            /\ lifted' = (lifted \cup (down \cap Together(raw))) \ {raw}
       ELSE /\ down' = down \cup {raw}
            /\ lifted' = lifted \ Together(raw)
    /\ wire' = wire \o Scancodes(raw, up)
    /\ typed' = Append(typed, KeySignals(raw, latched' \cup (IF up THEN {"BREAK"} ELSE {})))
    /\ UNCHANGED <<ring, flags, eflags_if, stack, obf, rtc_flag, irr, isr, due>>

(* The controller takes the next byte once its buffer is free. *)
SendByte ==
    /\ wire # <<>> /\ obf = Nothing
    /\ obf' = Head(wire) /\ wire' = Tail(wire)
    /\ RaiseLine(Keyboard)
    /\ UNCHANGED <<ring, flags, eflags_if, stack, rtc_flag, isr, down, lifted, typed, presses, due>>

PitTick ==
    /\ Pit \in due
    /\ due' = due \ {Pit}
    /\ RaiseLine(Pit)
    /\ UNCHANGED <<ring, flags, eflags_if, stack, obf, rtc_flag, isr, keyboard>>

RtcTick ==
    /\ Rtc \in due /\ ~rtc_flag
    /\ due' = due \ {Rtc}
    /\ rtc_flag' = TRUE
    /\ RaiseLine(Rtc)
    /\ UNCHANGED <<ring, flags, eflags_if, stack, obf, isr, keyboard>>

Device == SendByte \/ PitTick \/ RtcTick \/ \E raw \in Key, up \in BOOLEAN : TypeKey(raw, up)

Cpu == QueueSignal \/ DequeueSignal \/ TakeInterrupt \/ Handler

Next == Cpu \/ PushSignal \/ Device

(* The processor never stops and the controller delivers what the keyboard   *)
(* sent.  Nothing makes Lua push a signal, the user type or a timer tick.    *)
Spec == Init /\ [][Next]_vars /\ WF_vars(Cpu) /\ WF_vars(SendByte)
-----------------------------------------------------------------------------
Lua == stack[1]
FramesAt(pcs) == {i \in DOMAIN stack : stack[i].pc \in pcs}

(* A queue_signal takes effect when it has filled its slot, a dequeue_signal *)
(* when it has copied the oldest one out.                                    *)
CommittedCount ==
    in_buffer + Cardinality(FramesAt({"count"})) - Cardinality(FramesAt({"dequeue_count"}))
CommittedPos ==
    IF Lua.pc \in {"dequeue_count", "dequeue_advance"}
    THEN (buffer_pos + 1) % MAX_SIGNALS ELSE buffer_pos

Ring == INSTANCE SignalRing
           WITH in_buffer <- CommittedCount, buffer_pos <- CommittedPos

(* The cli/sti sections make queue_signal and dequeue_signal atomic, with    *)
(* the Lua thread and the keyboard handler inside them in any interleaving,  *)
(* although dequeue_signal tests in_buffer before its cli: the ring behaves  *)
(* as SignalRing says, hence as a FIFO queue.                                *)
AtomicRing == Ring!Spec

(* The static flags of ps2_interrupt have one user at a time: an interrupt   *)
(* line is never entered again before its handler's end of interrupt, though *)
(* queue_signal turns interrupts on inside the keyboard handler.             *)
NotReentered ==
    \A i, j \in DOMAIN stack :
        stack[i].who = stack[j].who /\ "iret" \notin {stack[i].pc, stack[j].pc} => i = j

(* Each non-specific end of interrupt retires the line of the handler that   *)
(* sends it: what the controllers hold in service is what is on the stack.   *)
InService ==
    LET unfinished == {i \in 2 .. Len(stack) : stack[i].pc # "iret"}
        cascaded == {i \in unfinished : stack[i].who \in Secondary}
    IN  isr = {stack[i].who : i \in unfinished \ {j \in cascaded : stack[j].pc = "eoi"}}
              \cup (IF cascaded = {} THEN {} ELSE {Cascade})

(* Every path through queue_signal, dequeue_signal and the stub turns        *)
(* interrupts on again, refusals included: they are off only between a cli   *)
(* and its sti, or in a handler that has not been through queue_signal.      *)
InterruptsOn ==
    Top.pc \in {"lua", "queue", "dequeue_cli"} /\ Top.who = Main => eflags_if

(* Once all that was typed is decoded the flag byte holds the modifiers of   *)
(* the keys the user holds down, and no prefix is left over for the next key *)
(* - with one exception, which this pins: ps2_interrupt has one flag for the *)
(* two keys of a modifier, so that the release of one of them takes the      *)
(* modifier away from the other, held still, until one of them is pressed.   *)
FlagsFollowKeys ==
    typed = <<>> /\ FramesAt({"clear"}) = {} /\ (\A i \in DOMAIN stack :
            stack[i].who = Keyboard => stack[i].pc \in {"read", "eoi", "iret"})
        => flags = latched

(* Each key event comes out of the decoder once, in order, as the key signal *)
(* it stands for: right direction, right character table, right key code.    *)
KeysInOrder ==
    [][ Top.pc = "read" /\ Top'.pc \in {"queue", "clear"}
            => typed # <<>> /\ Top'.sig \in Head(typed) ]_vars

(* A byte the keyboard sent is read and an RTC tick served, so that the      *)
(* clock never stops: no end of interrupt is forgotten that would keep their *)
(* interrupts waiting, and no handler leaves its device unacknowledged.      *)
InterruptsServed == (obf # Nothing ~> obf = Nothing) /\ (rtc_flag ~> ~rtc_flag)

(* A push or pull that Lua called returns, whatever interrupts arrive. *)
CallsReturn == Lua.pc # "lua" ~> Lua.pc = "lua"
=============================================================================
