----------------------------- MODULE LuaSignals -----------------------------
(***************************************************************************)
(* push_signal, pull_signal and free_signal (api/computer.c): who owns the *)
(* memory a signal refers to.  A Lua signal has a name on the heap and, if *)
(* it has arguments, a registry key on the heap (new_uuid) under which the *)
(* Lua registry keeps them; a keyboard signal owns nothing.  Lua's calls   *)
(* may raise an error when memory runs out, which leaves the C function at *)
(* once.  Keyboard interrupts queue signals between any two steps.  The    *)
(* queue is the bounded FIFO that SignalRing is shown to implement.        *)
(***************************************************************************)
EXTENDS Eeprom

CONSTANTS
    Names,          \* names of Lua signals
    Keys,           \* values of new_uuid, enough to stay distinct
    Arguments,      \* sequences of arguments
    Capacity,       \* MAX_SIGNALS
    KeySignal       \* a keyboard signal

ASSUME LuaSignalsAssumption ==
    /\ Capacity \in Nat \ {0}
    /\ Cardinality(Keys) > Capacity + 1
    /\ \A arguments \in Arguments : arguments \in Seq(Range(arguments))

VARIABLES
    registry,       \* the Lua registry: tables of arguments by key
    queue,          \* the signal queue
    pc,             \* where push_signal or pull_signal is
    signal,         \* its local signal
    sent,           \* the name and arguments push_signal was called with
    returned,       \* what pull_signal has pushed for Lua so far
    out_of_memory   \* whether a call was ever left for want of memory

signals_vars == <<registry, queue, pc, signal, sent, returned, out_of_memory>>

NoSignal == [name |-> NULL, kind |-> "none", registry |-> NULL, size |-> 0, sent |-> <<>>]
Keyboard == [NoSignal EXCEPT !.name = KeySignal, !.kind = "SIG_KEYBOARD", !.sent = <<KeySignal, <<>> >>]

SignalsInit ==
    /\ EepromInit /\ registry = << >> /\ queue = <<>>
    /\ pc = "idle" /\ signal = NoSignal
    /\ sent = <<>> /\ returned = <<>> /\ out_of_memory = FALSE

(* luaL_error, or an error raised inside Lua: the C function is left as it   *)
(* stands, and what it has allocated stays allocated.                        *)
LuaError ==
    /\ pc' = "idle" /\ signal' = NoSignal
    /\ UNCHANGED <<heap, registry, queue, sent, returned>>

OutOfMemory == out_of_memory' = TRUE /\ LuaError

-----------------------------------------------------------------------------
(* What a signal owns. *)
BlocksOf(s) == IF s.kind = "SIG_LUA" THEN {s.name, s.registry} \ {NULL} ELSE {}
KeysOf(s) ==
    IF s.kind = "SIG_LUA" /\ s.registry # NULL /\ s.registry \in DOMAIN heap
    THEN {heap[s.registry]} ELSE {}

(* Mutant: the table stays in the registry. *)
FreeSignalTable(s) == heap' = Without(heap, BlocksOf(s)) /\ registry' = registry

FreeSignal(s) ==
    /\ heap' = Without(heap, BlocksOf(s))
    /\ registry' = Without(registry, KeysOf(s))

-----------------------------------------------------------------------------
(* push_signal.  The uuids of live keys are taken to be distinct, as the     *)
(* comment in the source relies on.  new_uuid halts if there is no memory.   *)
NewUuid(name, arguments) ==
    /\ pc = "idle"
    /\ IF Len(arguments) > 0
       THEN \E block \in Free, key \in Keys \ (DOMAIN registry \cup Range(heap)) :
                /\ Malloc(block, key)
                /\ signal' = [NoSignal EXCEPT !.registry = block]
       ELSE heap' = heap /\ signal' = NoSignal
    /\ pc' = "strdup" /\ sent' = <<name, arguments>>
    /\ UNCHANGED <<registry, queue, returned, out_of_memory>>

NewUuidHalts ==
    /\ pc = "idle" /\ Free = {}
    /\ pc' = "halted"
    /\ UNCHANGED <<heap, registry, queue, signal, sent, returned, out_of_memory>>

Strdup ==
    /\ pc = "strdup"
    /\ \E block \in Free :
           /\ Malloc(block, sent[1])
           /\ signal' = [name |-> block, kind |-> "SIG_LUA", registry |-> signal.registry,
                         size |-> Len(sent[2]), sent |-> sent]
    /\ pc' = "store"
    /\ UNCHANGED <<registry, queue, sent, returned, out_of_memory>>

StrdupFails == pc = "strdup" /\ OutOfMemory

(* The arguments, numbered from 0, in a new table of the registry. *)
Store ==
    /\ pc = "store"
    /\ registry' = IF signal.size > 0
                   THEN Bind(registry, heap[signal.registry],
                             [i \in 0 .. signal.size - 1 |-> sent[2][i + 1]])
                   ELSE registry
    /\ pc' = "queue"
    /\ UNCHANGED <<heap, queue, signal, sent, returned, out_of_memory>>

StoreFails == pc = "store" /\ signal.size > 0 /\ OutOfMemory

(* Mutant: free_signal is called in any case. *)
QueueThenFree ==
    /\ pc = "queue" /\ Len(queue) < Capacity
    /\ queue' = Append(queue, signal)
    /\ FreeSignal(signal)
    /\ pc' = "idle" /\ signal' = NoSignal
    /\ UNCHANGED <<sent, returned, out_of_memory>>

Queue ==
    /\ pc = "queue" /\ Len(queue) < Capacity
    /\ queue' = Append(queue, signal)
    /\ pc' = "idle" /\ signal' = NoSignal
    /\ UNCHANGED <<heap, registry, sent, returned, out_of_memory>>

TooManySignals ==
    /\ pc = "queue" /\ Len(queue) >= Capacity
    /\ FreeSignal(signal)
    /\ pc' = "idle" /\ signal' = NoSignal
    /\ UNCHANGED <<queue, sent, returned, out_of_memory>>

(* queue_key_signal in the keyboard interrupt, which ignores a full queue.   *)
KeyInterrupt ==
    /\ pc # "halted"
    /\ Len(queue) < Capacity
    /\ queue' = Append(queue, Keyboard)
    /\ UNCHANGED <<heap, registry, pc, signal, sent, returned, out_of_memory>>

-----------------------------------------------------------------------------
Dequeue ==
    /\ pc = "idle" /\ queue # <<>>
    /\ signal' = Head(queue) /\ queue' = Tail(queue)
    /\ returned' = <<>> /\ pc' = "push_name"
    /\ UNCHANGED <<heap, registry, sent, out_of_memory>>

PushName ==
    /\ pc = "push_name"
    /\ returned' = <<IF signal.kind = "SIG_LUA" THEN heap[signal.name] ELSE signal.name>>
    /\ pc' = "push_arguments"
    /\ UNCHANGED <<heap, registry, queue, signal, sent, out_of_memory>>

PushNameFails == pc = "push_name" /\ OutOfMemory

(* Mutant: the arguments are fetched from 1 on, as Lua counts. *)
PushArgumentsFromOne ==
    /\ pc = "push_arguments"
    /\ returned' = Append(returned,
           IF signal.size > 0
           THEN [i \in 1 .. signal.size |-> IF i \in DOMAIN registry[heap[signal.registry]]
                     THEN registry[heap[signal.registry]][i] ELSE NULL]
           ELSE <<>>)
    /\ pc' = "free_signal"
    /\ UNCHANGED <<heap, registry, queue, signal, sent, out_of_memory>>

(* A keyboard signal's four values are copied from the signal itself. *)
PushArguments ==
    /\ pc = "push_arguments"
    /\ returned' = Append(returned,
           IF signal.size > 0
           THEN [i \in 1 .. signal.size |-> registry[heap[signal.registry]][i - 1]]
           ELSE <<>>)
    /\ pc' = "free_signal"
    /\ UNCHANGED <<heap, registry, queue, signal, sent, out_of_memory>>

(* Lua has to allocate for the table's key or for the keyboard's address. *)
PushArgumentsFail ==
    /\ pc = "push_arguments" /\ (signal.size > 0 \/ signal.kind = "SIG_KEYBOARD")
    /\ OutOfMemory

Release ==
    /\ pc = "free_signal"
    /\ FreeSignal(signal)
    /\ pc' = "idle" /\ signal' = NoSignal
    /\ UNCHANGED <<queue, sent, returned, out_of_memory>>

PushSignal ==
    \/ \E name \in Names, arguments \in Arguments : NewUuid(name, arguments)
    \/ NewUuidHalts \/ Strdup \/ StrdupFails \/ Store \/ StoreFails \/ Queue \/ TooManySignals

PullSignal ==
    Dequeue \/ PushName \/ PushNameFails \/ PushArguments \/ PushArgumentsFail \/ Release

(* The eeprom's setData takes its memory from the same heap.                 *)
SetData ==
    /\ pc = "idle"
    /\ (\E string \in Stored : EepromSetData(string)) \/ EepromSetDataFails
    /\ UNCHANGED signals_vars

SignalsNext ==
    \/ (PushSignal \/ PullSignal \/ KeyInterrupt) /\ UNCHANGED eeprom_vars
    \/ SetData

SignalsSpec == SignalsInit /\ [][SignalsNext]_<<heap, eeprom_vars, signals_vars>>

-----------------------------------------------------------------------------
(* The signals alive: the queued ones, and that of the running call.         *)
Alive == [i \in 1 .. Len(queue) + 1 |-> IF i <= Len(queue) THEN queue[i] ELSE signal]

(* A signal alive refers to memory in use that still holds its own name and  *)
(* the key of its own arguments, and neither another signal nor the eeprom   *)
(* refers to it: nothing is freed early, freed twice or used after it was    *)
(* freed.                                                                    *)
SignalsOwn ==
    \A i \in DOMAIN Alive :
        LET s == Alive[i] IN
        /\ BlocksOf(s) \subseteq DOMAIN heap \ {data}
        /\ \A j \in DOMAIN Alive \ {i} : BlocksOf(s) \cap BlocksOf(Alive[j]) = {}
        /\ s.kind = "SIG_LUA" => heap[s.name] = s.sent[1]
        /\ s.kind = "SIG_LUA" /\ s.size > 0 /\ pc # "store" =>
               heap[s.registry] \in DOMAIN registry

(* Every block is some signal's or the eeprom's and every table in the       *)
(* registry some signal's, unless a call was left for want of memory:        *)
(* refusing a signal, with "too many signals", pulling one and setData leave *)
(* nothing behind.                                                           *)
LeaksOnlyOutOfMemory ==
    pc = "idle" /\ ~out_of_memory =>
        /\ DOMAIN heap = ({data} \ {NULL}) \cup UNION {BlocksOf(Alive[i]) : i \in DOMAIN Alive}
        /\ DOMAIN registry = UNION {KeysOf(Alive[i]) : i \in DOMAIN Alive}

(* What pull_signal is about to return are the name and the arguments, in    *)
(* order, that the signal was pushed with.                                   *)
PulledAsPushed == pc = "free_signal" => returned = signal.sent
=============================================================================
