---------------------------- MODULE LuaApiProofs ----------------------------
(***************************************************************************)
(* For any number of blocks and keys, any strings and arguments and a      *)
(* queue of any length: every signal alive owns its memory alone, whatever *)
(* allocation fails and whenever a key interrupts.  For any components and *)
(* methods: Lua reaches each method of each of them.  For any texts,       *)
(* encoded in any number of bytes: the unicode library cuts them between   *)
(* characters.                                                             *)
(***************************************************************************)
EXTENDS LuaApi, SequenceTheorems, WellFoundedInduction, TLAPS


(* What a signal refers to while it is built, queued or pulled. *)
Held(s) == IF s.kind = "SIG_KEYBOARD" THEN {} ELSE {s.name, s.registry} \ {NULL}
HasKey(s) == s.registry \in Held(s)

(* The parts of the invariant that are about one signal, or two, in a heap h *)
(* with the eeprom's block d and a registry whose keys are r.                *)
Good(h, d, s) ==
    /\ Held(s) \subseteq DOMAIN h \ {d}
    /\ s.kind = "SIG_LUA" =>
        /\ s.name # NULL /\ h[s.name] = s.sent[1]
        /\ s.size > 0 <=> s.registry # NULL
Filed(h, r, s) == s.kind = "SIG_LUA" /\ s.registry # NULL => h[s.registry] \in r
Apart(h, s, t) ==
    /\ Held(s) \cap Held(t) = {}
    /\ HasKey(s) /\ HasKey(t) => h[s.registry] # h[t.registry]

Pushed == {"SIG_LUA", "SIG_KEYBOARD"}

QueueOwns ==
    /\ \E S : queue \in Seq(S)
    /\ \A i \in 1 .. Len(queue) :
        /\ queue[i].kind \in Pushed
        /\ Good(heap, data, queue[i]) /\ Filed(heap, DOMAIN registry, queue[i])
        /\ Apart(heap, queue[i], signal)
        /\ \A j \in 1 .. Len(queue) : i # j => Apart(heap, queue[i], queue[j])

(* Until it is stored the key of the signal that is being pushed is in no    *)
(* table, and until the name is there the signal is of no kind.              *)
CallOwns ==
    /\ Good(heap, data, signal)
    /\ pc \in {"idle", "halted"} => signal = NoSignal
    /\ pc = "strdup" =>
        /\ signal.kind = "none" /\ signal.name = NULL
        /\ Len(sent[2]) > 0 <=> signal.registry # NULL
    /\ pc \notin {"idle", "halted", "strdup"} => signal.kind \in Pushed
    /\ pc = "store" => signal.kind = "SIG_LUA"
    /\ pc # "store" => Filed(heap, DOMAIN registry, signal)

EepromOwns == DOMAIN heap \subseteq Blocks /\ data \in DOMAIN heap \cup {NULL}

OwnInv == QueueOwns /\ CallOwns /\ EepromOwns

-----------------------------------------------------------------------------
(* What a signal holds depends on its blocks only. *)
LEMMA GoodFrame ==
    ASSUME NEW h, NEW d, NEW g, NEW e, NEW s, Good(h, d, s),
           \A x \in Held(s) : x \in DOMAIN g /\ x # e /\ g[x] = h[x]
    PROVE  Good(g, e, s)
BY DEF Good, Held

LEMMA FiledFrame ==
    ASSUME NEW h, NEW g, NEW r, NEW q, NEW s, Filed(h, r, s),
           \A x \in Held(s) : g[x] = h[x],
           HasKey(s) => h[s.registry] \notin r \ q
    PROVE  Filed(g, q, s)
BY DEF Filed, Held, HasKey

LEMMA ApartFrame ==
    ASSUME NEW h, NEW g, NEW s, NEW t, Apart(h, s, t),
           \A x \in Held(s) \cup Held(t) : g[x] = h[x]
    PROVE  Apart(g, s, t)
BY DEF Apart, HasKey

LEMMA NothingHeld ==
    /\ Held(NoSignal) = {} /\ Held(Keyboard) = {}
    /\ Keyboard.kind \in Pushed /\ NoSignal.kind = "none"
BY DEF Held, NoSignal, Keyboard, Pushed

LEMMA ApartFromNothing ==
    ASSUME NEW h, NEW d, NEW r, NEW s, NEW t, t \in {NoSignal, Keyboard}
    PROVE  Apart(h, s, t) /\ Apart(h, t, s) /\ Good(h, d, t) /\ Filed(h, r, t)
BY NothingHeld DEF Apart, Good, Filed, HasKey, Pushed, Keyboard, NoSignal

LEMMA MallocAdds ==
    ASSUME NEW block, NEW value, block \notin DOMAIN heap, Malloc(block, value)
    PROVE  /\ DOMAIN heap' = DOMAIN heap \cup {block} /\ heap'[block] = value
           /\ \A x \in DOMAIN heap : heap'[x] = heap[x]
BY DEF Malloc, Bind

LEMMA WithoutKeeps ==
    ASSUME NEW f, NEW K
    PROVE  /\ DOMAIN Without(f, K) = DOMAIN f \ K
           /\ \A x \in DOMAIN f \ K : Without(f, K)[x] = f[x]
BY DEF Without, Restrict

-----------------------------------------------------------------------------
(* A step that leaves the queue alone. *)
LEMMA QueueFrame ==
    ASSUME OwnInv, queue' = queue,
           NEW i \in 1 .. Len(queue),
           \A k \in 1 .. Len(queue) : \A x \in Held(queue[k]) :
               x \in DOMAIN heap' /\ x # data' /\ heap'[x] = heap[x],
           \A k \in 1 .. Len(queue) : HasKey(queue[k]) =>
               heap[queue[k].registry] \notin DOMAIN registry \ DOMAIN registry'
    PROVE  /\ queue[i].kind \in Pushed
           /\ Good(heap', data', queue[i]) /\ Filed(heap', DOMAIN registry', queue[i])
           /\ \A j \in 1 .. Len(queue) : i # j => Apart(heap', queue[i], queue[j])
  <1>1. queue[i].kind \in Pushed
    BY DEF OwnInv, QueueOwns
  <1>2. Good(heap', data', queue[i])
    BY GoodFrame DEF OwnInv, QueueOwns
  <1>3. Filed(heap', DOMAIN registry', queue[i])
    BY FiledFrame DEF OwnInv, QueueOwns
  <1>4. ASSUME NEW j \in 1 .. Len(queue), i # j PROVE Apart(heap', queue[i], queue[j])
    BY <1>4, ApartFrame DEF OwnInv, QueueOwns
  <1> QED BY <1>1, <1>2, <1>3, <1>4

LEMMA QueueStays ==
    ASSUME OwnInv, queue' = queue,
           \A k \in 1 .. Len(queue) : \A x \in Held(queue[k]) :
               x \in DOMAIN heap' /\ x # data' /\ heap'[x] = heap[x],
           \A k \in 1 .. Len(queue) : HasKey(queue[k]) =>
               heap[queue[k].registry] \notin DOMAIN registry \ DOMAIN registry',
           \A k \in 1 .. Len(queue) : Apart(heap', queue[k], signal')
    PROVE  QueueOwns'
  <1>1. \E S : queue' \in Seq(S)
    BY DEF OwnInv, QueueOwns
  <1>2. ASSUME NEW i \in 1 .. Len(queue)
        PROVE  /\ queue[i].kind \in Pushed
               /\ Good(heap', data', queue[i]) /\ Filed(heap', DOMAIN registry', queue[i])
               /\ \A j \in 1 .. Len(queue) : i # j => Apart(heap', queue[i], queue[j])
    BY QueueFrame
  <1>3. ASSUME NEW i \in 1 .. Len(queue')
        PROVE  /\ queue'[i].kind \in Pushed
               /\ Good(heap', data', queue'[i]) /\ Filed(heap', DOMAIN registry', queue'[i])
               /\ Apart(heap', queue'[i], signal')
               /\ \A j \in 1 .. Len(queue') : i # j => Apart(heap', queue'[i], queue'[j])
    BY <1>2
  <1> QED BY <1>1, <1>3 DEF QueueOwns

(* The blocks of queued signals are in use, and are not the eeprom's. *)
LEMMA QueueInUse ==
    ASSUME OwnInv, NEW i \in 1 .. Len(queue)
    PROVE  \A x \in Held(queue[i]) : x \in DOMAIN heap /\ x # data /\ x # NULL
BY DEF OwnInv, QueueOwns, Good, Held

-----------------------------------------------------------------------------
(* push_signal *)
LEMMA NewUuidOwns ==
    ASSUME OwnInv, NEW name, NEW arguments, NewUuid(name, arguments), UNCHANGED eeprom_vars
    PROVE  OwnInv'
  <1>1. /\ signal = NoSignal /\ queue' = queue /\ registry' = registry /\ data' = data
        /\ pc' = "strdup" /\ sent' = <<name, arguments>>
    BY DEF OwnInv, CallOwns, NewUuid, eeprom_vars
  <1>2. CASE ~(Len(arguments) > 0)
    <2>1. heap' = heap /\ signal' = NoSignal
      BY <1>2 DEF NewUuid
    <2>2. QueueOwns' /\ EepromOwns'
      <3>1. \A k \in 1 .. Len(queue) : Apart(heap', queue[k], signal')
        BY <2>1, ApartFromNothing
      <3>2. QueueOwns'
        BY <1>1, <2>1, <3>1, QueueInUse, QueueStays
      <3> QED BY <1>1, <2>1, <3>2 DEF OwnInv, EepromOwns
    <2>3. CallOwns'
      BY <1>1, <1>2, <2>1, ApartFromNothing DEF CallOwns, NoSignal, Pushed
    <2> QED BY <2>2, <2>3 DEF OwnInv
  <1>3. CASE Len(arguments) > 0
    <2>1. PICK block \in Free, key \in Keys \ (DOMAIN registry \cup Range(heap)) :
              Malloc(block, key) /\ signal' = [NoSignal EXCEPT !.registry = block]
      BY <1>3 DEF NewUuid
    <2>2. block \notin DOMAIN heap /\ block \in Blocks /\ block # NULL /\ block # data
      BY EepromAssumption DEF Free, OwnInv, EepromOwns
    <2>3. /\ DOMAIN heap' = DOMAIN heap \cup {block} /\ heap'[block] = key
          /\ \A x \in DOMAIN heap : heap'[x] = heap[x]
      BY <2>1, <2>2, MallocAdds
    <2>4. /\ signal'.registry = block /\ signal'.name = NULL /\ signal'.kind = "none"
          /\ Held(signal') = {block}
      BY <2>1, <2>2 DEF NoSignal, Held
    <2>5. ASSUME NEW k \in 1 .. Len(queue) PROVE Apart(heap', queue[k], signal')
      <3>1. \A x \in Held(queue[k]) : x \in DOMAIN heap /\ heap'[x] = heap[x]
        BY <2>3, QueueInUse
      <3>2. HasKey(queue[k]) => heap[queue[k].registry] # key
        BY <2>1, <3>1 DEF HasKey, Range
      <3> QED BY <2>2, <2>3, <2>4, <3>1, <3>2 DEF Apart, HasKey
    <2>6. QueueOwns'
      BY <1>1, <2>3, <2>5, QueueInUse, QueueStays
    <2>7. CallOwns'
      BY <1>1, <1>3, <2>2, <2>3, <2>4 DEF CallOwns, Good, Filed, HasKey
    <2> QED BY <1>1, <2>2, <2>3, <2>6, <2>7 DEF OwnInv, EepromOwns
  <1> QED BY <1>2, <1>3

LEMMA StrdupOwns ==
    ASSUME OwnInv, Strdup, UNCHANGED eeprom_vars
    PROVE  OwnInv'
  <1>1. /\ signal.kind = "none" /\ signal.name = NULL /\ queue' = queue /\ registry' = registry
        /\ Len(sent[2]) > 0 <=> signal.registry # NULL
        /\ data' = data /\ pc' = "store" /\ sent' = sent /\ Good(heap, data, signal)
    BY DEF OwnInv, CallOwns, Strdup, eeprom_vars
  <1>2. PICK block \in Free :
            /\ Malloc(block, sent[1])
            /\ signal' = [name |-> block, kind |-> "SIG_LUA", registry |-> signal.registry,
                          size |-> Len(sent[2]), sent |-> sent]
    BY DEF Strdup
  <1>3. block \notin DOMAIN heap /\ block \in Blocks /\ block # NULL /\ block # data
    BY EepromAssumption DEF Free, OwnInv, EepromOwns
  <1>4. /\ DOMAIN heap' = DOMAIN heap \cup {block} /\ heap'[block] = sent[1]
        /\ \A x \in DOMAIN heap : heap'[x] = heap[x]
    BY <1>2, <1>3, MallocAdds
  <1>5. /\ Held(signal') = Held(signal) \cup {block} /\ signal'.registry = signal.registry
        /\ Held(signal) \subseteq DOMAIN heap \ {data}
    BY <1>1, <1>2, <1>3 DEF Held, Good
  <1>6. ASSUME NEW k \in 1 .. Len(queue) PROVE Apart(heap', queue[k], signal')
    <2>1. \A x \in Held(queue[k]) : x \in DOMAIN heap /\ heap'[x] = heap[x]
      BY <1>4, QueueInUse
    <2>2. Apart(heap, queue[k], signal)
      BY DEF OwnInv, QueueOwns
    <2>3. HasKey(signal') => HasKey(signal) /\ heap'[signal.registry] = heap[signal.registry]
      BY <1>1, <1>3, <1>4, <1>5 DEF HasKey, Held
    <2> QED BY <1>3, <1>5, <2>1, <2>2, <2>3 DEF Apart, HasKey
  <1>7. QueueOwns'
    BY <1>1, <1>4, <1>6, QueueInUse, QueueStays
  <1>8. CallOwns'
    BY <1>1, <1>2, <1>3, <1>4, <1>5 DEF CallOwns, Good, Pushed
  <1> QED BY <1>1, <1>3, <1>4, <1>7, <1>8 DEF OwnInv, EepromOwns

LEMMA StoreOwns ==
    ASSUME OwnInv, Store, UNCHANGED eeprom_vars
    PROVE  OwnInv'
  <1>1. /\ signal.kind \in Pushed /\ UNCHANGED <<heap, queue, signal, sent, data>>
        /\ pc' = "queue" /\ Good(heap, data, signal)
    BY DEF OwnInv, CallOwns, Store, eeprom_vars
  <1>2. DOMAIN registry' = IF signal.size > 0
                           THEN DOMAIN registry \cup {heap[signal.registry]} ELSE DOMAIN registry
    BY DEF Store, Bind
  <1>3. Filed(heap, DOMAIN registry', signal)
    BY <1>1, <1>2 DEF Good, Filed
  <1>4. \A k \in 1 .. Len(queue) : Apart(heap', queue[k], signal')
    BY <1>1 DEF OwnInv, QueueOwns
  <1>5. QueueOwns'
    BY <1>1, <1>2, <1>4, QueueInUse, QueueStays
  <1>6. CallOwns'
    BY <1>1, <1>3 DEF CallOwns
  <1> QED BY <1>1, <1>5, <1>6 DEF OwnInv, EepromOwns

(* A step that touches no memory, and keeps the signal or drops it. *)
LEMMA CallMoves ==
    ASSUME OwnInv, UNCHANGED <<heap, registry, queue, data>>,
           \/ signal' = signal /\ pc' = "halted" /\ pc = "idle"
           \/ /\ signal' = signal /\ pc \in {"push_name", "push_arguments"}
              /\ pc' \in {"push_arguments", "free_signal"}
           \/ signal' = NoSignal /\ pc' = "idle"
    PROVE  OwnInv'
  <1>1. \A k \in 1 .. Len(queue) : Apart(heap', queue[k], signal')
    BY ApartFromNothing DEF OwnInv, QueueOwns
  <1>2. QueueOwns'
    BY <1>1, QueueInUse, QueueStays
  <1>3. Good(heap', data', signal') /\ Filed(heap', DOMAIN registry', signal')
    BY ApartFromNothing DEF OwnInv, CallOwns
  <1>4. pc' \in {"idle", "halted"} => signal' = NoSignal
    BY DEF OwnInv, CallOwns
  <1>5. pc' \notin {"idle", "halted"} => signal'.kind \in Pushed /\ pc' # "strdup"
    BY DEF OwnInv, CallOwns
  <1>6. CallOwns'
    BY <1>3, <1>4, <1>5 DEF CallOwns
  <1> QED BY <1>2, <1>6 DEF OwnInv, EepromOwns

(* free_signal spares what the others hold. *)
LEMMA FreeOwns ==
    ASSUME OwnInv, FreeSignal(signal), signal.kind \in Pushed,
           signal' = NoSignal, pc' = "idle", UNCHANGED <<queue, data>>
    PROVE  OwnInv'
  <1>1. /\ DOMAIN heap' = DOMAIN heap \ BlocksOf(signal)
        /\ \A x \in DOMAIN heap \ BlocksOf(signal) : heap'[x] = heap[x]
        /\ DOMAIN registry' = DOMAIN registry \ KeysOf(signal)
    BY WithoutKeeps DEF FreeSignal
  <1>2. BlocksOf(signal) = Held(signal) /\ Held(signal) \subseteq DOMAIN heap \ {data}
    BY DEF BlocksOf, Held, Pushed, OwnInv, CallOwns, Good
  <1>3. ASSUME NEW k \in 1 .. Len(queue)
        PROVE  /\ \A x \in Held(queue[k]) : x \in DOMAIN heap' /\ x # data' /\ heap'[x] = heap[x]
               /\ HasKey(queue[k]) => heap[queue[k].registry] \notin KeysOf(signal)
    <2>1. Apart(heap, queue[k], signal)
      BY DEF OwnInv, QueueOwns
    <2>2. KeysOf(signal) = IF HasKey(signal) THEN {heap[signal.registry]} ELSE {}
      BY <1>2 DEF KeysOf, HasKey, Held, Pushed
    <2> QED BY <1>1, <1>2, <2>1, <2>2, QueueInUse DEF Apart
  <1>4. QueueOwns'
    <2>1. \A k \in 1 .. Len(queue) : Apart(heap', queue[k], signal')
      BY ApartFromNothing
    <2> QED BY <1>1, <1>3, <2>1, QueueStays
  <1>5. CallOwns'
    BY ApartFromNothing DEF CallOwns
  <1>6. EepromOwns'
    BY <1>1, <1>2 DEF OwnInv, EepromOwns
  <1> QED BY <1>4, <1>5, <1>6 DEF OwnInv

(* One more signal at the end of the queue. *)
LEMMA AppendOwns ==
    ASSUME OwnInv, NEW s, queue' = Append(queue, s), UNCHANGED <<heap, registry, data>>,
           s.kind \in Pushed, Good(heap, data, s), Filed(heap, DOMAIN registry, s),
           \A k \in 1 .. Len(queue) : /\ Apart(heap, queue[k], s) /\ Apart(heap, s, queue[k])
                                      /\ Apart(heap, queue[k], signal'),
           Apart(heap, s, signal')
    PROVE  QueueOwns'
  <1>1. PICK S : queue \in Seq(S)
    BY DEF OwnInv, QueueOwns
  <1>2. /\ queue' \in Seq(S \cup {s}) /\ Len(queue) \in Nat /\ Len(queue') = Len(queue) + 1
        /\ \A i \in 1 .. Len(queue) : queue'[i] = queue[i]
        /\ queue'[Len(queue) + 1] = s
    <2>1. queue \in Seq(S \cup {s}) /\ s \in S \cup {s} /\ Len(queue) \in Nat
      BY <1>1, SeqMonotonic, LenProperties
    <2> QED BY <2>1, AppendProperties
  <1>3. ASSUME NEW i \in 1 .. Len(queue')
        PROVE  /\ queue'[i].kind \in Pushed
               /\ Good(heap', data', queue'[i]) /\ Filed(heap', DOMAIN registry', queue'[i])
               /\ Apart(heap', queue'[i], signal')
               /\ \A j \in 1 .. Len(queue') : i # j => Apart(heap', queue'[i], queue'[j])
    <2>1. \A j \in 1 .. Len(queue') : j \in 1 .. Len(queue) \/ j = Len(queue) + 1
      BY <1>2
    <2>2. CASE i \in 1 .. Len(queue)
      BY <1>2, <2>1, <2>2 DEF OwnInv, QueueOwns
    <2>3. CASE i = Len(queue) + 1
      BY <1>2, <2>1, <2>3
    <2> QED BY <2>1, <2>2, <2>3
  <1> QED BY <1>2, <1>3 DEF QueueOwns

LEMMA QueueingOwns ==
    ASSUME OwnInv, Queue, UNCHANGED eeprom_vars
    PROVE  OwnInv'
  <1>1. /\ pc = "queue" /\ queue' = Append(queue, signal) /\ signal' = NoSignal /\ pc' = "idle"
        /\ UNCHANGED <<heap, registry, data>>
    BY DEF Queue, eeprom_vars
  <1>2. signal.kind \in Pushed /\ Good(heap, data, signal) /\ Filed(heap, DOMAIN registry, signal)
    BY <1>1 DEF OwnInv, CallOwns
  <1>3. ASSUME NEW k \in 1 .. Len(queue)
        PROVE  Apart(heap, queue[k], signal) /\ Apart(heap, signal, queue[k])
    BY DEF OwnInv, QueueOwns, Apart
  <1>4. QueueOwns'
    BY <1>1, <1>2, <1>3, ApartFromNothing, AppendOwns
  <1>5. CallOwns'
    BY <1>1, ApartFromNothing DEF CallOwns
  <1> QED BY <1>1, <1>4, <1>5 DEF OwnInv, EepromOwns

LEMMA KeyInterruptOwns ==
    ASSUME OwnInv, KeyInterrupt, UNCHANGED eeprom_vars
    PROVE  OwnInv'
  <1>1. queue' = Append(queue, Keyboard) /\ UNCHANGED <<heap, registry, data, pc, signal, sent>>
    BY DEF KeyInterrupt, eeprom_vars
  <1>2. \A k \in 1 .. Len(queue) : Apart(heap, queue[k], signal')
    BY <1>1 DEF OwnInv, QueueOwns
  <1>3. QueueOwns'
    BY <1>1, <1>2, NothingHeld, ApartFromNothing, AppendOwns
  <1>4. CallOwns'
    BY <1>1 DEF OwnInv, CallOwns
  <1> QED BY <1>1, <1>3, <1>4 DEF OwnInv, EepromOwns

-----------------------------------------------------------------------------
(* pull_signal takes the oldest signal over from the queue. *)
LEMMA DequeueOwns ==
    ASSUME OwnInv, Dequeue, UNCHANGED eeprom_vars
    PROVE  OwnInv'
  <1>1. /\ queue # <<>> /\ signal' = Head(queue) /\ queue' = Tail(queue)
        /\ pc' = "push_name" /\ UNCHANGED <<heap, registry, sent, data>>
    BY DEF Dequeue, eeprom_vars
  <1>2. PICK S : queue \in Seq(S)
    BY DEF OwnInv, QueueOwns
  <1>3. /\ Len(queue) \in Nat /\ 1 \in 1 .. Len(queue) /\ signal' = queue[1]
        /\ queue' \in Seq(S) /\ Len(queue') = Len(queue) - 1
        /\ \A i \in 1 .. Len(queue') : i + 1 \in 2 .. Len(queue) /\ queue'[i] = queue[i + 1]
    BY <1>1, <1>2, EmptySeq, LenProperties, HeadTailProperties
  <1>4. ASSUME NEW i \in 1 .. Len(queue')
        PROVE  /\ queue'[i].kind \in Pushed
               /\ Good(heap', data', queue'[i]) /\ Filed(heap', DOMAIN registry', queue'[i])
               /\ Apart(heap', queue'[i], signal')
               /\ \A j \in 1 .. Len(queue') : i # j => Apart(heap', queue'[i], queue'[j])
    <2>1. \A j \in 1 .. Len(queue') : j + 1 \in 1 .. Len(queue) /\ j + 1 # 1 /\ j \in Nat
      BY <1>3
    <2>2. \A j \in 1 .. Len(queue') : i # j => i + 1 # j + 1
      BY <2>1
    <2> QED BY <1>1, <1>3, <2>1, <2>2 DEF OwnInv, QueueOwns
  <1>5. QueueOwns'
    BY <1>3, <1>4 DEF QueueOwns
  <1>6. CallOwns'
    BY <1>1, <1>3 DEF OwnInv, QueueOwns, CallOwns
  <1> QED BY <1>1, <1>5, <1>6 DEF OwnInv, EepromOwns

-----------------------------------------------------------------------------
(* setData may take back the block it has just freed, and no other one. *)
LEMMA SetDataOwns ==
    ASSUME OwnInv, SetData
    PROVE  OwnInv'
  <1> DEFINE rest == Without(heap, {data})
  <1>1. UNCHANGED signals_vars /\ pc = "idle" /\ signal = NoSignal
    BY DEF SetData, OwnInv, CallOwns
  <1>2. DOMAIN rest = DOMAIN heap \ {data} /\ \A x \in DOMAIN heap \ {data} : rest[x] = heap[x]
    BY WithoutKeeps
  <1>3. /\ DOMAIN heap' \subseteq Blocks /\ data' \in DOMAIN heap' \cup {NULL}
        /\ \A x \in DOMAIN heap \ {data} :
               x # NULL => x \in DOMAIN heap' /\ x # data' /\ heap'[x] = heap[x]
    <2>1. ASSUME NEW string, EepromSetData(string)
          PROVE  /\ DOMAIN heap' \subseteq Blocks /\ data' \in DOMAIN heap' \cup {NULL}
                 /\ \A x \in DOMAIN heap \ {data} :
                        x # NULL => x \in DOMAIN heap' /\ x # data' /\ heap'[x] = heap[x]
      <3>1. PICK block \in Blocks \ DOMAIN rest :
                heap' = Bind(rest, block, CString(string)) /\ data' = block
        BY <2>1 DEF EepromSetData
      <3>2. /\ DOMAIN heap' = DOMAIN rest \cup {block}
            /\ \A x \in DOMAIN rest : x # block => heap'[x] = rest[x]
        BY <3>1 DEF Bind
      <3> HIDE DEF rest
      <3> QED BY <1>2, <3>1, <3>2 DEF OwnInv, EepromOwns
    <2>2. CASE EepromSetDataFails
      BY <1>2, <2>2 DEF EepromSetDataFails, OwnInv, EepromOwns
    <2> QED BY <2>1, <2>2 DEF SetData
  <1>4. \A k \in 1 .. Len(queue) : \A x \in Held(queue[k]) :
            x \in DOMAIN heap' /\ x # data' /\ heap'[x] = heap[x]
    BY <1>3, QueueInUse
  <1>5. QueueOwns'
    <2>1. \A k \in 1 .. Len(queue) : Apart(heap', queue[k], signal')
      BY <1>1, ApartFromNothing DEF signals_vars
    <2> QED BY <1>1, <1>4, <2>1, QueueStays DEF signals_vars
  <1>6. CallOwns'
    BY <1>1, ApartFromNothing DEF CallOwns, signals_vars
  <1> QED BY <1>3, <1>5, <1>6 DEF OwnInv, EepromOwns

-----------------------------------------------------------------------------
LEMMA SignalsBegin == SignalsInit => OwnInv
  <1> SUFFICES ASSUME SignalsInit PROVE OwnInv
    OBVIOUS
  <1>1. /\ DOMAIN heap = {} /\ queue = <<>> /\ queue \in Seq({}) /\ Len(queue) = 0
        /\ data = NULL /\ signal = NoSignal /\ pc = "idle"
    BY EmptySeq DEF SignalsInit, EepromInit
  <1>2. QueueOwns
    BY <1>1 DEF QueueOwns
  <1>3. CallOwns
    BY <1>1, ApartFromNothing DEF CallOwns
  <1> QED BY <1>1, <1>2, <1>3 DEF OwnInv, EepromOwns

LEMMA SignalsStep == OwnInv /\ SignalsNext => OwnInv'
  <1> SUFFICES ASSUME OwnInv, SignalsNext PROVE OwnInv'
    OBVIOUS
  <1>1. CASE PushSignal /\ UNCHANGED eeprom_vars
    <2>1. ASSUME NEW name, NEW arguments, NewUuid(name, arguments) PROVE OwnInv'
      BY <1>1, <2>1, NewUuidOwns
    <2>2. CASE NewUuidHalts
      BY <1>1, <2>2, CallMoves DEF NewUuidHalts, eeprom_vars
    <2>3. CASE Strdup
      BY <1>1, <2>3, StrdupOwns
    <2>4. CASE StrdupFails \/ StoreFails
      BY <1>1, <2>4, CallMoves DEF StrdupFails, StoreFails, OutOfMemory, LuaError, eeprom_vars
    <2>5. CASE Store
      BY <1>1, <2>5, StoreOwns
    <2>6. CASE Queue
      BY <1>1, <2>6, QueueingOwns
    <2>7. CASE TooManySignals
      <3>1. signal.kind \in Pushed
        BY <2>7 DEF TooManySignals, OwnInv, CallOwns
      <3> QED BY <1>1, <2>7, <3>1, FreeOwns DEF TooManySignals, eeprom_vars
    <2> QED BY <1>1, <2>1, <2>2, <2>3, <2>4, <2>5, <2>6, <2>7 DEF PushSignal
  <1>2. CASE PullSignal /\ UNCHANGED eeprom_vars
    <2>1. CASE Dequeue
      BY <1>2, <2>1, DequeueOwns
    <2>2. CASE PushName \/ PushArguments
      BY <1>2, <2>2, CallMoves DEF PushName, PushArguments, eeprom_vars
    <2>3. CASE PushNameFails \/ PushArgumentsFail
      BY <1>2, <2>3, CallMoves DEF PushNameFails, PushArgumentsFail, OutOfMemory, LuaError, eeprom_vars
    <2>4. CASE Release
      <3>1. signal.kind \in Pushed
        BY <2>4 DEF Release, OwnInv, CallOwns
      <3> QED BY <1>2, <2>4, <3>1, FreeOwns DEF Release, eeprom_vars
    <2> QED BY <1>2, <2>1, <2>2, <2>3, <2>4 DEF PullSignal
  <1>3. CASE KeyInterrupt /\ UNCHANGED eeprom_vars
    BY <1>3, KeyInterruptOwns
  <1>4. CASE SetData
    BY <1>4, SetDataOwns
  <1> QED BY <1>1, <1>2, <1>3, <1>4 DEF SignalsNext

LEMMA OwnStep ==
    OwnInv /\ [SignalsNext]_<<heap, eeprom_vars, signals_vars>> => OwnInv'
  <1>1. OwnInv /\ UNCHANGED <<heap, eeprom_vars, signals_vars>> => OwnInv'
    BY DEF OwnInv, QueueOwns, CallOwns, EepromOwns, eeprom_vars, signals_vars
  <1> QED BY <1>1, SignalsStep

LEMMA OwnedAlone == OwnInv => SignalsOwn
  <1> SUFFICES ASSUME OwnInv PROVE SignalsOwn
    OBVIOUS
  <1>1. PICK S : queue \in Seq(S)
    BY DEF OwnInv, QueueOwns
  <1>2. /\ Len(queue) \in Nat /\ DOMAIN Alive = 1 .. Len(queue) + 1
        /\ \A i \in 1 .. Len(queue) : Alive[i] = queue[i]
        /\ Alive[Len(queue) + 1] = signal
        /\ \A i \in DOMAIN Alive : i \in 1 .. Len(queue) \/ i = Len(queue) + 1
    BY <1>1, LenProperties DEF Alive
  <1>3. ASSUME NEW i \in DOMAIN Alive
        PROVE  /\ Good(heap, data, Alive[i])
               /\ pc # "store" => Filed(heap, DOMAIN registry, Alive[i])
    BY <1>2 DEF OwnInv, QueueOwns, CallOwns
  <1>4. ASSUME NEW i \in DOMAIN Alive, NEW j \in DOMAIN Alive \ {i}
        PROVE  Held(Alive[i]) \cap Held(Alive[j]) = {}
    BY <1>2 DEF OwnInv, QueueOwns, Apart
  <1>5. \A s : BlocksOf(s) \subseteq Held(s)
    BY DEF BlocksOf, Held
  <1>6. ASSUME NEW i \in DOMAIN Alive
        PROVE  /\ BlocksOf(Alive[i]) \subseteq DOMAIN heap \ {data}
               /\ Alive[i].kind = "SIG_LUA" => heap[Alive[i].name] = Alive[i].sent[1]
               /\ Alive[i].kind = "SIG_LUA" /\ Alive[i].size > 0 /\ pc # "store" =>
                      heap[Alive[i].registry] \in DOMAIN registry
    BY <1>3, <1>5 DEF Good, Filed
  <1>7. ASSUME NEW i \in DOMAIN Alive, NEW j \in DOMAIN Alive \ {i}
        PROVE  BlocksOf(Alive[i]) \cap BlocksOf(Alive[j]) = {}
    BY <1>4, <1>5
  <1> QED BY <1>6, <1>7 DEF SignalsOwn

(* For any memory, any strings and any length of the queue, through every    *)
(* failure and interrupt: no signal alive refers to memory that was freed or *)
(* that another one, or the eeprom, has.                                     *)
THEOREM SignalsOwnAlone == SignalsSpec => []SignalsOwn
  BY SignalsBegin, OwnStep, OwnedAlone, PTL DEF SignalsSpec

-----------------------------------------------------------------------------
(* getData *)
LEMMA DataStays ==
    ASSUME OwnInv, DataKept, UNCHANGED eeprom_vars,
           data # NULL => data \in DOMAIN heap' /\ heap'[data] = heap[data]
    PROVE  DataKept'
BY DEF DataKept, EepromGetData, eeprom_vars

LEMMA DataStep == OwnInv /\ DataKept /\ SignalsNext => DataKept'
  <1> SUFFICES ASSUME OwnInv, DataKept, SignalsNext PROVE DataKept'
    OBVIOUS
  <1> USE DEF DataKept
  <1>1. ASSUME UNCHANGED eeprom_vars, UNCHANGED heap PROVE DataKept'
    BY <1>1, DataStays
  <1>2. ASSUME UNCHANGED eeprom_vars, NEW block \in Free, NEW value, Malloc(block, value)
        PROVE  DataKept'
    <2>1. \A x \in DOMAIN heap : x \in DOMAIN heap' /\ heap'[x] = heap[x]
      BY <1>2, MallocAdds DEF Free
    <2> QED BY <1>2, <2>1, DataStays
  <1>3. ASSUME UNCHANGED eeprom_vars, FreeSignal(signal) PROVE DataKept'
    <2>1. data \notin BlocksOf(signal)
      BY DEF BlocksOf, Held, OwnInv, CallOwns, Good
    <2>2. /\ DOMAIN heap' = DOMAIN heap \ BlocksOf(signal)
          /\ \A x \in DOMAIN heap \ BlocksOf(signal) : heap'[x] = heap[x]
      BY <1>3, WithoutKeeps DEF FreeSignal
    <2> QED BY <1>3, <2>1, <2>2, DataStays
  <1>4. CASE PushSignal /\ UNCHANGED eeprom_vars
    <2>1. ASSUME NEW name, NEW arguments, NewUuid(name, arguments) PROVE DataKept'
      BY <1>1, <1>2, <1>4, <2>1 DEF NewUuid
    <2>2. CASE Strdup
      BY <1>2, <1>4, <2>2 DEF Strdup
    <2>3. CASE TooManySignals
      BY <1>3, <1>4, <2>3 DEF TooManySignals
    <2>4. CASE NewUuidHalts \/ StrdupFails \/ Store \/ StoreFails \/ Queue
      BY <1>1, <1>4, <2>4 DEF NewUuidHalts, StrdupFails, Store, StoreFails, Queue, OutOfMemory, LuaError
    <2> QED BY <1>4, <2>1, <2>2, <2>3, <2>4 DEF PushSignal
  <1>5. CASE PullSignal /\ UNCHANGED eeprom_vars
    <2>1. CASE Release
      BY <1>3, <1>5, <2>1 DEF Release
    <2>2. CASE Dequeue \/ PushName \/ PushNameFails \/ PushArguments \/ PushArgumentsFail
      BY <1>1, <1>5, <2>2 DEF Dequeue, PushName, PushNameFails, PushArguments, PushArgumentsFail,
                              OutOfMemory, LuaError
    <2> QED BY <1>5, <2>1, <2>2 DEF PullSignal
  <1>6. CASE KeyInterrupt /\ UNCHANGED eeprom_vars
    BY <1>1, <1>6 DEF KeyInterrupt
  <1>7. CASE SetData
    <2>1. ASSUME NEW string, EepromSetData(string) PROVE DataKept'
      <3>1. PICK block \in Blocks :
                /\ heap' = Bind(Without(heap, {data}), block, CString(string))
                /\ data' = block /\ kept' = CString(string)
        BY <2>1 DEF EepromSetData
      <3>2. block \in DOMAIN heap' /\ heap'[block] = CString(string) /\ block # NULL
        BY <3>1, EepromAssumption DEF Bind
      <3> QED BY <3>1, <3>2 DEF EepromGetData
    <2>2. CASE EepromSetDataFails
      BY <2>2 DEF EepromSetDataFails, EepromGetData
    <2> QED BY <1>7, <2>1, <2>2 DEF SetData
  <1> QED BY <1>4, <1>5, <1>6, <1>7 DEF SignalsNext

(* Whatever signals are pushed, pulled and refused meanwhile, getData        *)
(* returns what the last setData was given.                                  *)
THEOREM DataStaysKept == SignalsSpec => []DataKept
  <1>1. SignalsInit => DataKept
    BY DEF SignalsInit, EepromInit, DataKept, EepromGetData
  <1>2. DataKept /\ UNCHANGED <<heap, eeprom_vars, signals_vars>> => DataKept'
    BY DEF DataKept, EepromGetData, eeprom_vars
  <1>3. OwnInv /\ DataKept /\ [SignalsNext]_<<heap, eeprom_vars, signals_vars>> => DataKept'
    BY <1>2, DataStep
  <1> QED BY <1>1, <1>3, SignalsBegin, OwnStep, PTL DEF SignalsSpec

-----------------------------------------------------------------------------
(* Nothing is left behind: blocks and tables have owners.                    *)
HeldBy(q, s, x) == x \in Held(s) \/ \E i \in 1 .. Len(q) : x \in Held(q[i])
KeyOf(h, s, k) == HasKey(s) /\ h[s.registry] = k
NamedBy(h, q, s, k) == KeyOf(h, s, k) \/ \E i \in 1 .. Len(q) : KeyOf(h, q[i], k)

Accounted ==
    ~out_of_memory =>
        /\ \A x \in DOMAIN heap : x = data \/ HeldBy(queue, signal, x)
        /\ \A k \in DOMAIN registry : NamedBy(heap, queue, signal, k)

LEMMA CallInUse ==
    ASSUME OwnInv
    PROVE  \A x \in Held(signal) : x \in DOMAIN heap /\ x # data /\ x # NULL
BY DEF OwnInv, CallOwns, Good, Held

(* The owners are the same and their blocks hold the same. *)
LEMMA SameOwners ==
    ASSUME OwnInv, Accounted, out_of_memory' = out_of_memory,
           \A x : HeldBy(queue, signal, x) => HeldBy(queue', signal', x),
           \A k : NamedBy(heap, queue, signal, k) => NamedBy(heap', queue', signal', k),
           \A x \in DOMAIN heap' : x = data' \/ (x \in DOMAIN heap /\ x # data)
                                    \/ HeldBy(queue', signal', x),
           \A k \in DOMAIN registry' : k \in DOMAIN registry \/ NamedBy(heap', queue', signal', k)
    PROVE  Accounted'
BY DEF Accounted

LEMMA NamedFrame ==
    ASSUME NEW h, NEW g, NEW q, NEW s, NEW t, NEW k, NamedBy(h, q, s, k),
           \A x : HeldBy(q, s, x) => g[x] = h[x],
           Held(s) \subseteq Held(t), HasKey(s) => t.registry = s.registry
    PROVE  NamedBy(g, q, t, k)
BY DEF NamedBy, KeyOf, HeldBy, HasKey

LEMMA InUse ==
    ASSUME OwnInv
    PROVE  \A x : HeldBy(queue, signal, x) => x \in DOMAIN heap /\ x # data /\ x # NULL
BY QueueInUse, CallInUse DEF HeldBy

LEMMA NewUuidAccounts ==
    ASSUME OwnInv, Accounted, NEW name, NEW arguments, NewUuid(name, arguments),
           UNCHANGED eeprom_vars
    PROVE  Accounted'
  <1>1. signal = NoSignal /\ UNCHANGED <<queue, registry, data, out_of_memory>>
    BY DEF OwnInv, CallOwns, NewUuid, eeprom_vars
  <1>2. CASE ~(Len(arguments) > 0)
    <2>1. heap' = heap /\ signal' = signal
      BY <1>1, <1>2 DEF NewUuid
    <2> QED BY <1>1, <2>1, SameOwners DEF Accounted
  <1>3. CASE Len(arguments) > 0
    <2>1. PICK block \in Free, key \in Keys :
              Malloc(block, key) /\ signal' = [NoSignal EXCEPT !.registry = block]
      BY <1>3 DEF NewUuid
    <2>2. block \notin DOMAIN heap /\ block # NULL
      BY EepromAssumption DEF Free
    <2>3. /\ DOMAIN heap' = DOMAIN heap \cup {block}
          /\ \A x \in DOMAIN heap : heap'[x] = heap[x]
      BY <2>1, <2>2, MallocAdds
    <2>4. Held(signal') = {block} /\ Held(signal) = {} /\ ~HasKey(signal)
      BY <1>1, <2>1, <2>2, NothingHeld DEF NoSignal, Held, HasKey
    <2>5. \A x : HeldBy(queue, signal, x) => HeldBy(queue', signal', x)
      BY <1>1, <2>4 DEF HeldBy
    <2>6. \A k : NamedBy(heap, queue, signal, k) => NamedBy(heap', queue', signal', k)
      BY <1>1, <2>3, <2>4, InUse, NamedFrame
    <2>7. \A x \in DOMAIN heap' : x = data' \/ (x \in DOMAIN heap /\ x # data)
                                    \/ HeldBy(queue', signal', x)
      BY <1>1, <2>3, <2>4 DEF HeldBy
    <2> QED BY <1>1, <2>5, <2>6, <2>7, SameOwners
  <1> QED BY <1>2, <1>3

LEMMA StrdupAccounts ==
    ASSUME OwnInv, Accounted, Strdup, UNCHANGED eeprom_vars
    PROVE  Accounted'
  <1>1. /\ signal.kind = "none" /\ signal.name = NULL
        /\ UNCHANGED <<queue, registry, data, out_of_memory>>
    BY DEF OwnInv, CallOwns, Strdup, eeprom_vars
  <1>2. PICK block \in Free :
            /\ Malloc(block, sent[1])
            /\ signal' = [name |-> block, kind |-> "SIG_LUA", registry |-> signal.registry,
                          size |-> Len(sent[2]), sent |-> sent]
    BY DEF Strdup
  <1>3. block \notin DOMAIN heap /\ block # NULL
    BY EepromAssumption DEF Free
  <1>4. /\ DOMAIN heap' = DOMAIN heap \cup {block}
        /\ \A x \in DOMAIN heap : heap'[x] = heap[x]
    BY <1>2, <1>3, MallocAdds
  <1>5. Held(signal') = Held(signal) \cup {block} /\ signal'.registry = signal.registry
    BY <1>1, <1>2, <1>3 DEF Held
  <1>6. \A x : HeldBy(queue, signal, x) => HeldBy(queue', signal', x)
    BY <1>1, <1>5 DEF HeldBy
  <1>7. \A k : NamedBy(heap, queue, signal, k) => NamedBy(heap', queue', signal', k)
    BY <1>1, <1>4, <1>5, InUse, NamedFrame
  <1>8. \A x \in DOMAIN heap' : x = data' \/ (x \in DOMAIN heap /\ x # data)
                                  \/ HeldBy(queue', signal', x)
    BY <1>1, <1>4, <1>5 DEF HeldBy
  <1> QED BY <1>1, <1>6, <1>7, <1>8, SameOwners

LEMMA StoreAccounts ==
    ASSUME OwnInv, Accounted, Store, UNCHANGED eeprom_vars
    PROVE  Accounted'
  <1>1. /\ signal.kind = "SIG_LUA" /\ Good(heap, data, signal)
        /\ UNCHANGED <<heap, queue, signal, data, out_of_memory>>
    BY DEF OwnInv, CallOwns, Store, eeprom_vars
  <1>2. DOMAIN registry' = IF signal.size > 0
                           THEN DOMAIN registry \cup {heap[signal.registry]} ELSE DOMAIN registry
    BY DEF Store, Bind
  <1>3. signal.size > 0 => NamedBy(heap', queue', signal', heap[signal.registry])
    BY <1>1 DEF Good, NamedBy, KeyOf, HasKey, Held
  <1> QED BY <1>1, <1>2, <1>3 DEF Accounted

LEMMA FreeAccounts ==
    ASSUME OwnInv, Accounted, FreeSignal(signal), signal.kind \in Pushed,
           signal' = NoSignal, UNCHANGED <<queue, data, out_of_memory>>
    PROVE  Accounted'
  <1>1. /\ DOMAIN heap' = DOMAIN heap \ BlocksOf(signal)
        /\ \A x \in DOMAIN heap \ BlocksOf(signal) : heap'[x] = heap[x]
        /\ DOMAIN registry' = DOMAIN registry \ KeysOf(signal)
    BY WithoutKeeps DEF FreeSignal
  <1>2. BlocksOf(signal) = Held(signal) /\ Held(signal) \subseteq DOMAIN heap
    BY CallInUse DEF BlocksOf, Held, Pushed
  <1>3. KeysOf(signal) = IF HasKey(signal) THEN {heap[signal.registry]} ELSE {}
    BY <1>2 DEF KeysOf, HasKey, Held, Pushed
  <1>4. ASSUME NEW i \in 1 .. Len(queue)
        PROVE  \A x \in Held(queue[i]) : heap'[x] = heap[x]
    <2>1. Apart(heap, queue[i], signal)
      BY DEF OwnInv, QueueOwns
    <2> QED BY <1>1, <1>2, <2>1, QueueInUse DEF Apart
  <1>5. ASSUME ~out_of_memory, NEW x \in DOMAIN heap'
        PROVE  x = data' \/ HeldBy(queue', signal', x)
    BY <1>1, <1>2, <1>5 DEF Accounted, HeldBy
  <1>6. ASSUME ~out_of_memory, NEW k \in DOMAIN registry'
        PROVE  NamedBy(heap', queue', signal', k)
    <2>1. NamedBy(heap, queue, signal, k) /\ ~KeyOf(heap, signal, k)
      BY <1>1, <1>3, <1>6 DEF Accounted, KeyOf
    <2>2. PICK i \in 1 .. Len(queue) : KeyOf(heap, queue[i], k)
      BY <2>1 DEF NamedBy
    <2>3. KeyOf(heap', queue[i], k)
      BY <1>4, <2>2 DEF KeyOf, HasKey
    <2> QED BY <2>3 DEF NamedBy
  <1> QED BY <1>5, <1>6 DEF Accounted

(* Owners change, memory does not. *)
LEMMA HandedOver ==
    ASSUME Accounted, UNCHANGED <<heap, registry, data, out_of_memory>>,
           \A x : HeldBy(queue, signal, x) => HeldBy(queue', signal', x),
           \A k : NamedBy(heap, queue, signal, k) => NamedBy(heap, queue', signal', k)
    PROVE  Accounted'
BY DEF Accounted

LEMMA AppendAccounts ==
    ASSUME OwnInv, Accounted, NEW s, queue' = Append(queue, s),
           UNCHANGED <<heap, registry, data, out_of_memory>>,
           \/ s = signal /\ signal' = NoSignal
           \/ signal' = signal
    PROVE  Accounted'
  <1>1. PICK S : queue \in Seq(S)
    BY DEF OwnInv, QueueOwns
  <1>2. /\ Len(queue) \in Nat /\ Len(queue') = Len(queue) + 1
        /\ \A i \in 1 .. Len(queue) : queue'[i] = queue[i]
        /\ queue'[Len(queue) + 1] = s
    <2>1. queue \in Seq(S \cup {s}) /\ s \in S \cup {s} /\ Len(queue) \in Nat
      BY <1>1, SeqMonotonic, LenProperties
    <2> QED BY <2>1, AppendProperties
  <1>3. /\ \A i \in 1 .. Len(queue) : i \in 1 .. Len(queue')
        /\ Len(queue) + 1 \in 1 .. Len(queue')
    BY <1>2
  <1>4. \A x : HeldBy(queue, signal, x) => HeldBy(queue', signal', x)
    BY <1>2, <1>3 DEF HeldBy
  <1>5. \A k : NamedBy(heap, queue, signal, k) => NamedBy(heap, queue', signal', k)
    BY <1>2, <1>3 DEF NamedBy
  <1> QED BY <1>4, <1>5, HandedOver

LEMMA DequeueAccounts ==
    ASSUME OwnInv, Accounted, Dequeue, UNCHANGED eeprom_vars
    PROVE  Accounted'
  <1>1. /\ queue # <<>> /\ signal' = Head(queue) /\ queue' = Tail(queue) /\ signal = NoSignal
        /\ UNCHANGED <<heap, registry, data, out_of_memory>>
    BY DEF Dequeue, eeprom_vars, OwnInv, CallOwns
  <1>2. PICK S : queue \in Seq(S)
    BY DEF OwnInv, QueueOwns
  <1>3. /\ Len(queue) \in Nat /\ signal' = queue[1] /\ Len(queue') = Len(queue) - 1
        /\ \A i \in 1 .. Len(queue') : queue'[i] = queue[i + 1]
    BY <1>1, <1>2, EmptySeq, LenProperties, HeadTailProperties
  <1>4. ASSUME NEW i \in 1 .. Len(queue), i # 1
        PROVE  i - 1 \in 1 .. Len(queue') /\ queue'[i - 1] = queue[i]
    BY <1>3, <1>4
  <1>5. Held(signal) = {} /\ ~HasKey(signal)
    BY <1>1, NothingHeld DEF HasKey
  <1>6. \A x : HeldBy(queue, signal, x) => HeldBy(queue', signal', x)
    BY <1>3, <1>4, <1>5 DEF HeldBy
  <1>7. \A k : NamedBy(heap, queue, signal, k) => NamedBy(heap, queue', signal', k)
    BY <1>3, <1>4, <1>5 DEF NamedBy, KeyOf
  <1> QED BY <1>1, <1>6, <1>7, HandedOver

LEMMA SetDataAccounts ==
    ASSUME OwnInv, Accounted, SetData
    PROVE  Accounted'
  <1> DEFINE rest == Without(heap, {data})
  <1>1. UNCHANGED <<registry, queue, signal, out_of_memory>>
    BY DEF SetData, signals_vars
  <1>2. DOMAIN rest = DOMAIN heap \ {data} /\ \A x \in DOMAIN heap \ {data} : rest[x] = heap[x]
    BY WithoutKeeps
  <1>3. /\ \A x \in DOMAIN heap' : x = data' \/ (x \in DOMAIN heap /\ x # data)
        /\ \A x \in DOMAIN heap \ {data} : heap'[x] = heap[x]
    <2>1. ASSUME NEW string, EepromSetData(string)
          PROVE  /\ \A x \in DOMAIN heap' : x = data' \/ (x \in DOMAIN heap /\ x # data)
                 /\ \A x \in DOMAIN heap \ {data} : heap'[x] = heap[x]
      <3>1. PICK block \in Blocks \ DOMAIN rest :
                heap' = Bind(rest, block, CString(string)) /\ data' = block
        BY <2>1 DEF EepromSetData
      <3>2. /\ DOMAIN heap' = DOMAIN rest \cup {block}
            /\ \A x \in DOMAIN rest : x # block => heap'[x] = rest[x]
        BY <3>1 DEF Bind
      <3> HIDE DEF rest
      <3> QED BY <1>2, <3>1, <3>2
    <2>2. CASE EepromSetDataFails
      BY <1>2, <2>2 DEF EepromSetDataFails
    <2> QED BY <2>1, <2>2 DEF SetData
  <1>4. \A k : NamedBy(heap, queue, signal, k) => NamedBy(heap', queue', signal', k)
    BY <1>1, <1>3, InUse, NamedFrame
  <1> QED BY <1>1, <1>3, <1>4, SameOwners

LEMMA AccountStep == OwnInv /\ Accounted /\ SignalsNext => Accounted'
  <1> SUFFICES ASSUME OwnInv, Accounted, SignalsNext PROVE Accounted'
    OBVIOUS
  <1>1. ASSUME UNCHANGED <<heap, registry, queue, signal, data, out_of_memory>> PROVE Accounted'
    BY <1>1 DEF Accounted
  <1>2. ASSUME OutOfMemory PROVE Accounted'
    BY <1>2 DEF OutOfMemory, Accounted
  <1>3. CASE PushSignal /\ UNCHANGED eeprom_vars
    <2>1. ASSUME NEW name, NEW arguments, NewUuid(name, arguments) PROVE Accounted'
      BY <1>3, <2>1, NewUuidAccounts
    <2>2. CASE NewUuidHalts
      BY <1>1, <1>3, <2>2 DEF NewUuidHalts, eeprom_vars
    <2>3. CASE Strdup
      BY <1>3, <2>3, StrdupAccounts
    <2>4. CASE StrdupFails \/ StoreFails
      BY <1>2, <2>4 DEF StrdupFails, StoreFails
    <2>5. CASE Store
      BY <1>3, <2>5, StoreAccounts
    <2>6. CASE Queue
      BY <1>3, <2>6, AppendAccounts DEF Queue, eeprom_vars
    <2>7. CASE TooManySignals
      <3>1. signal.kind \in Pushed
        BY <2>7 DEF TooManySignals, OwnInv, CallOwns
      <3> QED BY <1>3, <2>7, <3>1, FreeAccounts DEF TooManySignals, eeprom_vars
    <2> QED BY <1>3, <2>1, <2>2, <2>3, <2>4, <2>5, <2>6, <2>7 DEF PushSignal
  <1>4. CASE PullSignal /\ UNCHANGED eeprom_vars
    <2>1. CASE Dequeue
      BY <1>4, <2>1, DequeueAccounts
    <2>2. CASE PushName \/ PushArguments
      BY <1>1, <1>4, <2>2 DEF PushName, PushArguments, eeprom_vars
    <2>3. CASE PushNameFails \/ PushArgumentsFail
      BY <1>2, <2>3 DEF PushNameFails, PushArgumentsFail
    <2>4. CASE Release
      <3>1. signal.kind \in Pushed
        BY <2>4 DEF Release, OwnInv, CallOwns
      <3> QED BY <1>4, <2>4, <3>1, FreeAccounts DEF Release, eeprom_vars
    <2> QED BY <1>4, <2>1, <2>2, <2>3, <2>4 DEF PullSignal
  <1>5. CASE KeyInterrupt /\ UNCHANGED eeprom_vars
    BY <1>5, AppendAccounts DEF KeyInterrupt, eeprom_vars
  <1>6. CASE SetData
    BY <1>6, SetDataAccounts
  <1> QED BY <1>3, <1>4, <1>5, <1>6 DEF SignalsNext

LEMMA AccountedFor == OwnInv /\ Accounted => LeaksOnlyOutOfMemory
  <1> SUFFICES ASSUME OwnInv, Accounted, pc = "idle", ~out_of_memory
               PROVE  /\ DOMAIN heap = ({data} \ {NULL}) \cup UNION {BlocksOf(Alive[i]) : i \in DOMAIN Alive}
                      /\ DOMAIN registry = UNION {KeysOf(Alive[i]) : i \in DOMAIN Alive}
    BY DEF LeaksOnlyOutOfMemory
  <1>1. PICK S : queue \in Seq(S)
    BY DEF OwnInv, QueueOwns
  <1>2. /\ Len(queue) \in Nat /\ DOMAIN Alive = 1 .. Len(queue) + 1
        /\ \A i \in 1 .. Len(queue) : i \in DOMAIN Alive /\ Alive[i] = queue[i]
        /\ \A i \in DOMAIN Alive : i \in 1 .. Len(queue) \/ Alive[i] = NoSignal
    BY <1>1, LenProperties DEF Alive, OwnInv, CallOwns
  <1>3. /\ Held(signal) = {} /\ ~HasKey(signal)
        /\ BlocksOf(NoSignal) = {} /\ KeysOf(NoSignal) = {}
    BY NothingHeld DEF OwnInv, CallOwns, HasKey, BlocksOf, KeysOf
  <1>4. ASSUME NEW i \in 1 .. Len(queue)
        PROVE  /\ BlocksOf(queue[i]) = Held(queue[i]) /\ Held(queue[i]) \subseteq DOMAIN heap
               /\ KeysOf(queue[i]) = IF HasKey(queue[i]) THEN {heap[queue[i].registry]} ELSE {}
               /\ HasKey(queue[i]) => heap[queue[i].registry] \in DOMAIN registry
    <2>1. /\ queue[i].kind \in Pushed /\ Good(heap, data, queue[i])
          /\ Filed(heap, DOMAIN registry, queue[i])
      BY DEF OwnInv, QueueOwns
    <2> QED BY <2>1 DEF Good, Filed, BlocksOf, KeysOf, Held, HasKey, Pushed
  <1>5. DOMAIN heap \subseteq Blocks /\ NULL \notin DOMAIN heap /\ data \in DOMAIN heap \cup {NULL}
    BY EepromAssumption DEF OwnInv, EepromOwns
  <1>6. \A x : x \in DOMAIN heap <=>
                   x \in {data} \ {NULL} \/ \E i \in DOMAIN Alive : x \in BlocksOf(Alive[i])
    BY <1>2, <1>3, <1>4, <1>5, ZenonT(40) DEF Accounted, HeldBy
  <1>7. \A k : k \in DOMAIN registry <=> \E i \in DOMAIN Alive : k \in KeysOf(Alive[i])
    <2>1. ASSUME NEW k \in DOMAIN registry PROVE \E i \in DOMAIN Alive : k \in KeysOf(Alive[i])
      <3>1. PICK i \in 1 .. Len(queue) : HasKey(queue[i]) /\ heap[queue[i].registry] = k
        BY <1>3 DEF Accounted, NamedBy, KeyOf
      <3>2. k \in KeysOf(queue[i])
        BY <1>4, <3>1
      <3> QED BY <1>2, <3>2
    <2>2. ASSUME NEW i \in DOMAIN Alive, NEW k \in KeysOf(Alive[i]) PROVE k \in DOMAIN registry
      <3>1. i \in 1 .. Len(queue) /\ k \in KeysOf(queue[i])
        BY <1>2, <1>3
      <3> QED BY <1>4, <3>1
    <2> QED BY <2>1, <2>2
  <1> QED BY <1>6, <1>7

(* For any memory and any length of the queue: as long as no call was left   *)
(* for want of memory, every block belongs to a signal alive or the eeprom,  *)
(* and every table in the registry to a signal alive.                        *)
THEOREM NothingLeaks == SignalsSpec => []LeaksOnlyOutOfMemory
  <1>1. SignalsInit => Accounted
    BY DEF SignalsInit, EepromInit, Accounted
  <1>2. Accounted /\ UNCHANGED <<heap, eeprom_vars, signals_vars>> => Accounted'
    BY DEF Accounted, eeprom_vars, signals_vars
  <1>3. OwnInv /\ Accounted /\ [SignalsNext]_<<heap, eeprom_vars, signals_vars>> => Accounted'
    BY <1>2, AccountStep
  <1> QED BY <1>1, <1>3, SignalsBegin, OwnStep, AccountedFor, PTL DEF SignalsSpec

-----------------------------------------------------------------------------
(* What a signal carries: a keyboard signal nothing but itself, a Lua signal  *)
(* its name and as many arguments as it says, ...                            *)
Built(s) ==
    /\ s.kind = "SIG_KEYBOARD" => s = Keyboard
    /\ s.kind = "SIG_LUA" =>
        /\ s.size \in Nat
        /\ s.sent = <<s.sent[1], IF s.size > 0 THEN [i \in 1 .. s.size |-> s.sent[2][i]] ELSE <<>> >>

(* ... which are in the table r has under its key, numbered from 0.          *)
Tabled(h, r, s) ==
    s.kind = "SIG_LUA" /\ s.size > 0 =>
        r[h[s.registry]] = [i \in 0 .. s.size - 1 |-> s.sent[2][i + 1]]

QueueCarries == \A i \in 1 .. Len(queue) : Built(queue[i]) /\ Tabled(heap, registry, queue[i])

CallCarries ==
    /\ Built(signal)
    /\ pc # "store" => Tabled(heap, registry, signal)
    /\ pc = "strdup" => \E name, arguments : arguments \in Arguments /\ sent = <<name, arguments>>
    /\ pc = "store" => signal.sent = sent
    /\ pc = "push_arguments" => returned = <<signal.sent[1]>>
    /\ pc = "free_signal" => returned = signal.sent

Carried == QueueCarries /\ CallCarries

LEMMA NothingCarried ==
    ASSUME NEW h, NEW r, NEW s, s \in {NoSignal, Keyboard}
    PROVE  Built(s) /\ Tabled(h, r, s)
  <1>1. NoSignal.kind # "SIG_LUA" /\ NoSignal.kind # "SIG_KEYBOARD" /\ Keyboard.kind # "SIG_LUA"
    BY DEF NoSignal, Keyboard
  <1> QED BY <1>1 DEF Built, Tabled

(* The queued signals' keys and tables are left as they are. *)
LEMMA QueueCarriesOn ==
    ASSUME OwnInv, Carried, queue' = queue,
           \A k \in 1 .. Len(queue) : \A x \in Held(queue[k]) : heap'[x] = heap[x],
           \A k \in 1 .. Len(queue) : HasKey(queue[k]) =>
               registry'[heap[queue[k].registry]] = registry[heap[queue[k].registry]]
    PROVE  QueueCarries'
  <1>1. ASSUME NEW k \in 1 .. Len(queue)
        PROVE  Built(queue[k]) /\ Tabled(heap', registry', queue[k])
    <2>1. Built(queue[k]) /\ Tabled(heap, registry, queue[k]) /\ Good(heap, data, queue[k])
      BY DEF Carried, QueueCarries, OwnInv, QueueOwns
    <2>2. ASSUME queue[k].kind = "SIG_LUA", queue[k].size > 0
          PROVE  HasKey(queue[k]) /\ heap'[queue[k].registry] = heap[queue[k].registry]
      BY <2>1, <2>2 DEF Good, HasKey, Held
    <2> QED BY <2>1, <2>2 DEF Tabled
  <1> QED BY <1>1 DEF QueueCarries

(* A call that is left, or that has let go of its signal, carries nothing. *)
LEMMA CallDone ==
    ASSUME signal' = NoSignal, pc' = "idle"
    PROVE  CallCarries'
BY NothingCarried DEF CallCarries

(* The arguments of a call are a sequence. *)
LEMMA ArgumentsListed ==
    ASSUME NEW arguments \in Arguments
    PROVE  /\ Len(arguments) \in Nat
           /\ arguments = IF Len(arguments) > 0
                          THEN [i \in 1 .. Len(arguments) |-> arguments[i]] ELSE <<>>
  <1>1. arguments \in Seq(Range(arguments))
    BY LuaSignalsAssumption
  <1>2. /\ Len(arguments) \in Nat /\ DOMAIN arguments = 1 .. Len(arguments)
        /\ arguments = [i \in 1 .. Len(arguments) |-> arguments[i]]
    BY <1>1, LenProperties
  <1>3. Len(arguments) = 0 => arguments = <<>>
    BY <1>1, EmptySeq
  <1>4. \A n \in Nat : n > 0 \/ n = 0
    OBVIOUS
  <1> QED BY <1>2, <1>3, <1>4

LEMMA PairMade ==
    ASSUME NEW x, NEW y
    PROVE  Append(<<x>>, y) = <<x, y>>
  <1>1. /\ <<x>> \in Seq({x, y}) /\ <<x, y>> \in Seq({x, y}) /\ y \in {x, y}
        /\ Len(<<x>>) = 1 /\ Len(<<x, y>>) = 2
    OBVIOUS
  <1>2. /\ Append(<<x>>, y) \in Seq({x, y}) /\ Len(Append(<<x>>, y)) = 2
        /\ Append(<<x>>, y)[1] = x /\ Append(<<x>>, y)[2] = y
    BY <1>1, AppendProperties
  <1> DEFINE made == Append(<<x>>, y)
             pair == <<x, y>>
  <1>3. made[1] = pair[1] /\ made[2] = pair[2]
    BY <1>2
  <1>4. made \in Seq({x, y}) /\ pair \in Seq({x, y}) /\ Len(made) = 2 /\ Len(pair) = 2
    BY <1>1, <1>2
  <1> HIDE DEF made, pair
  <1>5. \A i \in 1 .. Len(made) : made[i] = pair[i]
    BY <1>3, <1>4
  <1>6. made = pair
    BY <1>4, <1>5, SeqEqual
  <1> QED BY <1>6 DEF made, pair

-----------------------------------------------------------------------------
LEMMA MallocCarries ==
    ASSUME OwnInv, Carried, NEW block \in Free, NEW value, Malloc(block, value),
           UNCHANGED <<registry, queue>>
    PROVE  /\ QueueCarries'
           /\ \A x \in DOMAIN heap : heap'[x] = heap[x]
  <1>1. \A x \in DOMAIN heap : heap'[x] = heap[x]
    BY MallocAdds DEF Free
  <1> QED BY <1>1, QueueInUse, QueueCarriesOn

LEMMA NewUuidCarries ==
    ASSUME OwnInv, Carried, NEW name, NEW arguments \in Arguments, NewUuid(name, arguments)
    PROVE  Carried'
  <1>1. /\ UNCHANGED <<registry, queue>> /\ pc' = "strdup" /\ sent' = <<name, arguments>>
        /\ signal'.kind = "none"
    BY DEF NewUuid, NoSignal
  <1>2. QueueCarries'
    <2>1. CASE Len(arguments) > 0
      BY <1>1, <2>1, MallocCarries DEF NewUuid
    <2>2. CASE ~(Len(arguments) > 0)
      BY <1>1, <2>2 DEF NewUuid, Carried, QueueCarries
    <2> QED BY <2>1, <2>2
  <1>3. CallCarries'
    BY <1>1 DEF CallCarries, Built, Tabled
  <1> QED BY <1>2, <1>3 DEF Carried

LEMMA StrdupCarries ==
    ASSUME OwnInv, Carried, Strdup
    PROVE  Carried'
  <1>1. PICK block \in Free :
            /\ Malloc(block, sent[1])
            /\ signal' = [name |-> block, kind |-> "SIG_LUA", registry |-> signal.registry,
                          size |-> Len(sent[2]), sent |-> sent]
    BY DEF Strdup
  <1>2. UNCHANGED <<registry, queue, sent>> /\ pc = "strdup" /\ pc' = "store"
    BY DEF Strdup
  <1>3. QueueCarries'
    BY <1>1, <1>2, MallocCarries
  <1>4. PICK name, arguments : arguments \in Arguments /\ sent = <<name, arguments>>
    BY <1>2 DEF Carried, CallCarries
  <1>5. /\ signal'.kind = "SIG_LUA" /\ signal'.size = Len(arguments) /\ signal'.sent = sent
        /\ sent[1] = name /\ sent[2] = arguments
    BY <1>1, <1>4
  <1>6. Built(signal')
    BY <1>4, <1>5, ArgumentsListed DEF Built
  <1>7. CallCarries'
    BY <1>2, <1>5, <1>6 DEF CallCarries
  <1> QED BY <1>3, <1>7 DEF Carried

LEMMA StoreCarries ==
    ASSUME OwnInv, Carried, Store
    PROVE  Carried'
  <1> DEFINE key == heap[signal.registry]
             table == [i \in 0 .. signal.size - 1 |-> sent[2][i + 1]]
  <1>1. /\ UNCHANGED <<heap, queue, signal, sent>> /\ pc' = "queue"
        /\ signal.kind = "SIG_LUA" /\ signal.sent = sent /\ Built(signal)
        /\ Good(heap, data, signal)
    BY DEF Store, OwnInv, CallOwns, Carried, CallCarries
  <1>2. registry' = IF signal.size > 0 THEN Bind(registry, key, table) ELSE registry
    BY DEF Store
  <1>3. Tabled(heap', registry', signal')
    <2> SUFFICES ASSUME signal.size > 0
                 PROVE  registry'[key] = [i \in 0 .. signal.size - 1 |-> signal.sent[2][i + 1]]
      BY <1>1 DEF Tabled
    <2> QED BY <1>1, <1>2 DEF Bind
  <1>4. ASSUME NEW k \in 1 .. Len(queue), HasKey(queue[k])
        PROVE  registry'[heap[queue[k].registry]] = registry[heap[queue[k].registry]]
    <2>1. Apart(heap, queue[k], signal) /\ Filed(heap, DOMAIN registry, queue[k])
          /\ queue[k].kind = "SIG_LUA" /\ queue[k].registry # NULL
      BY <1>4 DEF OwnInv, QueueOwns, HasKey, Held, Pushed
    <2>2. heap[queue[k].registry] \in DOMAIN registry
      BY <2>1 DEF Filed
    <2>3. signal.size > 0 => heap[queue[k].registry] # key
      BY <1>1, <1>4, <2>1 DEF Apart, Good, HasKey, Held
    <2> HIDE DEF key, table
    <2> QED BY <1>2, <2>2, <2>3 DEF Bind
  <1>5. QueueCarries'
    BY <1>1, <1>4, QueueCarriesOn
  <1>6. CallCarries'
    BY <1>1, <1>3 DEF CallCarries
  <1> QED BY <1>5, <1>6 DEF Carried

LEMMA AppendCarries ==
    ASSUME OwnInv, Carried, NEW s, queue' = Append(queue, s), UNCHANGED <<heap, registry>>,
           Built(s), Tabled(heap, registry, s)
    PROVE  QueueCarries'
  <1>1. PICK S : queue \in Seq(S)
    BY DEF OwnInv, QueueOwns
  <1>2. /\ Len(queue) \in Nat /\ Len(queue') = Len(queue) + 1
        /\ \A i \in 1 .. Len(queue) : queue'[i] = queue[i]
        /\ queue'[Len(queue) + 1] = s
    <2>1. queue \in Seq(S \cup {s}) /\ s \in S \cup {s} /\ Len(queue) \in Nat
      BY <1>1, SeqMonotonic, LenProperties
    <2> QED BY <2>1, AppendProperties
  <1>3. \A i \in 1 .. Len(queue') : i \in 1 .. Len(queue) \/ i = Len(queue) + 1
    BY <1>2
  <1> QED BY <1>2, <1>3 DEF Carried, QueueCarries

LEMMA FreeCarries ==
    ASSUME OwnInv, Carried, FreeSignal(signal), signal.kind \in Pushed,
           signal' = NoSignal, pc' = "idle", queue' = queue
    PROVE  Carried'
  <1>1. /\ \A x \in DOMAIN heap \ BlocksOf(signal) : heap'[x] = heap[x]
        /\ \A k \in DOMAIN registry \ KeysOf(signal) : registry'[k] = registry[k]
    BY WithoutKeeps DEF FreeSignal
  <1>2. BlocksOf(signal) = Held(signal)
    BY DEF BlocksOf, Held, Pushed
  <1>3. KeysOf(signal) = IF HasKey(signal) THEN {heap[signal.registry]} ELSE {}
    BY <1>2, CallInUse DEF KeysOf, HasKey, Held, Pushed
  <1>4. ASSUME NEW k \in 1 .. Len(queue)
        PROVE  /\ \A x \in Held(queue[k]) : heap'[x] = heap[x]
               /\ HasKey(queue[k]) =>
                      registry'[heap[queue[k].registry]] = registry[heap[queue[k].registry]]
    <2>1. Apart(heap, queue[k], signal) /\ Filed(heap, DOMAIN registry, queue[k])
          /\ queue[k].kind \in Pushed
      BY DEF OwnInv, QueueOwns
    <2>2. HasKey(queue[k]) =>
              heap[queue[k].registry] \in DOMAIN registry \ KeysOf(signal)
      BY <1>3, <2>1 DEF Apart, Filed, HasKey, Held, Pushed
    <2> QED BY <1>1, <1>2, <2>1, <2>2, QueueInUse DEF Apart
  <1>5. QueueCarries'
    BY <1>4, QueueCarriesOn
  <1> QED BY <1>5, CallDone DEF Carried

LEMMA DequeueCarries ==
    ASSUME OwnInv, Carried, Dequeue
    PROVE  Carried'
  <1>1. /\ queue # <<>> /\ signal' = Head(queue) /\ queue' = Tail(queue)
        /\ pc' = "push_name" /\ UNCHANGED <<heap, registry>>
    BY DEF Dequeue
  <1>2. PICK S : queue \in Seq(S)
    BY DEF OwnInv, QueueOwns
  <1>3. /\ Len(queue) \in Nat /\ 1 \in 1 .. Len(queue) /\ signal' = queue[1]
        /\ Len(queue') = Len(queue) - 1
        /\ \A i \in 1 .. Len(queue') : queue'[i] = queue[i + 1]
    BY <1>1, <1>2, EmptySeq, LenProperties, HeadTailProperties
  <1>4. \A i \in 1 .. Len(queue') : i + 1 \in 1 .. Len(queue)
    BY <1>3
  <1>5. QueueCarries'
    BY <1>1, <1>3, <1>4 DEF Carried, QueueCarries
  <1>6. CallCarries'
    BY <1>1, <1>3 DEF Carried, QueueCarries, CallCarries
  <1> QED BY <1>5, <1>6 DEF Carried

(* The name that is pushed is the one the block still holds. *)
LEMMA PushNameCarries ==
    ASSUME OwnInv, Carried, PushName
    PROVE  Carried'
  <1>1. /\ UNCHANGED <<heap, registry, queue, signal>> /\ pc = "push_name"
        /\ pc' = "push_arguments" /\ signal.kind \in Pushed
        /\ Built(signal) /\ Tabled(heap, registry, signal) /\ Good(heap, data, signal)
    BY DEF PushName, OwnInv, CallOwns, Carried, CallCarries
  <1>2. returned' = <<signal.sent[1]>>
    <2>1. CASE signal.kind = "SIG_LUA"
      BY <2>1, <1>1 DEF PushName, Good
    <2>2. CASE signal.kind = "SIG_KEYBOARD"
      <3>1. signal.name = KeySignal /\ signal.sent = <<KeySignal, <<>> >>
        BY <1>1, <2>2 DEF Built, Keyboard, NoSignal
      <3> QED BY <2>2, <3>1 DEF PushName
    <2> QED BY <1>1, <2>1, <2>2 DEF Pushed
  <1> QED BY <1>1, <1>2 DEF Carried, QueueCarries, CallCarries

(* Counted from 1 for Lua, the table's entries are the arguments. *)
LEMMA PushArgumentsCarries ==
    ASSUME OwnInv, Carried, PushArguments
    PROVE  Carried'
  <1>1. /\ UNCHANGED <<heap, registry, queue, signal>> /\ pc = "push_arguments"
        /\ pc' = "free_signal" /\ signal.kind \in Pushed /\ returned = <<signal.sent[1]>>
        /\ Built(signal) /\ Tabled(heap, registry, signal)
    BY DEF PushArguments, OwnInv, CallOwns, Carried, CallCarries
  <1> DEFINE list == IF signal.size > 0
                     THEN [i \in 1 .. signal.size |-> registry[heap[signal.registry]][i - 1]]
                     ELSE <<>>
  <1>2. returned' = <<signal.sent[1], list>>
    <2>1. returned' = Append(returned, list)
      BY DEF PushArguments
    <2> HIDE DEF list
    <2> QED BY <1>1, <2>1, PairMade
  <1>3. signal.sent = <<signal.sent[1], list>>
    <2>1. CASE signal.kind = "SIG_LUA"
      <3>1. CASE signal.size > 0
        <4>1. \A n \in Nat : \A i \in 1 .. n : i - 1 \in 0 .. n - 1 /\ (i - 1) + 1 = i
          OBVIOUS
        <4>2. signal.size \in Nat
          BY <1>1, <2>1 DEF Built
        <4>3. \A i \in 1 .. signal.size : registry[heap[signal.registry]][i - 1] = signal.sent[2][i]
          <5> SUFFICES ASSUME NEW i \in 1 .. signal.size
                       PROVE  registry[heap[signal.registry]][i - 1] = signal.sent[2][i]
            OBVIOUS
          <5>1. i - 1 \in 0 .. signal.size - 1 /\ (i - 1) + 1 = i
            BY <4>1, <4>2
          <5>2. registry[heap[signal.registry]] = [m \in 0 .. signal.size - 1 |-> signal.sent[2][m + 1]]
            BY <1>1, <2>1, <3>1 DEF Tabled
          <5> QED BY <5>1, <5>2
        <4>4. list = [i \in 1 .. signal.size |-> signal.sent[2][i]]
          BY <3>1, <4>3
        <4> QED BY <1>1, <2>1, <3>1, <4>4 DEF Built
      <3>2. CASE ~(signal.size > 0)
        BY <1>1, <2>1, <3>2 DEF Built
      <3> QED BY <3>1, <3>2
    <2>2. CASE signal.kind = "SIG_KEYBOARD"
      <3>1. signal.size = 0 /\ signal.sent = <<KeySignal, <<>> >>
        BY <1>1, <2>2 DEF Built, Keyboard, NoSignal
      <3> QED BY <3>1
    <2> QED BY <1>1, <2>1, <2>2 DEF Pushed
  <1>4. CallCarries'
    BY <1>1, <1>2, <1>3 DEF CallCarries
  <1>5. QueueCarries'
    BY <1>1 DEF Carried, QueueCarries
  <1> QED BY <1>4, <1>5 DEF Carried

LEMMA SetDataCarries ==
    ASSUME OwnInv, Carried, SetData
    PROVE  Carried'
  <1>1. UNCHANGED signals_vars /\ signal = NoSignal /\ pc = "idle"
    BY DEF SetData, OwnInv, CallOwns
  <1>2. \A x \in DOMAIN heap \ {data} : heap'[x] = heap[x]
    <2>1. ASSUME NEW string, EepromSetData(string)
          PROVE  \A x \in DOMAIN heap \ {data} : heap'[x] = heap[x]
      <3> DEFINE rest == Without(heap, {data})
      <3>1. DOMAIN rest = DOMAIN heap \ {data} /\ \A x \in DOMAIN heap \ {data} : rest[x] = heap[x]
        BY WithoutKeeps
      <3>2. PICK block \in Blocks \ DOMAIN rest : heap' = Bind(rest, block, CString(string))
        BY <2>1 DEF EepromSetData
      <3> HIDE DEF rest
      <3> QED BY <3>1, <3>2 DEF Bind
    <2>2. CASE EepromSetDataFails
      BY <2>2, WithoutKeeps DEF EepromSetDataFails
    <2> QED BY <2>1, <2>2 DEF SetData
  <1>3. QueueCarries'
    BY <1>1, <1>2, QueueInUse, QueueCarriesOn DEF signals_vars
  <1>4. CallCarries'
    BY <1>1, CallDone DEF signals_vars
  <1> QED BY <1>3, <1>4 DEF Carried

-----------------------------------------------------------------------------
LEMMA CarriedStep == OwnInv /\ Carried /\ SignalsNext => Carried'
  <1> SUFFICES ASSUME OwnInv, Carried, SignalsNext PROVE Carried'
    OBVIOUS
  <1>1. ASSUME OutOfMemory PROVE Carried'
    BY <1>1, CallDone DEF OutOfMemory, LuaError, Carried, QueueCarries
  <1>2. CASE PushSignal
    <2>1. ASSUME NEW name, NEW arguments \in Arguments, NewUuid(name, arguments) PROVE Carried'
      BY <2>1, NewUuidCarries
    <2>2. CASE NewUuidHalts
      BY <2>2 DEF NewUuidHalts, Carried, QueueCarries, CallCarries
    <2>3. CASE Strdup
      BY <2>3, StrdupCarries
    <2>4. CASE StrdupFails \/ StoreFails
      BY <1>1, <2>4 DEF StrdupFails, StoreFails
    <2>5. CASE Store
      BY <2>5, StoreCarries
    <2>6. CASE Queue
      <3>1. Built(signal) /\ Tabled(heap, registry, signal)
        BY <2>6 DEF Queue, Carried, CallCarries
      <3> QED BY <2>6, <3>1, AppendCarries, CallDone DEF Queue, Carried
    <2>7. CASE TooManySignals
      <3>1. signal.kind \in Pushed
        BY <2>7 DEF TooManySignals, OwnInv, CallOwns
      <3> QED BY <2>7, <3>1, FreeCarries DEF TooManySignals
    <2> QED BY <1>2, <2>1, <2>2, <2>3, <2>4, <2>5, <2>6, <2>7 DEF PushSignal
  <1>3. CASE PullSignal
    <2>1. CASE Dequeue
      BY <2>1, DequeueCarries
    <2>2. CASE PushName
      BY <2>2, PushNameCarries
    <2>3. CASE PushNameFails \/ PushArgumentsFail
      BY <1>1, <2>3 DEF PushNameFails, PushArgumentsFail
    <2>4. CASE PushArguments
      BY <2>4, PushArgumentsCarries
    <2>5. CASE Release
      <3>1. signal.kind \in Pushed
        BY <2>5 DEF Release, OwnInv, CallOwns
      <3> QED BY <2>5, <3>1, FreeCarries DEF Release
    <2> QED BY <1>3, <2>1, <2>2, <2>3, <2>4, <2>5 DEF PullSignal
  <1>4. CASE KeyInterrupt
    <2>1. QueueCarries'
      BY <1>4, NothingCarried, AppendCarries DEF KeyInterrupt
    <2>2. CallCarries'
      BY <1>4 DEF KeyInterrupt, Carried, CallCarries
    <2> QED BY <2>1, <2>2 DEF Carried
  <1>5. CASE SetData
    BY <1>5, SetDataCarries
  <1> QED BY <1>2, <1>3, <1>4, <1>5 DEF SignalsNext

(* For any names and sequences of arguments, any memory and any length of    *)
(* the queue, with failures, setData and key interrupts in between: what     *)
(* pull_signal returns is what the signal was pushed with, in order.         *)
THEOREM PulledIsPushed == SignalsSpec => []PulledAsPushed
  <1>1. SignalsInit => Carried
    <2> SUFFICES ASSUME SignalsInit PROVE Carried
      OBVIOUS
    <2>1. signal = NoSignal /\ pc = "idle" /\ queue = <<>> /\ Len(queue) = 0
      BY DEF SignalsInit
    <2> QED BY <2>1, NothingCarried DEF Carried, QueueCarries, CallCarries
  <1>2. Carried /\ UNCHANGED <<heap, eeprom_vars, signals_vars>> => Carried'
    BY DEF Carried, QueueCarries, CallCarries, signals_vars
  <1>3. OwnInv /\ Carried /\ [SignalsNext]_<<heap, eeprom_vars, signals_vars>> => Carried'
    BY <1>2, CarriedStep
  <1>4. Carried => PulledAsPushed
    BY DEF Carried, CallCarries, PulledAsPushed
  <1> QED BY <1>1, <1>3, <1>4, SignalsBegin, OwnStep, PTL DEF SignalsSpec

-----------------------------------------------------------------------------
(* Induction over the natural numbers, for the loops of the other parts.      *)
LEMMA Induction ==
    ASSUME NEW S, 0 \in S, \A n \in Nat : n \in S => n + 1 \in S
    PROVE  \A n \in Nat : n \in S
  <1> DEFINE R == OpToRel(<, Nat)
  <1>1. IsWellFoundedOn(R, Nat)
    BY NatLessThanWellFounded
  <1>2. \A m, n \in Nat : m < n => <<m, n>> \in R
    BY DEF OpToRel
  <1> HIDE DEF R
  <1>3. SUFFICES ASSUME NEW T, T = Nat \ S, T # {} PROVE FALSE
    OBVIOUS
  <1>4. PICK x \in T : \A y \in T : ~ (<<y, x>> \in R)
    BY <1>1, <1>3, WFMin
  <1>5. x \in Nat /\ x # 0 /\ x - 1 \in Nat
    BY <1>3, <1>4
  <1>6. x - 1 \in T
    <2>1. (x - 1) + 1 = x
      BY <1>5
    <2> QED BY <1>3, <1>4, <1>5, <2>1
  <1>7. <<x - 1, x>> \in R
    BY <1>2, <1>5
  <1> QED BY <1>4, <1>6, <1>7, Zenon

-----------------------------------------------------------------------------
(* The lists of the registry: list 0 is the components', list c the methods' *)
(* of the c-th component.  Node(c, j) is the j-th node of list c, and Size(c)*)
(* is how many nodes it has.                                                 *)
Chains == 0 .. Len(Parts)
Most(c) == IF c = 0 THEN Len(Parts) ELSE Len(Parts[c].methods)
Node(c, j) == IF c = 0 THEN <<Parts[j].address>> ELSE <<Parts[c].address, Parts[c].methods[j]>>
Size(c) ==
    IF c = 0 THEN registered.parts
    ELSE IF c <= registered.parts THEN Len(Parts[c].methods)
    ELSE IF c = registered.parts + 1 /\ registered.methods > 0 THEN registered.methods
    ELSE 0

(* A list of k nodes, and where the k nodes of each list point to.           *)
IsList(list, c, k) ==
    /\ "first" \in DOMAIN list /\ "last" \in DOMAIN list
    /\ list.first = IF k = 0 THEN NoNode ELSE Node(c, 1)
    /\ list.last = IF k = 0 THEN NoNode ELSE Node(c, k)

Started == registered.parts + (IF registered.methods >= 0 THEN 1 ELSE 0)

NextInv ==
    /\ DOMAIN next = {Node(s[1], s[2]) : s \in {t \in Chains \X Nat : t[2] \in 1 .. Size(t[1])}}
    /\ \A c \in Chains : \A j \in 1 .. Size(c) :
           next[Node(c, j)] = IF j = Size(c) THEN NoNode ELSE Node(c, j + 1)

CountInv ==
    /\ registered \in [parts : 0 .. Len(Parts), methods : Int]
    /\ registered.methods >= -1
    /\ registered.methods >= 0 =>
           /\ registered.parts < Len(Parts)
           /\ registered.methods <= Len(Parts[registered.parts + 1].methods)

ListsInv ==
    /\ IsList(components, 0, Size(0))
    /\ DOMAIN methods = {Parts[i].address : i \in 1 .. Started}
    /\ \A i \in 1 .. Started : IsList(methods[Parts[i].address], i, Size(i))

RegistryInv == CountInv /\ NextInv /\ ListsInv

LEMMA PartsAre ==
    /\ Len(Parts) \in Nat /\ DOMAIN Parts = 1 .. Len(Parts)
    /\ \A i \in 1 .. Len(Parts) :
           /\ Parts[i] \in Range(Parts)
           /\ Parts[i].methods \in Seq(Range(Parts[i].methods))
           /\ Len(Parts[i].methods) \in Nat /\ DOMAIN Parts[i].methods = 1 .. Len(Parts[i].methods)
           /\ \A j \in 1 .. Len(Parts[i].methods) : Parts[i].methods[j] \in Range(Parts[i].methods)
  <1>1. Len(Parts) \in Nat /\ DOMAIN Parts = 1 .. Len(Parts)
    BY ComponentsAssumption, LenProperties
  <1>2. ASSUME NEW i \in 1 .. Len(Parts)
        PROVE  /\ Parts[i] \in Range(Parts)
               /\ Parts[i].methods \in Seq(Range(Parts[i].methods))
    BY <1>1, ComponentsAssumption DEF Range
  <1>3. ASSUME NEW i \in 1 .. Len(Parts)
        PROVE  /\ Len(Parts[i].methods) \in Nat /\ DOMAIN Parts[i].methods = 1 .. Len(Parts[i].methods)
               /\ \A j \in 1 .. Len(Parts[i].methods) : Parts[i].methods[j] \in Range(Parts[i].methods)
    BY <1>2, LenProperties, ElementOfSeq
  <1> QED BY <1>1, <1>2, <1>3

(* Addresses are distinct, and so are the methods of a component. *)
LEMMA Distinct ==
    /\ \A i, k \in 1 .. Len(Parts) : Parts[i].address = Parts[k].address => i = k
    /\ \A i \in 1 .. Len(Parts) : \A j, l \in 1 .. Len(Parts[i].methods) :
           Parts[i].methods[j] = Parts[i].methods[l] => j = l
  <1>1. ASSUME NEW i \in 1 .. Len(Parts), NEW k \in 1 .. Len(Parts), Parts[i].address = Parts[k].address
        PROVE  i = k
    <2> DEFINE f == [n \in DOMAIN Parts |-> Parts[n].address]
    <2>1. i \in DOMAIN f /\ k \in DOMAIN f /\ f[i] = f[k]
      BY <1>1, PartsAre
    <2>2. IsInjective(f)
      BY ComponentsAssumption
    <2> HIDE DEF f
    <2> QED BY <2>1, <2>2 DEF IsInjective
  <1>2. ASSUME NEW i \in 1 .. Len(Parts), NEW j \in 1 .. Len(Parts[i].methods), NEW l \in 1 .. Len(Parts[i].methods),
               Parts[i].methods[j] = Parts[i].methods[l]
        PROVE  j = l
    <2>1. IsInjective(Parts[i].methods)
      BY PartsAre, ComponentsAssumption
    <2> QED BY <1>2, <2>1, PartsAre DEF IsInjective
  <1> QED BY <1>1, <1>2

(* No two places have the same node. *)
LEMMA NodesDiffer ==
    ASSUME NEW c \in Chains, NEW d \in Chains, NEW j \in 1 .. Most(c), NEW l \in 1 .. Most(d)
    PROVE  /\ Node(c, j) # NoNode
           /\ Node(c, j) = Node(d, l) => c = d /\ j = l
  <1>1. c \in Nat /\ d \in Nat /\ Len(Parts) \in Nat
        /\ (c # 0 => c \in 1 .. Len(Parts)) /\ (d # 0 => d \in 1 .. Len(Parts))
    BY PartsAre DEF Chains
  <1>2. \A x, y, z : <<x>> # <<y, z>>
    <2> SUFFICES ASSUME NEW x, NEW y, NEW z, <<x>> = <<y, z>> PROVE FALSE
      OBVIOUS
    <2>1. Len(<<x>>) = 1 /\ Len(<<y, z>>) = 2
      OBVIOUS
    <2> QED BY <2>1
  <1>3. \A x, y : <<x>> = <<y>> => x = y
    OBVIOUS
  <1>4. \A x, y, z, w : <<x, y>> = <<z, w>> => x = z /\ y = w
    OBVIOUS
  <1>5. CASE c = 0
    <2>1. j \in 1 .. Len(Parts) /\ Node(c, j) = <<Parts[j].address>>
      BY <1>5 DEF Most, Node
    <2>2. Node(c, j) # NoNode
      BY <2>1, PartsAre, ComponentsAssumption
    <2>3. CASE d = 0
      <3>1. l \in 1 .. Len(Parts) /\ Node(d, l) = <<Parts[l].address>>
        BY <2>3 DEF Most, Node
      <3> QED BY <1>3, <1>5, <2>1, <2>2, <2>3, <3>1, Distinct
    <2>4. CASE d # 0
      <3>1. Node(d, l) = <<Parts[d].address, Parts[d].methods[l]>>
        BY <2>4 DEF Node
      <3> QED BY <1>2, <2>1, <2>2, <3>1
    <2> QED BY <2>3, <2>4
  <1>6. CASE c # 0
    <2>1. /\ c \in 1 .. Len(Parts) /\ j \in 1 .. Len(Parts[c].methods)
          /\ Node(c, j) = <<Parts[c].address, Parts[c].methods[j]>>
      BY <1>1, <1>6 DEF Most, Node
    <2>2. Node(c, j) # NoNode
      BY <2>1, PartsAre, ComponentsAssumption
    <2>3. CASE d = 0
      <3>1. Node(d, l) = <<Parts[l].address>>
        BY <2>3 DEF Node
      <3> QED BY <1>2, <2>1, <2>2, <3>1
    <2>4. CASE d # 0
      <3>1. /\ d \in 1 .. Len(Parts) /\ l \in 1 .. Len(Parts[d].methods)
            /\ Node(d, l) = <<Parts[d].address, Parts[d].methods[l]>>
        BY <1>1, <2>4 DEF Most, Node
      <3> QED BY <1>4, <2>1, <2>2, <3>1, Distinct
    <2> QED BY <2>3, <2>4
  <1> QED BY <1>5, <1>6

LEMMA SizesFit == CountInv => \A c \in Chains : Size(c) \in 0 .. Most(c)
  <1> SUFFICES ASSUME CountInv, NEW c \in Chains PROVE Size(c) \in 0 .. Most(c)
    OBVIOUS
  <1>1. registered.parts \in 0 .. Len(Parts) /\ registered.methods \in Int /\ Len(Parts) \in Nat
    BY PartsAre DEF CountInv
  <1>2. c # 0 => c \in 1 .. Len(Parts) /\ Len(Parts[c].methods) \in Nat
    BY PartsAre DEF Chains
  <1> QED BY <1>1, <1>2 DEF CountInv, Size, Most

-----------------------------------------------------------------------------
(* A loop over a list comes to all of its nodes.                             *)
Onward(c, j) == {Node(c, i) : i \in j .. Size(c)}
Reached(f, n) == {n} \cup (IF next[n] = NoNode THEN {} ELSE f[next[n]])

LEMMA OnwardSteps ==
    ASSUME CountInv, NextInv, NEW c \in Chains, NEW j \in 1 .. Size(c)
    PROVE  /\ Node(c, j) \in DOMAIN next /\ j \in Nat /\ Size(c) \in Nat
           /\ j = Size(c) => next[Node(c, j)] = NoNode /\ Onward(c, j) = {Node(c, j)}
           /\ j # Size(c) => /\ j + 1 \in 1 .. Size(c) /\ next[Node(c, j)] = Node(c, j + 1)
                             /\ next[Node(c, j)] # NoNode
                             /\ Onward(c, j) = {Node(c, j)} \cup Onward(c, j + 1)
  <1>1. Size(c) \in 0 .. Most(c) /\ Most(c) \in Nat
    <2>1. c # 0 => c \in 1 .. Len(Parts)
      BY PartsAre DEF Chains
    <2> QED BY <2>1, SizesFit, PartsAre DEF Most
  <1>2. j \in Nat /\ Size(c) \in Nat /\ j \in 1 .. Most(c)
    BY <1>1
  <1>3. Node(c, j) \in DOMAIN next
    <2>1. <<c, j>> \in {t \in Chains \X Nat : t[2] \in 1 .. Size(t[1])}
      BY <1>2
    <2> QED BY <2>1 DEF NextInv
  <1>4. next[Node(c, j)] = IF j = Size(c) THEN NoNode ELSE Node(c, j + 1)
    BY DEF NextInv
  <1>5. j .. Size(c) = {j} \cup (j + 1 .. Size(c))
    BY <1>2
  <1>6. Onward(c, j) = {Node(c, j)} \cup Onward(c, j + 1)
    BY <1>5 DEF Onward
  <1>7. j = Size(c) => Onward(c, j) = {Node(c, j)}
    <2>1. j .. j = {j}
      BY <1>2
    <2> QED BY <2>1 DEF Onward
  <1>8. ASSUME j # Size(c) PROVE j + 1 \in 1 .. Size(c) /\ Node(c, j + 1) # NoNode
    <2>1. j + 1 \in 1 .. Size(c) /\ j + 1 \in 1 .. Most(c)
      BY <1>1, <1>2, <1>8
    <2> QED BY <2>1, NodesDiffer
  <1> QED BY <1>2, <1>3, <1>4, <1>6, <1>7, <1>8

LEMMA NodesAre ==
    ASSUME CountInv, NextInv, NEW c \in Chains, NEW list, IsList(list, c, Size(c))
    PROVE  Nodes(list) = {Node(c, j) : j \in 1 .. Size(c)}
  <1> DEFINE Slots == {t \in Chains \X Nat : t[2] \in 1 .. Size(t[1])}
             Place(n) == CHOOSE s \in Slots : Node(s[1], s[2]) = n
             g == [n \in DOMAIN next |-> Onward(Place(n)[1], Place(n)[2])]
  <1>1. ASSUME NEW d \in Chains, NEW j \in 1 .. Size(d)
        PROVE  g[Node(d, j)] = Onward(d, j)
    <2>1. j \in Nat /\ Node(d, j) \in DOMAIN next
      BY OnwardSteps
    <2>2. <<d, j>> \in Slots /\ Node(<<d, j>>[1], <<d, j>>[2]) = Node(d, j)
      BY <2>1
    <2>3. Place(Node(d, j)) \in Slots /\ Node(Place(Node(d, j))[1], Place(Node(d, j))[2]) = Node(d, j)
      <3> HIDE DEF Slots
      <3> QED BY <2>2
    <2>4. PICK e \in Chains, l \in Nat : Place(Node(d, j)) = <<e, l>> /\ l \in 1 .. Size(e) /\ Node(e, l) = Node(d, j)
      <3> HIDE DEF Place
      <3> QED BY <2>3
    <2>5. j \in 1 .. Most(d) /\ l \in 1 .. Most(e)
      <3>1. Size(d) \in 0 .. Most(d) /\ Size(e) \in 0 .. Most(e) /\ Most(d) \in Nat /\ Most(e) \in Nat
        <4>1. (d # 0 => d \in 1 .. Len(Parts)) /\ (e # 0 => e \in 1 .. Len(Parts))
          BY PartsAre DEF Chains
        <4> QED BY <4>1, SizesFit, PartsAre DEF Most
      <3> QED BY <2>4, <3>1
    <2>6. e = d /\ l = j
      BY <2>4, <2>5, NodesDiffer
    <2>7. Place(Node(d, j)) = <<d, j>>
      <3> HIDE DEF Place
      <3> QED BY <2>4, <2>6
    <2>8. <<d, j>>[1] = d /\ <<d, j>>[2] = j
      OBVIOUS
    <2> HIDE DEF Place
    <2> QED BY <2>1, <2>7, <2>8
  <1>2. ASSUME NEW n \in DOMAIN next
        PROVE  \E d \in Chains : \E j \in 1 .. Size(d) : n = Node(d, j)
    BY DEF NextInv
  <1>3. ASSUME NEW n \in DOMAIN next PROVE g[n] = Reached(g, n)
    <2>1. PICK d \in Chains : \E j \in 1 .. Size(d) : n = Node(d, j)
      BY <1>2
    <2>2. PICK j \in 1 .. Size(d) : n = Node(d, j)
      BY <2>1
    <2> HIDE DEF g
    <2> QED BY <1>1, <2>2, OnwardSteps DEF Reached
  <1>4. g = [n \in DOMAIN next |-> Reached(g, n)]
    <2>1. g = [n \in DOMAIN next |-> g[n]]
      OBVIOUS
    <2> HIDE DEF g
    <2> QED BY <1>3, <2>1
  <1>5. PICK from : from = CHOOSE f : f = [n \in DOMAIN next |-> Reached(f, n)]
    OBVIOUS
  <1>6. from = [n \in DOMAIN next |-> Reached(from, n)]
    <2> HIDE DEF g
    <2> QED BY <1>4, <1>5
  <1>7. Nodes(list) = IF list.first = NoNode THEN {} ELSE from[list.first]
    BY <1>5 DEF Nodes, Reached
  <1>8. \A n \in DOMAIN next : from[n] = Reached(from, n)
    BY <1>6
  <1>9. Size(c) \in Nat
    <2>1. (c # 0 => c \in 1 .. Len(Parts))
      BY PartsAre DEF Chains
    <2> QED BY <2>1, SizesFit, PartsAre DEF Most
  <1> DEFINE Done == {k \in Nat : k < Size(c) => from[Node(c, Size(c) - k)] = Onward(c, Size(c) - k)}
  <1>10. 0 \in Done
    <2>1. ASSUME 0 < Size(c) PROVE from[Node(c, Size(c))] = Onward(c, Size(c))
      <3>1. Size(c) \in 1 .. Size(c)
        BY <1>9, <2>1
      <3> QED BY <1>8, <3>1, OnwardSteps DEF Reached
    <2>2. Size(c) - 0 = Size(c)
      BY <1>9
    <2> QED BY <2>1, <2>2
  <1>11. ASSUME NEW k \in Nat, k \in Done PROVE k + 1 \in Done
    <2>1. SUFFICES ASSUME k + 1 < Size(c)
                   PROVE  from[Node(c, Size(c) - (k + 1))] = Onward(c, Size(c) - (k + 1))
      OBVIOUS
    <2>2. PICK j \in 1 .. Size(c) : j = Size(c) - (k + 1) /\ j # Size(c) /\ j + 1 = Size(c) - k /\ k < Size(c)
      BY <1>9, <2>1
    <2>3. from[Node(c, j + 1)] = Onward(c, j + 1)
      BY <1>11, <2>2
    <2>4. from[Node(c, j)] = Onward(c, j)
      <3>1. /\ Node(c, j) \in DOMAIN next /\ next[Node(c, j)] = Node(c, j + 1) /\ next[Node(c, j)] # NoNode
            /\ Onward(c, j) = {Node(c, j)} \cup Onward(c, j + 1)
        BY <2>2, OnwardSteps
      <3>2. from[Node(c, j)] = {Node(c, j)} \cup from[Node(c, j + 1)]
        BY <1>8, <3>1 DEF Reached
      <3> QED BY <2>3, <3>1, <3>2
    <2> QED BY <2>2, <2>4
  <1>12. Size(c) > 0 => from[Node(c, 1)] = Onward(c, 1)
    <2> HIDE DEF Done
    <2>1. \A k \in Nat : k \in Done
      BY <1>10, <1>11, Induction
    <2>2. Size(c) > 0 => Size(c) - 1 \in Nat /\ Size(c) - 1 < Size(c) /\ Size(c) - (Size(c) - 1) = 1
      BY <1>9
    <2> QED BY <2>1, <2>2 DEF Done
  <1>13. CASE Size(c) = 0
    <2>1. 1 .. Size(c) = {}
      BY <1>13
    <2> QED BY <1>7, <1>13, <2>1 DEF IsList
  <1>14. CASE Size(c) # 0
    <2>1. Size(c) > 0 /\ 1 \in 1 .. Most(c)
      <3>1. Size(c) \in 0 .. Most(c) /\ Most(c) \in Nat
        <4>1. c # 0 => c \in 1 .. Len(Parts)
          BY PartsAre DEF Chains
        <4> QED BY <4>1, SizesFit, PartsAre DEF Most
      <3> QED BY <1>9, <1>14, <3>1
    <2>2. list.first = Node(c, 1) /\ Node(c, 1) # NoNode
      BY <1>14, <2>1, NodesDiffer DEF IsList
    <2> QED BY <1>7, <1>12, <2>1, <2>2 DEF Onward
  <1> QED BY <1>13, <1>14

-----------------------------------------------------------------------------
(* A node more for list d: the other lists stay.                             *)
LEMMA ListGrows ==
    ASSUME CountInv, NextInv, NEW d \in Chains, NEW list, IsList(list, d, Size(d)),
           Size(d) + 1 <= Most(d), next' = Linked(list, Node(d, Size(d) + 1)),
           \A c \in Chains : Size(c)' = IF c = d THEN Size(d) + 1 ELSE Size(c)
    PROVE  NextInv' /\ IsList(Appended(list, Node(d, Size(d) + 1)), d, Size(d) + 1)
  <1>1. \A c \in Chains : Size(c) \in Nat /\ Most(c) \in Nat /\ Size(c) <= Most(c)
    <2> SUFFICES ASSUME NEW c \in Chains PROVE Size(c) \in Nat /\ Most(c) \in Nat /\ Size(c) <= Most(c)
      OBVIOUS
    <2>1. Size(c) \in 0 .. Most(c)
      BY SizesFit
    <2>2. c # 0 => c \in 1 .. Len(Parts)
      BY PartsAre DEF Chains
    <2>3. Most(c) \in Nat
      BY <2>2, PartsAre DEF Most
    <2> QED BY <2>1, <2>3
  <1>2. PICK k \in Nat : k = Size(d)
    BY <1>1
  <1>3. PICK node : node = Node(d, k + 1)
    OBVIOUS
  <1>4. k + 1 \in 1 .. Most(d)
    BY <1>1, <1>2
  <1>5. ASSUME NEW c \in Chains, NEW j \in 1 .. Size(c)
        PROVE  /\ Node(c, j) \in DOMAIN next /\ Node(c, j) # node /\ j \in Nat /\ j \in 1 .. Most(c)
               /\ next[Node(c, j)] = IF j = Size(c) THEN NoNode ELSE Node(c, j + 1)
               /\ Node(c, j) = list.last <=> c = d /\ j = k
    <2>1. j \in Nat /\ j \in 1 .. Most(c) /\ j <= Size(c)
      BY <1>1
    <2>2. Node(c, j) # node
      <3>1. Node(c, j) = node => c = d /\ j = k + 1
        BY <1>3, <1>4, <2>1, NodesDiffer
      <3>2. ~ (c = d /\ j = k + 1)
        BY <1>2, <2>1
      <3> QED BY <3>1, <3>2
    <2>3. Node(c, j) = list.last <=> c = d /\ j = k
      <3>1. CASE k = 0
        <4>1. list.last = NoNode /\ Node(c, j) # NoNode
          BY <1>2, <2>1, <3>1, NodesDiffer DEF IsList
        <4> QED BY <3>1, <4>1
      <3>2. CASE k # 0
        <4>a. k \in 1 .. Most(d)
          BY <1>1, <1>2, <1>4, <3>2
        <4>1. list.last = Node(d, k) /\ k \in 1 .. Most(d)
          BY <1>2, <3>2, <4>a DEF IsList
        <4> QED BY <2>1, <4>1, NodesDiffer
      <3> QED BY <3>1, <3>2
    <2>4. Node(c, j) \in DOMAIN next
      BY OnwardSteps
    <2>5. next[Node(c, j)] = IF j = Size(c) THEN NoNode ELSE Node(c, j + 1)
      BY DEF NextInv
    <2> QED BY <2>1, <2>2, <2>3, <2>4, <2>5
  <1>6. next' = [n \in DOMAIN next \cup {node} |->
                    IF n = node THEN NoNode ELSE IF n = list.last THEN node ELSE next[n]]
    BY <1>2, <1>3 DEF Linked
  <1>7. ASSUME NEW c \in Chains, NEW j \in 1 .. Size(c)'
        PROVE  next'[Node(c, j)] = IF j = Size(c)' THEN NoNode ELSE Node(c, j + 1)
    <2>1. CASE c = d /\ j = k + 1
      <3>1. Node(c, j) = node /\ j = Size(c)'
        BY <1>2, <1>3, <2>1
      <3> QED BY <1>6, <3>1
    <2>2. CASE ~(c = d /\ j = k + 1)
      <3>1. j \in 1 .. Size(c)
        BY <1>1, <1>2, <2>2
      <3>2. Node(c, j) \in DOMAIN next /\ Node(c, j) # node /\ j \in Nat
            /\ next[Node(c, j)] = (IF j = Size(c) THEN NoNode ELSE Node(c, j + 1))
            /\ (Node(c, j) = list.last <=> c = d /\ j = k)
        BY <1>5, <3>1
      <3>3. CASE c = d /\ j = k
        <4>1. next'[Node(c, j)] = node
          BY <1>6, <3>2, <3>3
        <4>2. j # Size(c)'
          BY <1>2, <3>3
        <4> QED BY <1>3, <3>3, <4>1, <4>2
      <3>4. CASE ~(c = d /\ j = k)
        <4>1. next'[Node(c, j)] = next[Node(c, j)]
          BY <1>6, <3>2, <3>4
        <4>2. j = Size(c)' <=> j = Size(c)
          BY <1>2, <2>2, <3>4
        <4> QED BY <3>2, <4>1, <4>2
      <3> QED BY <3>3, <3>4
    <2> QED BY <2>1, <2>2
  <1> DEFINE Slots == {t \in Chains \X Nat : t[2] \in 1 .. Size(t[1])}
             Next2 == {t \in Chains \X Nat : t[2] \in 1 .. Size(t[1])'}
  <1>8. Next2 = Slots \cup {<<d, k + 1>>}
    <2>1. ASSUME NEW c \in Chains, NEW j \in Nat
          PROVE  j \in 1 .. Size(c)' <=> j \in 1 .. Size(c) \/ <<c, j>> = <<d, k + 1>>
      <3>1. <<c, j>> = <<d, k + 1>> <=> c = d /\ j = k + 1
        OBVIOUS
      <3> QED BY <1>1, <1>2, <3>1
    <2>2. <<d, k + 1>> \in Chains \X Nat
      BY <1>2
    <2>3. \A t \in Chains \X Nat : t[2] \in 1 .. Size(t[1])' <=> t[2] \in 1 .. Size(t[1]) \/ t = <<d, k + 1>>
      <3> SUFFICES ASSUME NEW t \in Chains \X Nat
                   PROVE  t[2] \in 1 .. Size(t[1])' <=> t[2] \in 1 .. Size(t[1]) \/ t = <<d, k + 1>>
        OBVIOUS
      <3>1. PICK c \in Chains, j \in Nat : t = <<c, j>> /\ t[1] = c /\ t[2] = j
        OBVIOUS
      <3> QED BY <2>1, <3>1
    <2>4. \A t \in Chains \X Nat : t \in Next2 <=> t \in Slots \/ t = <<d, k + 1>>
      BY <2>3
    <2> QED BY <2>2, <2>4
  <1>9. DOMAIN next' = {Node(s[1], s[2]) : s \in Next2}
    <2>1. DOMAIN next' = DOMAIN next \cup {node}
      BY <1>6
    <2>2. DOMAIN next = {Node(s[1], s[2]) : s \in Slots}
      BY DEF NextInv
    <2>3. <<d, k + 1>>[1] = d /\ <<d, k + 1>>[2] = k + 1
      OBVIOUS
    <2> HIDE DEF Slots, Next2
    <2>4. {Node(s[1], s[2]) : s \in Slots \cup {<<d, k + 1>>}}
              = {Node(s[1], s[2]) : s \in Slots} \cup {Node(d, k + 1)}
      BY <2>3
    <2> QED BY <1>3, <1>8, <2>1, <2>2, <2>4
  <1>10. NextInv'
    BY <1>7, <1>9 DEF NextInv
  <1>11. IsList(Appended(list, node), d, k + 1)
    <2>1. list.first = IF k = 0 THEN NoNode ELSE Node(d, 1)
      BY <1>2 DEF IsList
    <2>2. list.last = NoNode <=> k = 0
      <3>1. CASE k = 0
        BY <1>2, <3>1 DEF IsList
      <3>2. CASE k # 0
        <4>a. k \in 1 .. Most(d)
          BY <1>1, <1>2, <1>4, <3>2
        <4>1. list.last = Node(d, k) /\ k \in 1 .. Most(d)
          BY <1>2, <3>2, <4>a DEF IsList
        <4> QED BY <3>2, <4>1, NodesDiffer
      <3> QED BY <3>1, <3>2
    <2>3. k + 1 # 0 /\ (k = 0 => k + 1 = 1)
      BY <1>2
    <2> QED BY <1>3, <2>1, <2>2, <2>3 DEF IsList, Appended
  <1> QED BY <1>2, <1>3, <1>10, <1>11

LEMMA ListFrame ==
    ASSUME NextInv, next' = next, \A c \in Chains : Size(c)' = Size(c)
    PROVE  NextInv'
  <1>1. {t \in Chains \X Nat : t[2] \in 1 .. Size(t[1])'} = {t \in Chains \X Nat : t[2] \in 1 .. Size(t[1])}
    <2>1. \A t \in Chains \X Nat : Size(t[1])' = Size(t[1])
      OBVIOUS
    <2> QED BY <2>1
  <1>2. DOMAIN next' = {Node(s[1], s[2]) : s \in {t \in Chains \X Nat : t[2] \in 1 .. Size(t[1])'}}
    BY <1>1 DEF NextInv
  <1>3. \A c \in Chains : \A j \in 1 .. Size(c)' :
            next'[Node(c, j)] = IF j = Size(c)' THEN NoNode ELSE Node(c, j + 1)
    BY DEF NextInv
  <1> QED BY <1>2, <1>3 DEF NextInv

LEMMA EmptyIsList == \A c : IsList(Empty, c, 0)
  BY DEF IsList, Empty

LEMMA NewComponentKeeps == ASSUME RegistryInv, NewComponent PROVE RegistryInv'
  <1> USE DEF RegistryInv
  <1>1. PICK n \in 1 .. Len(Parts) : n = registered.parts + 1 /\ registered.methods = -1
                                     /\ Following = Parts[n] /\ registered.parts = n - 1
    <2>1. registered.parts \in Nat /\ Len(Parts) \in Nat /\ registered.parts < Len(Parts)
      BY PartsAre DEF CountInv, NewComponent
    <2> QED BY <2>1 DEF NewComponent, Following
  <1>2. registered' = [registered EXCEPT !.methods = 0] /\ UNCHANGED <<components, next>>
    BY DEF NewComponent
  <1>3. registered'.parts = registered.parts /\ registered'.methods = 0
    BY <1>2 DEF CountInv
  <1>4. CountInv'
    <2>1. registered' \in [parts : 0 .. Len(Parts), methods : Int]
      BY <1>2 DEF CountInv
    <2>2. Len(Parts[n].methods) \in Nat /\ Len(Parts) \in Nat
      BY PartsAre
    <2> QED BY <1>1, <1>3, <2>1, <2>2 DEF CountInv
  <1>5. \A c \in Chains : Size(c)' = Size(c)
    BY <1>1, <1>3 DEF Size
  <1>6. NextInv'
    BY <1>2, <1>5, ListFrame
  <1>7. Started = n - 1 /\ Started' = n
    BY <1>1, <1>3 DEF Started
  <1>8. IsList(components, 0, Size(0))'
    <2>1. 0 \in Chains
      BY PartsAre DEF Chains
    <2> QED BY <1>2, <1>5, <2>1 DEF ListsInv, IsList
  <1>9. methods' = [address \in DOMAIN methods \cup {Parts[n].address} |->
                       IF address = Parts[n].address THEN Empty ELSE methods[address]]
    BY <1>1 DEF NewComponent
  <1>10. 1 .. n = (1 .. n - 1) \cup {n}
    OBVIOUS
  <1>11. DOMAIN methods' = {Parts[i].address : i \in 1 .. n}
    BY <1>7, <1>9, <1>10 DEF ListsInv
  <1>12. ASSUME NEW i \in 1 .. n PROVE IsList(methods'[Parts[i].address], i, Size(i)')
    <2>1. i \in Chains /\ i \in Nat /\ i \in 1 .. Len(Parts)
      BY PartsAre DEF Chains
    <2>2. CASE i = n
      <3>1. Size(i) = 0 /\ Size(i)' = 0
        BY <1>1, <1>5, <2>1, <2>2 DEF Size
      <3>2. methods'[Parts[i].address] = Empty
        BY <1>9, <2>2
      <3> QED BY <3>1, <3>2, EmptyIsList
    <2>3. CASE i # n
      <3>1. i \in 1 .. n - 1
        BY <2>3
      <3>2. Parts[i].address # Parts[n].address
        BY <2>1, <2>3, Distinct
      <3>3. methods'[Parts[i].address] = methods[Parts[i].address]
        BY <1>7, <1>9, <3>1, <3>2 DEF ListsInv
      <3>4. IsList(methods[Parts[i].address], i, Size(i))
        BY <1>7, <3>1 DEF ListsInv
      <3> QED BY <1>5, <2>1, <3>3, <3>4
    <2> QED BY <2>2, <2>3
  <1>13. ListsInv'
    <2>1. \A i \in 1 .. n : IsList(methods[Parts[i].address], i, Size(i))'
      BY <1>12 DEF IsList
    <2> QED BY <1>7, <1>8, <1>11, <2>1 DEF ListsInv
  <1> QED BY <1>4, <1>6, <1>13

LEMMA AddMethodKeeps == ASSUME RegistryInv, AddMethod PROVE RegistryInv'
  <1> USE DEF RegistryInv
  <1>1. PICK n \in 1 .. Len(Parts) : n = registered.parts + 1 /\ Following = Parts[n]
                                     /\ registered.parts = n - 1
    <2>1. registered.parts \in Nat /\ Len(Parts) \in Nat /\ registered.parts < Len(Parts)
      BY PartsAre DEF CountInv, AddMethod
    <2> QED BY <2>1 DEF Following
  <1>2. Len(Parts[n].methods) \in Nat /\ n \in Chains /\ 0 \in Chains /\ n # 0 /\ Len(Parts) \in Nat
    BY PartsAre DEF Chains
  <1>3. PICK k \in Nat : k = registered.methods /\ k + 1 <= Len(Parts[n].methods)
    BY <1>1, <1>2 DEF AddMethod
  <1>4. registered' = [registered EXCEPT !.methods = @ + 1] /\ UNCHANGED components
    BY DEF AddMethod
  <1>5. registered'.parts = registered.parts /\ registered'.methods = k + 1
    BY <1>3, <1>4 DEF CountInv
  <1>6. CountInv'
    <2>1. registered' \in [parts : 0 .. Len(Parts), methods : Int]
      BY <1>4 DEF CountInv
    <2> QED BY <1>1, <1>2, <1>3, <1>5, <2>1 DEF CountInv
  <1>7. Size(n) = k /\ Most(n) = Len(Parts[n].methods)
    BY <1>1, <1>2, <1>3 DEF Size, Most
  <1>8. \A c \in Chains : Size(c)' = IF c = n THEN Size(n) + 1 ELSE Size(c)
    <2>1. ASSUME NEW c \in Chains PROVE Size(c)' = IF c = n THEN k + 1 ELSE Size(c)
      BY <1>1, <1>2, <1>3, <1>5 DEF Size
    <2> QED BY <1>7, <2>1
  <1>9. PICK address : address = Parts[n].address
    OBVIOUS
  <1>10. Started = n /\ Started' = n
    BY <1>1, <1>3, <1>5 DEF Started
  <1>11. address \in DOMAIN methods /\ IsList(methods[address], n, Size(n))
    <2>1. n \in 1 .. n
      OBVIOUS
    <2> QED BY <1>9, <1>10, <2>1 DEF ListsInv
  <1>12. PICK node : node = Node(n, Size(n) + 1)
    OBVIOUS
  <1>13. /\ methods' = [methods EXCEPT ![address] = Appended(methods[address], node)]
         /\ next' = Linked(methods[address], node)
    <2>1. node = <<address, Parts[n].methods[k + 1]>>
      BY <1>2, <1>7, <1>9, <1>12 DEF Node
    <2> QED BY <1>1, <1>3, <1>9, <2>1 DEF AddMethod
  <1>14. NextInv' /\ IsList(Appended(methods[address], node), n, Size(n) + 1)
    BY <1>2, <1>3, <1>7, <1>8, <1>11, <1>12, <1>13, ListGrows
  <1>15. IsList(components, 0, Size(0))'
    BY <1>2, <1>4, <1>8 DEF ListsInv, IsList
  <1>16. DOMAIN methods' = {Parts[i].address : i \in 1 .. n}
    BY <1>10, <1>13 DEF ListsInv
  <1>17. ASSUME NEW i \in 1 .. n PROVE IsList(methods'[Parts[i].address], i, Size(i)')
    <2>1. i \in Chains /\ i \in Nat /\ i \in 1 .. Len(Parts)
      BY PartsAre DEF Chains
    <2>2. CASE i = n
      <3>1. methods'[address] = Appended(methods[address], node)
        BY <1>11, <1>13
      <3> QED BY <1>2, <1>8, <1>9, <1>14, <2>2, <3>1
    <2>3. CASE i # n
      <3>1. Parts[i].address # address
        BY <1>9, <2>1, <2>3, Distinct
      <3>2. methods'[Parts[i].address] = methods[Parts[i].address]
        BY <1>10, <1>13, <3>1 DEF ListsInv
      <3>3. IsList(methods[Parts[i].address], i, Size(i))
        BY <1>10 DEF ListsInv
      <3> QED BY <1>8, <2>1, <2>3, <3>2, <3>3
    <2> QED BY <2>2, <2>3
  <1>18. ListsInv'
    <2>1. \A i \in 1 .. n : IsList(methods[Parts[i].address], i, Size(i))'
      BY <1>17 DEF IsList
    <2> QED BY <1>10, <1>15, <1>16, <2>1 DEF ListsInv
  <1> QED BY <1>6, <1>14, <1>18

LEMMA AddComponentKeeps == ASSUME RegistryInv, AddComponent PROVE RegistryInv'
  <1> USE DEF RegistryInv
  <1>1. PICK n \in 1 .. Len(Parts) : n = registered.parts + 1 /\ Following = Parts[n]
                                     /\ registered.parts = n - 1
    <2>1. registered.parts \in Nat /\ Len(Parts) \in Nat /\ registered.parts < Len(Parts)
      BY PartsAre DEF CountInv, AddComponent
    <2> QED BY <2>1 DEF Following
  <1>2. Len(Parts[n].methods) \in Nat /\ 0 \in Chains /\ Len(Parts) \in Nat /\ Most(0) = Len(Parts)
        /\ \A c \in Chains : c \in Nat
    BY PartsAre DEF Chains, Most
  <1>3. PICK m \in Nat : m = registered.methods /\ m = Len(Parts[n].methods) /\ n \in Nat
    BY <1>1, <1>2 DEF AddComponent
  <1>4. registered' = [parts |-> registered.parts + 1, methods |-> -1] /\ UNCHANGED methods
    BY DEF AddComponent
  <1>5. registered'.parts = n /\ registered'.methods = -1
    BY <1>1, <1>4
  <1>6. CountInv'
    BY <1>1, <1>2, <1>4, <1>5 DEF CountInv
  <1>7. Size(0) = n - 1
    BY <1>1 DEF Size
  <1>8. \A c \in Chains : Size(c)' = IF c = 0 THEN Size(0) + 1 ELSE Size(c)
    <2>1. ASSUME NEW c \in Chains, c # 0 PROVE Size(c)' = Size(c)
      <3>1. CASE c <= n - 1
        <4>1. c <= registered.parts
          BY <1>1, <3>1
        <4>2. c <= n
          BY <1>2, <1>3, <3>1
        <4>3. c <= registered'.parts
          BY <1>5, <4>2
        <4> QED BY <2>1, <4>1, <4>3 DEF Size
      <3>2. CASE c = n
        <4>1. Size(c)' = Len(Parts[n].methods)
          BY <1>2, <1>5, <2>1, <3>2 DEF Size
        <4>2. Size(c) = Len(Parts[n].methods)
          <5>1. registered.parts = n - 1 /\ ~ (n <= n - 1) /\ n = n - 1 + 1 /\ registered.methods = m
                /\ (m > 0 \/ m = 0)
            BY <1>1, <1>3
          <5>2. Size(c) = IF m > 0 THEN m ELSE 0
            BY <2>1, <3>2, <5>1 DEF Size
          <5> QED BY <1>3, <5>1, <5>2
        <4> QED BY <4>1, <4>2
      <3>3. CASE c > n
        <4>1. ~ (c <= n) /\ ~ (c <= n - 1) /\ c # n - 1 + 1
          BY <1>2, <1>3, <3>3
        <4>2. ~ (c <= registered'.parts) /\ ~ (registered'.methods > 0)
          BY <1>5, <4>1
        <4>3. ~ (c <= registered.parts) /\ c # registered.parts + 1
          BY <1>1, <4>1
        <4> QED BY <2>1, <4>2, <4>3 DEF Size
      <3> QED BY <1>2, <3>1, <3>2, <3>3
    <2>2. Size(0)' = n
      BY <1>5 DEF Size
    <2> QED BY <1>7, <2>1, <2>2
  <1>9. Started = n /\ Started' = n
    <2>1. registered.parts = n - 1 /\ registered.methods >= 0
      BY <1>1, <1>3
    <2>2. registered'.parts = n /\ ~ (registered'.methods >= 0)
      BY <1>5
    <2>3. n - 1 + 1 = n /\ n + 0 = n
      BY <1>3
    <2> QED BY <2>1, <2>2, <2>3 DEF Started
  <1>10. IsList(components, 0, Size(0))
    BY DEF ListsInv
  <1>11. PICK node : node = Node(0, Size(0) + 1)
    OBVIOUS
  <1>12. components' = Appended(components, node) /\ next' = Linked(components, node)
    <2>1. node = <<Parts[n].address>>
      BY <1>7, <1>11 DEF Node
    <2> QED BY <1>1, <2>1 DEF AddComponent
  <1>13. NextInv' /\ IsList(Appended(components, node), 0, Size(0) + 1)
    <2>1. Size(0) + 1 <= Most(0)
      BY <1>2, <1>7
    <2> QED BY <1>2, <1>8, <1>10, <1>11, <1>12, <2>1, ListGrows
  <1>14. IsList(components, 0, Size(0))'
    BY <1>2, <1>8, <1>12, <1>13 DEF IsList
  <1>15. \A i \in 1 .. n : IsList(methods[Parts[i].address], i, Size(i))'
    <2> SUFFICES ASSUME NEW i \in 1 .. n PROVE IsList(methods[Parts[i].address], i, Size(i))'
      OBVIOUS
    <2>1. i \in Chains /\ i # 0
      BY PartsAre DEF Chains
    <2>2. IsList(methods[Parts[i].address], i, Size(i))
      BY <1>9 DEF ListsInv
    <2> QED BY <1>4, <1>8, <2>1, <2>2 DEF IsList
  <1>16. ListsInv'
    BY <1>4, <1>9, <1>14, <1>15 DEF ListsInv
  <1> QED BY <1>6, <1>13, <1>16

LEMMA ComponentsBegin == ComponentsInit => RegistryInv
  <1> SUFFICES ASSUME ComponentsInit PROVE RegistryInv
    OBVIOUS
  <1>1. registered.parts = 0 /\ registered.methods = -1 /\ Len(Parts) \in Nat
    BY PartsAre DEF ComponentsInit
  <1>2. \A c \in Chains : Size(c) = 0
    BY <1>1 DEF Size, Chains
  <1>3. CountInv
    BY <1>1 DEF ComponentsInit, CountInv
  <1>4. DOMAIN next = {} /\ DOMAIN methods = {}
    BY EmptySeq DEF ComponentsInit
  <1>5. NextInv
    <2>1. {t \in Chains \X Nat : t[2] \in 1 .. Size(t[1])} = {}
      <3> SUFFICES ASSUME NEW t \in Chains \X Nat, t[2] \in 1 .. Size(t[1]) PROVE FALSE
        OBVIOUS
      <3>1. Size(t[1]) = 0
        BY <1>2
      <3> QED BY <3>1
    <2>2. \A c \in Chains : 1 .. Size(c) = {}
      BY <1>2
    <2> QED BY <1>4, <2>1, <2>2 DEF NextInv
  <1>6. ListsInv
    <2>1. Started = 0 /\ 1 .. Started = {}
      BY <1>1 DEF Started
    <2>2. Size(0) = 0
      BY <1>1 DEF Size
    <2>3. IsList(components, 0, Size(0))
      BY <2>2, EmptyIsList DEF ComponentsInit
    <2> QED BY <1>4, <2>1, <2>3 DEF ListsInv
  <1> QED BY <1>3, <1>5, <1>6 DEF RegistryInv

LEMMA RegistryStays == ASSUME RegistryInv, UNCHANGED registry_vars PROVE RegistryInv'
  <1>1. UNCHANGED <<components, methods, next, registered>>
    BY DEF registry_vars
  <1>2. \A c : Size(c)' = Size(c)
    BY <1>1 DEF Size
  <1>3. Started' = Started
    BY <1>1 DEF Started
  <1>4. CountInv'
    BY <1>1 DEF RegistryInv, CountInv
  <1>5. NextInv'
    BY <1>1, <1>2, ListFrame DEF RegistryInv
  <1>6. ListsInv'
    BY <1>1, <1>2, <1>3 DEF RegistryInv, ListsInv, IsList
  <1> QED BY <1>4, <1>5, <1>6 DEF RegistryInv

-----------------------------------------------------------------------------
(* What Lua finds.                                                           *)
LEMMA PartIs == \A i \in 1 .. Len(Parts) : Part(Parts[i].address) = Parts[i]
  <1> SUFFICES ASSUME NEW i \in 1 .. Len(Parts) PROVE Part(Parts[i].address) = Parts[i]
    OBVIOUS
  <1>1. Parts[i] \in Range(Parts)
    BY PartsAre
  <1>2. ASSUME NEW part \in Range(Parts), part.address = Parts[i].address PROVE part = Parts[i]
    <2>1. PICK k \in 1 .. Len(Parts) : part = Parts[k]
      BY PartsAre DEF Range
    <2> QED BY <1>2, <2>1, Distinct
  <1> QED BY <1>1, <1>2 DEF Part

LEMMA WholeSeq ==
    ASSUME NEW A, NEW a \in Seq(A)
    PROVE  /\ SubSeq(a, 1, Len(a)) = a
           /\ \A x, y : SubSeq(<<x, y>> \o a, 3, Len(<<x, y>> \o a)) = a
  <1>1. PICK l \in Nat : l = Len(a)
    BY LenProperties
  <1>2. SubSeq(a, 1, l) = a
    <2>1. \A i \in 1 .. l : a[i] \in A
      BY <1>1, ElementOfSeq
    <2>2. /\ SubSeq(a, 1, l) \in Seq(A) /\ Len(SubSeq(a, 1, l)) = IF 1 <= l THEN l - 1 + 1 ELSE 0
          /\ \A i \in 1 .. l - 1 + 1 : SubSeq(a, 1, l)[i] = a[1 + i - 1]
      BY <2>1, SubSeqProperties
    <2>3. l - 1 + 1 = l /\ (IF 1 <= l THEN l - 1 + 1 ELSE 0) = l /\ \A i \in 1 .. l : 1 + i - 1 = i
      OBVIOUS
    <2>4. Len(SubSeq(a, 1, l)) = l /\ \A i \in 1 .. l : SubSeq(a, 1, l)[i] = a[i]
      BY <2>2, <2>3
    <2> QED BY <1>1, <2>2, <2>4, SeqEqual
  <1>3. ASSUME NEW x, NEW y PROVE SubSeq(<<x, y>> \o a, 3, Len(<<x, y>> \o a)) = a
    <2> DEFINE B == A \cup {x, y}
    <2>1. a \in Seq(B)
      <3>1. a \in [1 .. l -> B]
        BY <1>1, LenProperties, ElementOfSeq
      <3> HIDE DEF B
      <3> QED BY <3>1, SeqDef
    <2>2. PICK two \in Seq(B) : two = <<x, y>> /\ Len(two) = 2
      <3>1. <<x, y>> \in Seq(B) /\ Len(<<x, y>>) = 2
        OBVIOUS
      <3> QED BY <3>1
    <2> HIDE DEF B
    <2>3. PICK all \in Seq(B) : all = two \o a
      BY <2>1, ConcatProperties
    <2>4. Len(all) = 2 + l /\ \A i \in 1 .. 2 + l : all[i] = IF i <= 2 THEN two[i] ELSE a[i - 2]
      BY <1>1, <2>1, <2>2, <2>3, ConcatProperties
    <2>5. \A i \in 3 .. 2 + l : all[i] \in B
      BY <2>4, ElementOfSeq
    <2>6. /\ SubSeq(all, 3, 2 + l) \in Seq(B)
          /\ Len(SubSeq(all, 3, 2 + l)) = IF 3 <= 2 + l THEN 2 + l - 3 + 1 ELSE 0
          /\ \A i \in 1 .. 2 + l - 3 + 1 : SubSeq(all, 3, 2 + l)[i] = all[3 + i - 1]
      BY <2>5, SubSeqProperties
    <2>7. 2 + l - 3 + 1 = l /\ (IF 3 <= 2 + l THEN 2 + l - 3 + 1 ELSE 0) = l
      OBVIOUS
    <2>8. \A i \in 1 .. l : all[3 + i - 1] = a[i]
      <3> SUFFICES ASSUME NEW i \in 1 .. l PROVE all[3 + i - 1] = a[i]
        OBVIOUS
      <3>1. 3 + i - 1 \in 1 .. 2 + l /\ ~ (3 + i - 1 <= 2) /\ (3 + i - 1) - 2 = i
        OBVIOUS
      <3> QED BY <2>4, <3>1
    <2>9. Len(SubSeq(all, 3, 2 + l)) = l /\ \A i \in 1 .. l : SubSeq(all, 3, 2 + l)[i] = a[i]
      BY <2>6, <2>7, <2>8
    <2>10. SubSeq(all, 3, 2 + l) = a
      BY <1>1, <2>1, <2>6, <2>9, SeqEqual
    <2> QED BY <2>2, <2>3, <2>4, <2>10
  <1> QED BY <1>1, <1>2, <1>3

(* The nodes of the registry's lists, as the code finds them. *)
LEMMA RegistryNodes ==
    ASSUME RegistryInv
    PROVE  /\ registered.parts \in 0 .. Len(Parts)
           /\ Nodes(components) = {<<Parts[i].address>> : i \in 1 .. registered.parts}
           /\ \A i \in 1 .. registered.parts : MethodsOf(Parts[i].address) = Range(Parts[i].methods)
  <1>1. registered.parts \in 0 .. Len(Parts) /\ Len(Parts) \in Nat /\ 0 \in Chains
    BY PartsAre DEF RegistryInv, CountInv, Chains
  <1>2. Nodes(components) = {<<Parts[i].address>> : i \in 1 .. registered.parts}
    <2>1. Size(0) = registered.parts /\ \A i : Node(0, i) = <<Parts[i].address>>
      BY DEF Size, Node
    <2>2. Nodes(components) = {Node(0, i) : i \in 1 .. Size(0)}
      BY <1>1, NodesAre DEF RegistryInv, ListsInv
    <2> QED BY <2>1, <2>2
  <1>3. ASSUME NEW i \in 1 .. registered.parts
        PROVE  MethodsOf(Parts[i].address) = Range(Parts[i].methods)
    <2>1. i \in Nat /\ i # 0 /\ i \in 1 .. Len(Parts) /\ i \in Chains /\ i <= registered.parts
      BY <1>1 DEF Chains
    <2>2. i \in 1 .. Started
      BY <1>1, <2>1 DEF Started
    <2>3. Size(i) = Len(Parts[i].methods)
      BY <2>1 DEF Size
    <2>4. IsList(methods[Parts[i].address], i, Size(i))
      BY <2>2 DEF RegistryInv, ListsInv
    <2>5. Nodes(methods[Parts[i].address]) = {Node(i, j) : j \in 1 .. Size(i)}
      BY <2>1, <2>4, NodesAre DEF RegistryInv
    <2>6. \A j : Node(i, j)[2] = Parts[i].methods[j]
      BY <2>1 DEF Node
    <2>7. MethodsOf(Parts[i].address) = {Node(i, j)[2] : j \in 1 .. Size(i)}
      BY <2>5 DEF MethodsOf
    <2>8. Range(Parts[i].methods) = {Parts[i].methods[j] : j \in 1 .. Len(Parts[i].methods)}
      BY <2>1, PartsAre DEF Range
    <2> QED BY <2>3, <2>6, <2>7, <2>8
  <1> QED BY <1>1, <1>2, <1>3

LEMMA KnownIs ==
    ASSUME RegistryInv, NEW i \in 1 .. Len(Parts)
    PROVE  Known(Parts[i].address) <=> i <= registered.parts
  <1>1. registered.parts \in 0 .. Len(Parts) /\ Len(Parts) \in Nat
    BY RegistryNodes, PartsAre
  <1>2. \A x, y : <<x>> = <<y>> <=> x = y
    OBVIOUS
  <1>3. Known(Parts[i].address) <=> \E k \in 1 .. registered.parts : Parts[k].address = Parts[i].address
    BY <1>2, RegistryNodes DEF Known
  <1>4. \A k \in 1 .. registered.parts : Parts[k].address = Parts[i].address => k = i
    <2>1. \A k \in 1 .. registered.parts : k \in 1 .. Len(Parts)
      BY <1>1
    <2> QED BY <2>1, Distinct
  <1>5. i <= registered.parts => i \in 1 .. registered.parts
    BY <1>1
  <1>6. \A k \in 1 .. registered.parts : k <= registered.parts
    BY <1>1
  <1> QED BY <1>3, <1>4, <1>5, <1>6

LEMMA ListedIs ==
    ASSUME RegistryInv, NEW i \in 1 .. Len(Parts)
    PROVE  /\ Parts[i].address \in DOMAIN ComponentList("", TRUE) => Known(Parts[i].address)
           /\ Known(Parts[i].address) => Parts[i].address \in DOMAIN ComponentList(Parts[i].name, TRUE)
  <1>1. \A n \in Nodes(components) : n = <<n[1]>>
    BY RegistryNodes
  <1>2. <<Parts[i].address>>[1] = Parts[i].address
    OBVIOUS
  <1>3. ASSUME Parts[i].address \in DOMAIN ComponentList("", TRUE) PROVE Known(Parts[i].address)
    <2>1. PICK n \in Nodes(components) : n[1] = Parts[i].address
      BY <1>3 DEF ComponentList
    <2> QED BY <1>1, <2>1 DEF Known
  <1>4. ASSUME Known(Parts[i].address)
        PROVE  Parts[i].address \in DOMAIN ComponentList(Parts[i].name, TRUE)
    <2>1. <<Parts[i].address>> \in Nodes(components)
      BY <1>4 DEF Known
    <2>2. Part(<<Parts[i].address>>[1]).name = Parts[i].name
      BY <1>2, PartIs
    <2> QED BY <1>2, <2>1, <2>2 DEF ComponentList
  <1> QED BY <1>3, <1>4

LEMMA InvokedWhole ==
    ASSUME RegistryInv, NEW i \in 1 .. Len(Parts), Known(Parts[i].address),
           NEW method \in Range(Parts[i].methods), NEW arguments \in Passed
    PROVE  LET seen == [method |-> method, data |-> Parts[i].data, arguments |-> arguments]
           IN  /\ ComponentInvoke(Parts[i].address, method, arguments) = seen
               /\ method \notin FixedStart => ProxyCall(Parts[i].address, method, arguments) = seen
  <1>1. PICK A : arguments \in Seq(A)
    BY ComponentsAssumption
  <1>2. PICK address : address = Parts[i].address /\ Part(address) = Parts[i] /\ Known(address)
    BY PartIs
  <1>3. method \in MethodsOf(address)
    <2>1. i \in 1 .. registered.parts
      <3>1. i <= registered.parts /\ registered.parts \in 0 .. Len(Parts) /\ Len(Parts) \in Nat
        BY KnownIs, RegistryNodes, PartsAre
      <3> QED BY <3>1
    <2> QED BY <1>2, <2>1, RegistryNodes
  <1>4. SubSeq(<<address, method>> \o arguments, 3, Len(<<address, method>> \o arguments)) = arguments
    BY <1>1, WholeSeq
  <1>5. SubSeq(arguments, 1, Len(arguments)) = arguments
    BY <1>1, WholeSeq
  <1>6. ComponentInvoke(address, method, arguments)
            = [method |-> method, data |-> Parts[i].data, arguments |-> arguments]
    BY <1>2, <1>3, <1>4, Zenon DEF ComponentInvoke, Invoke
  <1>7. method \notin FixedStart => ProxyCall(address, method, arguments)
            = [method |-> method, data |-> Parts[i].data, arguments |-> arguments]
    BY <1>2, <1>5, Zenon DEF ProxyCall, Invoke
  <1> QED BY <1>2, <1>6, <1>7

LEMMA CallsFound == RegistryInv => CallsAgree
  <1> SUFFICES ASSUME RegistryInv PROVE CallsAgree
    OBVIOUS
  <1>1. ASSUME NEW i \in 1 .. Len(Parts), i > registered.parts
        PROVE  /\ Parts[i].address \notin DOMAIN ComponentList("", TRUE)
               /\ NoSuchComponent \in {ComponentType(Parts[i].address), ComponentProxy(Parts[i].address)}
    <2>1. ~Known(Parts[i].address)
      <3>1. registered.parts \in 0 .. Len(Parts) /\ Len(Parts) \in Nat
        BY RegistryNodes, PartsAre
      <3>2. ~ (i <= registered.parts)
        BY <1>1, <3>1
      <3> QED BY <3>2, KnownIs
    <2> QED BY <2>1, ListedIs DEF ComponentType
  <1>2. ASSUME NEW i \in 1 .. Len(Parts), ~ (i > registered.parts)
        PROVE  /\ ComponentType(Parts[i].address) = Parts[i].name
               /\ Parts[i].address \in DOMAIN ComponentList(Parts[i].name, TRUE)
               /\ ComponentMethods(Parts[i].address) = Range(Parts[i].methods)
               /\ ComponentProxy(Parts[i].address).functions = Range(Parts[i].methods)
               /\ \A method \in Range(Parts[i].methods), arguments \in Passed :
                      LET seen == [method |-> method, data |-> Parts[i].data, arguments |-> arguments]
                      IN  /\ ComponentInvoke(Parts[i].address, method, arguments) = seen
                          /\ method \notin FixedStart =>
                                 ProxyCall(Parts[i].address, method, arguments) = seen
    <2>1. i <= registered.parts /\ i \in 1 .. registered.parts
      <3>1. registered.parts \in 0 .. Len(Parts) /\ Len(Parts) \in Nat
        BY RegistryNodes, PartsAre
      <3> QED BY <1>2, <3>1
    <2>2. Known(Parts[i].address) /\ Part(Parts[i].address) = Parts[i]
      BY <2>1, KnownIs, PartIs
    <2>3. MethodsOf(Parts[i].address) = Range(Parts[i].methods)
      BY <2>1, RegistryNodes
    <2>4. ComponentType(Parts[i].address) = Parts[i].name
      BY <2>2 DEF ComponentType
    <2>5. ComponentMethods(Parts[i].address) = Range(Parts[i].methods)
      BY <2>2, <2>3 DEF ComponentMethods
    <2>6. ComponentProxy(Parts[i].address).functions = Range(Parts[i].methods)
      BY <2>2, <2>3 DEF ComponentProxy
    <2>7. Parts[i].address \in DOMAIN ComponentList(Parts[i].name, TRUE)
      BY <2>2, ListedIs
    <2>8. \A method \in Range(Parts[i].methods), arguments \in Passed :
              LET seen == [method |-> method, data |-> Parts[i].data, arguments |-> arguments]
              IN  /\ ComponentInvoke(Parts[i].address, method, arguments) = seen
                  /\ method \notin FixedStart => ProxyCall(Parts[i].address, method, arguments) = seen
      BY <2>2, InvokedWhole
    <2> QED BY <2>4, <2>5, <2>6, <2>7, <2>8
  <1>3. DOMAIN Parts = 1 .. Len(Parts)
    BY PartsAre
  <1> QED BY <1>1, <1>2, <1>3, Zenon DEF CallsAgree

LEMMA RegisterKeeps == RegistryInv /\ [Register]_registry_vars => RegistryInv'
  BY NewComponentKeeps, AddMethodKeeps, AddComponentKeeps, RegistryStays DEF Register

-----------------------------------------------------------------------------
(* What starts as a and is stepped by F n times.                             *)
Steps(f, n, a, F) == f[0] = a /\ \A k \in 1 .. n : f[k] = F[<<k, f[k - 1]>>]

LEMMA Stepped ==
    ASSUME NEW A, NEW a \in A, NEW n \in Nat, NEW F \in [(1 .. n) \X A -> A]
    PROVE  \E f \in [0 .. n -> A] : Steps(f, n, a, F)
  <1> DEFINE Stepping(f, k) == f[0] = a /\ \A i \in 1 .. k : f[i] = F[<<i, f[i - 1]>>]
             Done == {k \in Nat : k <= n => \E f \in [0 .. k -> A] : Stepping(f, k)}
  <1>1. 0 \in Done
    <2>1. [i \in 0 .. 0 |-> a] \in [0 .. 0 -> A] /\ Stepping([i \in 0 .. 0 |-> a], 0)
      OBVIOUS
    <2> QED BY <2>1
  <1>2. ASSUME NEW k \in Nat, k \in Done PROVE k + 1 \in Done
    <2>1. SUFFICES ASSUME k + 1 <= n PROVE \E f \in [0 .. k + 1 -> A] : Stepping(f, k + 1)
      OBVIOUS
    <2>2. PICK f \in [0 .. k -> A] : Stepping(f, k)
      BY <1>2, <2>1
    <2> DEFINE g == [i \in 0 .. k + 1 |-> IF i <= k THEN f[i] ELSE F[<<k + 1, f[k]>>]]
    <2>3. F[<<k + 1, f[k]>>] \in A
      BY <2>1, <2>2
    <2>4. g \in [0 .. k + 1 -> A] /\ g[0] = a
      BY <2>2, <2>3
    <2>5. ASSUME NEW i \in 1 .. k + 1 PROVE g[i] = F[<<i, g[i - 1]>>]
      <3>1. CASE i <= k
        <4>1. i \in 1 .. k /\ g[i] = f[i] /\ g[i - 1] = f[i - 1]
          BY <3>1
        <4> HIDE DEF g
        <4> QED BY <2>2, <4>1
      <3>2. CASE i = k + 1
        <4>1. g[i] = F[<<k + 1, f[k]>>] /\ g[i - 1] = f[k]
          BY <3>2
        <4> HIDE DEF g
        <4> QED BY <3>2, <4>1
      <3>3. i <= k \/ i = k + 1
        OBVIOUS
      <3> QED BY <3>1, <3>2, <3>3
    <2> HIDE DEF g
    <2> QED BY <2>4, <2>5
  <1> HIDE DEF Done
  <1>3. n \in Done
    BY <1>1, <1>2, Induction
  <1> QED BY <1>3 DEF Done, Steps

(* FlattenSeq puts the sequences one behind the other: F holds what there is *)
(* after each of them.                                                       *)
Joined(F, seqs, n) == F[0] = <<>> /\ \A i \in 1 .. n : F[i] = F[i - 1] \o seqs[i]
Flattens(seqs, n, F) == FlattenSeq([i \in 1 .. n |-> seqs[i]]) = F[n]

LEMMA JoinedExists ==
    ASSUME NEW T, NEW n \in Nat, NEW seqs \in [1 .. n -> Seq(T)]
    PROVE  \E F \in [0 .. n -> Seq(T)] : Joined(F, seqs, n)
  <1> DEFINE G == [e \in (1 .. n) \X Seq(T) |-> e[2] \o seqs[e[1]]]
  <1>1. G \in [(1 .. n) \X Seq(T) -> Seq(T)] /\ <<>> \in Seq(T)
    BY ConcatProperties, EmptySeq
  <1>2. PICK F \in [0 .. n -> Seq(T)] : Steps(F, n, <<>>, G)
    <2> HIDE DEF G
    <2> QED BY <1>1, Stepped
  <1>3. ASSUME NEW i \in 1 .. n PROVE F[i] = F[i - 1] \o seqs[i]
    <2>1. F[i] = G[<<i, F[i - 1]>>] /\ F[i - 1] \in Seq(T)
      <3>1. i - 1 \in 0 .. n
        OBVIOUS
      <3> HIDE DEF G
      <3> QED BY <1>2, <3>1, Zenon DEF Steps
    <2> QED BY <2>1
  <1> QED BY <1>2, <1>3 DEF Joined, Steps

LEMMA FlattenIsJoined ==
    ASSUME NEW T, NEW n \in Nat, NEW seqs \in [1 .. n -> Seq(T)],
           NEW F \in [0 .. n -> Seq(T)], Joined(F, seqs, n), NEW k \in 0 .. n
    PROVE  Flattens(seqs, k, F)
  <1> DEFINE s == [i \in 1 .. k |-> seqs[i]]
  <1>1. s \in Seq(Seq(T)) /\ Len(s) = k /\ \A i \in 1 .. k : s[i] = seqs[i]
    OBVIOUS
  <1> HIDE DEF s
  <1>2. CASE k = 0
    <2>1. s = <<>>
      BY <1>1, <1>2, EmptySeq
    <2> QED BY <1>1, <1>2, <2>1 DEF FlattenSeq, Joined, s, Flattens
  <1>3. CASE k # 0
    <2> DEFINE Step(f, i) == IF i = 1 THEN s[i] ELSE f[i - 1] \o s[i]
               g == [i \in 1 .. k |-> F[i]]
    <2>1. PICK flatten : flatten = CHOOSE f : f = [i \in 1 .. k |-> Step(f, i)]
      OBVIOUS
    <2>2. FlattenSeq(s) = flatten[k]
      BY <1>1, <1>3, <2>1 DEF FlattenSeq
    <2>3. ASSUME NEW i \in 1 .. k PROVE F[i] = Step(g, i)
      <3>0. i \in 1 .. n
        OBVIOUS
      <3>1. F[i] = F[i - 1] \o seqs[i] /\ s[i] = seqs[i] /\ seqs[i] \in Seq(T)
        BY <1>1, <3>0, Zenon DEF Joined
      <3>2. CASE i = 1
        <4>1. <<>> \o seqs[i] = seqs[i]
          BY <3>1, ConcatEmptySeq
        <4>2. F[i - 1] = <<>>
          BY <3>2 DEF Joined
        <4>3. Step(g, i) = s[i]
          BY <3>2
        <4> QED BY <3>1, <4>1, <4>2, <4>3, Zenon
      <3>3. CASE i # 1
        <4>1. g[i - 1] = F[i - 1]
          BY <3>3
        <4>2. Step(g, i) = g[i - 1] \o s[i]
          BY <3>3, Zenon
        <4> QED BY <3>1, <4>1, <4>2, Zenon
      <3> QED BY <3>2, <3>3
    <2>4. g = [i \in 1 .. k |-> Step(g, i)]
      BY <2>3
    <2> HIDE DEF g
    <2>5. flatten = [i \in 1 .. k |-> Step(flatten, i)]
      BY <2>1, <2>4
    <2>6. \A i \in 1 .. k : flatten[i] = Step(flatten, i)
      BY <2>5
    <2> DEFINE Same == {i \in Nat : i + 1 <= k => flatten[i + 1] = F[i + 1]}
    <2>7. 0 \in Same
      <3>0. 1 \in 1 .. k
        BY <1>3
      <3>1. 1 \in 1 .. k /\ flatten[1] = Step(flatten, 1)
        BY <2>6, <3>0, Zenon
      <3>2. F[1] = Step(g, 1)
        BY <2>3, <3>1
      <3> QED BY <3>1, <3>2
    <2>8. ASSUME NEW i \in Nat, i \in Same PROVE i + 1 \in Same
      <3>1. SUFFICES ASSUME i + 2 <= k PROVE flatten[i + 2] = F[i + 2]
        OBVIOUS
      <3>2. i + 2 \in 1 .. k /\ i + 2 # 1 /\ (i + 2) - 1 = i + 1 /\ i + 1 \in 1 .. k
        BY <3>1
      <3>3. flatten[i + 2] = flatten[i + 1] \o s[i + 2]
        BY <2>6, <3>2
      <3>4. F[i + 2] = F[i + 1] \o seqs[i + 2]
        <4>1. i + 2 \in 1 .. n
          BY <3>2
        <4>2. F[i + 2] = F[(i + 2) - 1] \o seqs[i + 2]
          BY <4>1, Zenon DEF Joined
        <4> QED BY <3>2, <4>2, Zenon
      <3>5. flatten[i + 1] = F[i + 1] /\ s[i + 2] = seqs[i + 2]
        BY <1>1, <2>8, <3>2
      <3> QED BY <3>3, <3>4, <3>5, Zenon
    <2> HIDE DEF Same
    <2>9. k - 1 \in Same
      <3>1. k - 1 \in Nat
        BY <1>3
      <3> QED BY <2>7, <2>8, <3>1, Induction
    <2>10. flatten[k] = F[k]
      BY <1>3, <2>9 DEF Same
    <2> QED BY <2>2, <2>10 DEF s, Flattens
  <1> QED BY <1>2, <1>3


-----------------------------------------------------------------------------
(* The bytes of a text are those of its parts, one behind the other.         *)
Chars == DOMAIN Encoding
AnyByte == Chars \cup {Continuation}

LEMMA ByteSeqs ==
    /\ <<>> \in Seq(AnyByte) /\ Nul \in AnyByte /\ Nul \in Chars /\ Continuation \in AnyByte
    /\ Continuation \notin Chars /\ Nul # Continuation
    /\ \A c \in Chars : /\ Encoding[c] \in Seq(AnyByte) /\ Len(Encoding[c]) \in Nat \ {0}
                        /\ Encoding[c][1] = c
                        /\ \A k \in 2 .. Len(Encoding[c]) : Encoding[c][k] = Continuation
  <1>1. Nul \in Chars /\ Continuation \notin Chars
    BY UnicodeAssumption DEF Chars
  <1>2. ASSUME NEW c \in Chars
        PROVE  /\ Encoding[c] \in Seq(AnyByte) /\ Len(Encoding[c]) \in Nat \ {0}
               /\ Encoding[c][1] = c
               /\ \A k \in 2 .. Len(Encoding[c]) : Encoding[c][k] = Continuation
    <2>1. PICK e : e = Encoding[c]
      OBVIOUS
    <2>2. /\ e \in Seq({c, Continuation}) /\ e # <<>>
          /\ \A k \in DOMAIN e : e[k] = IF k = 1 THEN c ELSE Continuation
      BY <2>1, UnicodeAssumption DEF Chars
    <2>3. Len(e) \in Nat /\ DOMAIN e = 1 .. Len(e) /\ Len(e) # 0
      BY <2>2, LenProperties, EmptySeq
    <2>4. e[1] = c /\ \A k \in 2 .. Len(e) : e[k] = Continuation
      <3>1. 1 \in DOMAIN e /\ \A k \in 2 .. Len(e) : k \in DOMAIN e /\ k # 1
        BY <2>3
      <3> QED BY <2>2, <3>1
    <2>5. e \in Seq(AnyByte)
      <3>1. \A k \in 1 .. Len(e) : e[k] \in AnyByte
        <4>1. \A k \in 1 .. Len(e) : e[k] \in {c, Continuation}
          BY <2>2, <2>3, ElementOfSeq
        <4> QED BY <4>1 DEF AnyByte
      <3>2. e \in [1 .. Len(e) -> AnyByte]
        BY <2>2, <3>1, LenProperties
      <3> QED BY <2>3, <3>2, SeqDef
    <2> QED BY <2>1, <2>3, <2>4, <2>5
  <1> QED BY <1>1, <1>2, EmptySeq DEF AnyByte

Encoded(text) == [i \in 1 .. Len(text) |-> Encoding[text[i]]]

LEMMA BytesJoined ==
    ASSUME NEW text \in Seq(Chars)
    PROVE  \E F \in [0 .. Len(text) -> Seq(AnyByte)] :
               /\ Joined(F, Encoded(text), Len(text))
               /\ F[Len(text)] = Bytes(text)
  <1>1. PICK n \in Nat : n = Len(text) /\ DOMAIN text = 1 .. n
    BY LenProperties
  <1>2. PICK seqs : seqs = Encoded(text)
    OBVIOUS
  <1>3. seqs \in [1 .. n -> Seq(AnyByte)]
    <2>1. \A i \in 1 .. n : Encoding[text[i]] \in Seq(AnyByte)
      BY <1>1, ElementOfSeq, ByteSeqs
    <2> QED BY <1>1, <1>2, <2>1 DEF Encoded
  <1>4. PICK F \in [0 .. n -> Seq(AnyByte)] : Joined(F, seqs, n)
    BY <1>3, JoinedExists
  <1>5. Flattens(seqs, n, F)
    <2>1. n \in 0 .. n
      OBVIOUS
    <2> QED BY <1>3, <1>4, <2>1, FlattenIsJoined
  <1>6. FlattenSeq(seqs) = F[n]
    <2>1. [i \in 1 .. n |-> seqs[i]] = seqs
      BY <1>3
    <2> QED BY <1>5, <2>1 DEF Flattens
  <1>7. Bytes(text) = FlattenSeq(seqs)
    <2>1. seqs = [i \in DOMAIN text |-> Encoding[text[i]]]
      BY <1>1, <1>2 DEF Encoded
    <2> QED BY <2>1 DEF Bytes
  <1> QED BY <1>1, <1>2, <1>4, <1>6, <1>7

LEMMA BytesSeq == ASSUME NEW text \in Seq(Chars) PROVE Bytes(text) \in Seq(AnyByte)
  <1>1. Len(text) \in Nat
    BY LenProperties
  <1>2. Len(text) \in 0 .. Len(text)
    BY <1>1
  <1> QED BY <1>2, BytesJoined

(* There is only one way to join. *)
Inside(all, a, seqs, n) == \A i \in 1 .. n : all[a + i] = seqs[i]
Continues(G, a, p, F, n) == \A k \in 0 .. n : G[a + k] = p \o F[k]

LEMMA JoinedSame ==
    ASSUME NEW n \in Nat, NEW seqs, NEW F, NEW G, NEW T, NEW a \in Nat, NEW p \in Seq(T),
           Joined(F, seqs, n), NEW m \in Nat, a + n <= m, NEW all, Joined(G, all, m),
           F \in [0 .. n -> Seq(T)], seqs \in [1 .. n -> Seq(T)],
           G[a] = p, Inside(all, a, seqs, n)
    PROVE  Continues(G, a, p, F, n)
  <1> DEFINE Same == {k \in Nat : k <= n => G[a + k] = p \o F[k]}
  <1>1. 0 \in Same
    <2>1. F[0] = <<>> /\ a + 0 = a
      BY DEF Joined
    <2>2. p \o <<>> = p
      BY ConcatEmptySeq
    <2> QED BY <2>1, <2>2
  <1>2. ASSUME NEW k \in Nat, k \in Same PROVE k + 1 \in Same
    <2>1. SUFFICES ASSUME k + 1 <= n PROVE G[a + (k + 1)] = p \o F[k + 1]
      OBVIOUS
    <2>2. k + 1 \in 1 .. n /\ (k + 1) - 1 = k /\ k \in 0 .. n /\ k <= n
          /\ a + (k + 1) \in 1 .. m /\ (a + (k + 1)) - 1 = a + k
      BY <2>1
    <2>3. F[k + 1] = F[k] \o seqs[k + 1]
      <3>1. F[k + 1] = F[(k + 1) - 1] \o seqs[k + 1]
        BY <2>2, Zenon DEF Joined
      <3> QED BY <2>2, <3>1, Zenon
    <2>4. G[a + (k + 1)] = G[a + k] \o all[a + (k + 1)]
      <3>1. G[a + (k + 1)] = G[(a + (k + 1)) - 1] \o all[a + (k + 1)]
        BY <2>2, Zenon DEF Joined
      <3> QED BY <2>2, <3>1, Zenon
    <2>5. G[a + k] = p \o F[k] /\ all[a + (k + 1)] = seqs[k + 1]
      BY <1>2, <2>2 DEF Inside
    <2>6. PICK f \in Seq(T) : f = F[k]
      BY <2>2
    <2>7. PICK s \in Seq(T) : s = seqs[k + 1]
      BY <2>2
    <2>8. (p \o f) \o s = p \o (f \o s)
      BY ConcatAssociative
    <2> QED BY <2>3, <2>4, <2>5, <2>6, <2>7, <2>8
  <1>3. \A k \in Nat : k \in Same
    <2> HIDE DEF Same
    <2> QED BY <1>1, <1>2, Induction
  <1>4. ASSUME NEW k \in 0 .. n PROVE G[a + k] = p \o F[k]
    <2>1. k \in Nat /\ k <= n
      OBVIOUS
    <2>2. k \in Same
      <3> HIDE DEF Same
      <3> QED BY <1>3, <2>1
    <2> QED BY <2>1, <2>2
  <1> QED BY <1>4 DEF Continues

LEMMA BytesConcat ==
    ASSUME NEW t \in Seq(Chars), NEW u \in Seq(Chars)
    PROVE  t \o u \in Seq(Chars) /\ Bytes(t \o u) = Bytes(t) \o Bytes(u)
  <1>1. PICK a \in Nat, n \in Nat : a = Len(t) /\ n = Len(u)
    BY LenProperties
  <1>2. PICK all \in Seq(Chars) : all = t \o u
    BY ConcatProperties
  <1>3. Len(all) = a + n /\ \A i \in 1 .. a + n : all[i] = IF i <= a THEN t[i] ELSE u[i - a]
    BY <1>1, <1>2, ConcatProperties
  <1>4. PICK F \in [0 .. a -> Seq(AnyByte)] : Joined(F, Encoded(t), a) /\ F[a] = Bytes(t)
    BY <1>1, BytesJoined
  <1>5. PICK H \in [0 .. n -> Seq(AnyByte)] : Joined(H, Encoded(u), n) /\ H[n] = Bytes(u)
    BY <1>1, BytesJoined
  <1>6. PICK G \in [0 .. a + n -> Seq(AnyByte)] : Joined(G, Encoded(all), a + n) /\ G[a + n] = Bytes(all)
    BY <1>3, BytesJoined
  <1>7. Encoded(t) \in [1 .. a -> Seq(AnyByte)] /\ Encoded(u) \in [1 .. n -> Seq(AnyByte)]
    <2>1. \A i \in 1 .. a : Encoding[t[i]] \in Seq(AnyByte)
      BY <1>1, ElementOfSeq, ByteSeqs
    <2>2. \A i \in 1 .. n : Encoding[u[i]] \in Seq(AnyByte)
      BY <1>1, ElementOfSeq, ByteSeqs
    <2> QED BY <1>1, <2>1, <2>2 DEF Encoded
  <1>8. Inside(Encoded(all), 0, Encoded(t), a)
    <2> SUFFICES ASSUME NEW i \in 1 .. a PROVE Encoded(all)[0 + i] = Encoded(t)[i]
      BY DEF Inside
    <2>1. 0 + i = i /\ i \in 1 .. a + n /\ i <= a
      OBVIOUS
    <2> QED BY <1>1, <1>3, <2>1 DEF Encoded
  <1>9. Inside(Encoded(all), a, Encoded(u), n)
    <2> SUFFICES ASSUME NEW i \in 1 .. n PROVE Encoded(all)[a + i] = Encoded(u)[i]
      BY DEF Inside
    <2>1. a + i \in 1 .. a + n /\ ~ (a + i <= a) /\ (a + i) - a = i
      OBVIOUS
    <2> QED BY <1>1, <1>3, <2>1 DEF Encoded
  <1>10. G[0 + a] = <<>> \o F[a]
    <2>1. G[0] = <<>> /\ <<>> \in Seq(AnyByte) /\ 0 + a <= a + n /\ a \in 0 .. a
      BY <1>6, ByteSeqs DEF Joined
    <2>2. PICK z \in Nat, p \in Seq(AnyByte) : z = 0 /\ p = <<>> /\ z + a <= a + n /\ G[z] = p
      BY <2>1
    <2>3. Continues(G, z, p, F, a)
      <3>1. Inside(Encoded(all), z, Encoded(t), a) /\ a + n \in Nat
        BY <1>8, <2>2
      <3> QED BY <1>4, <1>6, <1>7, <2>2, <3>1, JoinedSame
    <2>4. G[z + a] = p \o F[a]
      BY <2>1, <2>3 DEF Continues
    <2> QED BY <2>2, <2>4
  <1>11. G[a] = F[a]
    <2>1. F[a] \in Seq(AnyByte) /\ 0 + a = a
      <3>1. a \in 0 .. a
        OBVIOUS
      <3> QED BY <3>1
    <2> QED BY <1>10, <2>1, ConcatEmptySeq
  <1>12. G[a + n] = F[a] \o H[n]
    <2>1. F[a] \in Seq(AnyByte) /\ n \in 0 .. n /\ a + n <= a + n /\ a + n \in Nat
      <3>1. a \in 0 .. a
        OBVIOUS
      <3> QED BY <3>1
    <2>2. PICK p \in Seq(AnyByte) : p = F[a]
      BY <2>1
    <2>3. Continues(G, a, p, H, n)
      BY <1>5, <1>6, <1>7, <1>9, <1>11, <2>1, <2>2, JoinedSame
    <2> QED BY <2>1, <2>2, <2>3 DEF Continues
  <1> QED BY <1>2, <1>4, <1>5, <1>6, <1>12

LEMMA BytesOfFew ==
    /\ Bytes(<<>>) = <<>>
    /\ \A c \in Chars : <<c>> \in Seq(Chars) /\ Bytes(<<c>>) = Encoding[c]
  <1>1. Bytes(<<>>) = <<>>
    <2>1. <<>> \in Seq(Chars) /\ Len(<<>>) = 0
      BY EmptySeq
    <2>2. PICK F : Joined(F, Encoded(<<>>), 0) /\ F[0] = Bytes(<<>>)
      BY <2>1, BytesJoined
    <2> QED BY <2>2 DEF Joined
  <1>2. ASSUME NEW c \in Chars PROVE <<c>> \in Seq(Chars) /\ Bytes(<<c>>) = Encoding[c]
    <2>1. PICK one \in Seq(Chars) : one = <<c>> /\ Len(one) = 1 /\ one[1] = c
      <3>1. <<c>> \in Seq(Chars) /\ Len(<<c>>) = 1
        OBVIOUS
      <3> QED BY <3>1
    <2>2. PICK F : Joined(F, Encoded(one), 1) /\ F[1] = Bytes(one)
      BY <2>1, BytesJoined
    <2>3. Encoded(one)[1] = Encoding[c]
      <3>1. 1 \in 1 .. 1
        OBVIOUS
      <3> QED BY <2>1, <3>1 DEF Encoded
    <2>4. F[0] = <<>> /\ F[1] = F[1 - 1] \o Encoded(one)[1]
      <3>1. 1 \in 1 .. 1
        OBVIOUS
      <3> QED BY <2>2, <3>1, Zenon DEF Joined
    <2>5. F[1] = <<>> \o Encoding[c]
      <3>1. 1 - 1 = 0
        OBVIOUS
      <3> QED BY <2>3, <2>4, <3>1
    <2>6. <<>> \o Encoding[c] = Encoding[c]
      BY ByteSeqs, ConcatEmptySeq
    <2> QED BY <2>1, <2>2, <2>5, <2>6
  <1> QED BY <1>1, <1>2

-----------------------------------------------------------------------------
(* Piece(s, a, b) is what s has behind position a up to b.                   *)
Piece(s, a, b) == SubSeq(s, a + 1, b)
IsPiece(p, s, a, b) == Len(p) = b - a /\ \A i \in 1 .. b - a : p[i] = s[a + i]

LEMMA PieceIs ==
    ASSUME NEW S, NEW s \in Seq(S), NEW a \in Nat, NEW b \in Nat, a <= b, b <= Len(s)
    PROVE  Piece(s, a, b) \in Seq(S) /\ IsPiece(Piece(s, a, b), s, a, b)
  <1>1. \A i \in a + 1 .. b : s[i] \in S
    <2> SUFFICES ASSUME NEW i \in a + 1 .. b PROVE s[i] \in S
      OBVIOUS
    <2>1. i \in 1 .. Len(s)
      BY LenProperties
    <2> QED BY <2>1, ElementOfSeq
  <1>2. /\ SubSeq(s, a + 1, b) \in Seq(S)
        /\ Len(SubSeq(s, a + 1, b)) = IF a + 1 <= b THEN b - (a + 1) + 1 ELSE 0
        /\ \A i \in 1 .. b - (a + 1) + 1 : SubSeq(s, a + 1, b)[i] = s[a + 1 + i - 1]
    BY <1>1, SubSeqProperties
  <1>3. (IF a + 1 <= b THEN b - (a + 1) + 1 ELSE 0) = b - a
    OBVIOUS
  <1>4. b - (a + 1) + 1 = b - a /\ \A i \in 1 .. b - a : a + 1 + i - 1 = a + i
    OBVIOUS
  <1> QED BY <1>2, <1>3, <1>4 DEF Piece, IsPiece

LEMMA PiecesJoin ==
    ASSUME NEW S, NEW s \in Seq(S), NEW a \in Nat, NEW b \in Nat, NEW c \in Nat,
           a <= b, b <= c, c <= Len(s)
    PROVE  Piece(s, a, c) = Piece(s, a, b) \o Piece(s, b, c)
  <1>1. Len(s) \in Nat
    BY LenProperties
  <1>2. PICK p \in Seq(S) : p = Piece(s, a, b) /\ IsPiece(p, s, a, b)
    <2>1. b <= Len(s)
      BY <1>1
    <2> QED BY <2>1, PieceIs
  <1>3. PICK q \in Seq(S) : q = Piece(s, b, c) /\ IsPiece(q, s, b, c)
    BY PieceIs
  <1>4. PICK r \in Seq(S) : r = Piece(s, a, c) /\ IsPiece(r, s, a, c)
    <2>1. a <= c
      OBVIOUS
    <2> QED BY <2>1, PieceIs
  <1>5. PICK t \in Seq(S) : t = p \o q
    BY ConcatProperties
  <1>6. Len(t) = (b - a) + (c - b)
        /\ \A i \in 1 .. (b - a) + (c - b) : t[i] = IF i <= b - a THEN p[i] ELSE q[i - (b - a)]
    <2>1. Len(t) = Len(p) + Len(q)
          /\ \A i \in 1 .. Len(p) + Len(q) : t[i] = IF i <= Len(p) THEN p[i] ELSE q[i - Len(p)]
      BY <1>5, ConcatProperties
    <2>2. Len(p) = b - a /\ Len(q) = c - b
      BY <1>2, <1>3 DEF IsPiece
    <2> QED BY <2>1, <2>2
  <1>7. (b - a) + (c - b) = c - a
    OBVIOUS
  <1>8. ASSUME NEW i \in 1 .. c - a PROVE r[i] = t[i]
    <2>1. CASE i <= b - a
      <3>1. i \in 1 .. b - a
        BY <2>1
      <3> QED BY <1>2, <1>4, <1>6, <1>7, <2>1, <3>1 DEF IsPiece
    <2>2. CASE ~ (i <= b - a)
      <3>1. i - (b - a) \in 1 .. c - b /\ b + (i - (b - a)) = a + i
        BY <2>2
      <3> QED BY <1>3, <1>4, <1>6, <1>7, <2>2, <3>1 DEF IsPiece
    <2> QED BY <2>1, <2>2
  <1>9. r = t
    <2>1. Len(r) = Len(t) /\ Len(r) = c - a
      BY <1>4, <1>6, <1>7 DEF IsPiece
    <2> QED BY <1>8, <2>1, SeqEqual
  <1> QED BY <1>2, <1>3, <1>4, <1>5, <1>9

LEMMA PiecesEnd ==
    ASSUME NEW S, NEW s \in Seq(S)
    PROVE  /\ Len(s) \in Nat /\ Piece(s, 0, Len(s)) = s
           /\ \A a \in 0 .. Len(s) : Piece(s, a, a) = <<>>
           /\ \A a \in 0 .. Len(s) - 1 : Piece(s, a, a + 1) = <<s[a + 1]>>
  <1>1. PICK n \in Nat : n = Len(s)
    BY LenProperties
  <1>2. Piece(s, 0, n) = s
    <2>1. n - 0 = n /\ \A i : i \in 1 .. n => 0 + i = i
      OBVIOUS
    <2>2. 0 <= n /\ n <= Len(s)
      BY <1>1
    <2>3. Piece(s, 0, n) \in Seq(S) /\ IsPiece(Piece(s, 0, n), s, 0, n)
      BY <2>2, PieceIs
    <2>4. Len(Piece(s, 0, n)) = n /\ \A i \in 1 .. n : Piece(s, 0, n)[i] = s[i]
      BY <2>1, <2>3 DEF IsPiece
    <2> QED BY <1>1, <2>3, <2>4, SeqEqual
  <1>3. ASSUME NEW a \in 0 .. n PROVE Piece(s, a, a) = <<>>
    <2>1. a \in Nat /\ a <= a /\ a <= Len(s) /\ a - a = 0
      BY <1>1
    <2>2. Piece(s, a, a) \in Seq(S) /\ Len(Piece(s, a, a)) = 0
      BY <2>1, PieceIs DEF IsPiece
    <2> QED BY <2>2, EmptySeq
  <1>4. ASSUME NEW a \in 0 .. n - 1 PROVE Piece(s, a, a + 1) = <<s[a + 1]>>
    <2>1. a \in Nat /\ a + 1 \in Nat /\ a <= a + 1 /\ a + 1 <= Len(s) /\ (a + 1) - a = 1
      BY <1>1
    <2>a. PICK p \in Seq(S) : p = Piece(s, a, a + 1) /\ IsPiece(p, s, a, a + 1)
      BY <2>1, PieceIs
    <2>2. Len(p) = 1 /\ \A i \in 1 .. 1 : p[i] = s[a + i]
      BY <2>1, <2>a DEF IsPiece
    <2>3. p = <<p[1]>>
      BY <2>2
    <2>4. p[1] = s[a + 1]
      <3>1. 1 \in 1 .. 1
        OBVIOUS
      <3> QED BY <2>2, <3>1
    <2> QED BY <2>a, <2>3, <2>4
  <1> QED BY <1>1, <1>2, <1>3, <1>4

LEMMA MiddlePiece ==
    ASSUME NEW S, NEW p \in Seq(S), NEW q \in Seq(S), NEW r \in Seq(S)
    PROVE  /\ Len(p) \in Nat /\ Len(q) \in Nat /\ Len(p \o q) = Len(p) + Len(q)
           /\ Len((p \o q) \o r) >= Len(p) + Len(q)
           /\ Piece((p \o q) \o r, Len(p), Len(p) + Len(q)) = q
  <1>1. PICK a \in Nat, b \in Nat, c \in Nat : a = Len(p) /\ b = Len(q) /\ c = Len(r)
    BY LenProperties
  <1>2. PICK t \in Seq(S) : t = p \o q
    BY ConcatProperties
  <1>3. Len(t) = a + b /\ \A i \in 1 .. a + b : t[i] = IF i <= a THEN p[i] ELSE q[i - a]
    BY <1>1, <1>2, ConcatProperties
  <1>4. PICK u \in Seq(S) : u = t \o r
    BY ConcatProperties
  <1>5. Len(u) = (a + b) + c /\ \A i \in 1 .. (a + b) + c : u[i] = IF i <= a + b THEN t[i] ELSE r[i - (a + b)]
    BY <1>1, <1>3, <1>4, ConcatProperties
  <1>6. PICK m \in Seq(S) : m = Piece(u, a, a + b) /\ IsPiece(m, u, a, a + b)
    <2>1. a + b \in Nat /\ a <= a + b /\ a + b <= Len(u)
      BY <1>5
    <2> QED BY <2>1, PieceIs
  <1>7. Len(m) = b
    BY <1>6 DEF IsPiece
  <1>8. ASSUME NEW i \in 1 .. b PROVE m[i] = q[i]
    <2>1. i \in 1 .. (a + b) - a /\ a + i \in 1 .. (a + b) + c /\ a + i <= a + b
          /\ a + i \in 1 .. a + b /\ ~ (a + i <= a) /\ (a + i) - a = i
      OBVIOUS
    <2>2. m[i] = u[a + i]
      BY <1>6, <2>1 DEF IsPiece
    <2>3. u[a + i] = t[a + i]
      BY <1>5, <2>1
    <2>4. t[a + i] = q[i]
      BY <1>3, <2>1
    <2> QED BY <2>2, <2>3, <2>4
  <1>9. m = q
    BY <1>1, <1>7, <1>8, SeqEqual
  <1>10. Len(u) >= a + b
    BY <1>5
  <1> QED BY <1>1, <1>2, <1>3, <1>4, <1>6, <1>9, <1>10

-----------------------------------------------------------------------------
(* Where the bytes of the k-th character end.                                *)
Start(text, k) == Len(Bytes(Piece(text, 0, k)))

LEMMA BytesOfPiece ==
    ASSUME NEW text \in Seq(Chars), NEW a \in Nat, NEW b \in Nat, a <= b, b <= Len(text)
    PROVE  /\ Piece(Bytes(text), Start(text, a), Start(text, b)) = Bytes(Piece(text, a, b))
           /\ Start(text, b) = Start(text, a) + Len(Bytes(Piece(text, a, b)))
           /\ Start(text, a) \in Nat /\ Start(text, b) <= Len(Bytes(text))
           /\ Piece(text, a, b) \in Seq(Chars)
  <1>1. PICK n \in Nat : n = Len(text)
    BY LenProperties
  <1>2. PICK p \in Seq(Chars) : p = Piece(text, 0, a)
    <2>1. 0 <= a /\ a <= Len(text)
      BY <1>1
    <2> QED BY <2>1, PieceIs
  <1>3. PICK q \in Seq(Chars) : q = Piece(text, a, b)
    BY PieceIs
  <1>4. PICK r \in Seq(Chars) : r = Piece(text, b, n)
    <2>1. b <= n /\ n <= Len(text)
      BY <1>1
    <2> QED BY <2>1, PieceIs
  <1>5. Piece(text, 0, b) = p \o q
    <2>1. 0 <= a /\ 0 \in Nat
      OBVIOUS
    <2> QED BY <1>2, <1>3, <2>1, PiecesJoin
  <1>6. text = (p \o q) \o r
    <2>1. 0 <= b /\ 0 \in Nat /\ b <= n /\ n <= Len(text)
      BY <1>1
    <2>2. Piece(text, 0, n) = Piece(text, 0, b) \o Piece(text, b, n)
      BY <2>1, PiecesJoin
    <2> QED BY <1>1, <1>4, <1>5, <2>2, PiecesEnd
  <1>7. Bytes(p \o q) = Bytes(p) \o Bytes(q) /\ Bytes((p \o q) \o r) = (Bytes(p) \o Bytes(q)) \o Bytes(r)
    <2>1. p \o q \in Seq(Chars) /\ Bytes(p \o q) = Bytes(p) \o Bytes(q)
      BY BytesConcat
    <2> QED BY <2>1, BytesConcat
  <1>8. Bytes(p) \in Seq(AnyByte) /\ Bytes(q) \in Seq(AnyByte) /\ Bytes(r) \in Seq(AnyByte)
    BY BytesSeq
  <1>9. Start(text, a) = Len(Bytes(p)) /\ Start(text, b) = Len(Bytes(p) \o Bytes(q))
    BY <1>2, <1>5, <1>7 DEF Start
  <1>10. PICK s : s = Bytes(text) /\ s = (Bytes(p) \o Bytes(q)) \o Bytes(r)
    BY <1>6, <1>7
  <1>11. /\ Len(Bytes(p)) \in Nat /\ Len(Bytes(p) \o Bytes(q)) = Len(Bytes(p)) + Len(Bytes(q))
         /\ Len(s) >= Len(Bytes(p)) + Len(Bytes(q)) /\ Len(Bytes(q)) \in Nat
         /\ Piece(s, Len(Bytes(p)), Len(Bytes(p)) + Len(Bytes(q))) = Bytes(q)
    BY <1>8, <1>10, MiddlePiece
  <1>12. Len(s) \in Nat
    BY <1>10, BytesSeq, LenProperties
  <1> QED BY <1>3, <1>9, <1>10, <1>11, <1>12

LEMMA StartsOne ==
    ASSUME NEW text \in Seq(Chars), NEW k \in 0 .. Len(text) - 1
    PROVE  /\ k \in Nat /\ k + 1 \in 1 .. Len(text) /\ text[k + 1] \in Chars /\ Start(text, k) \in Nat
           /\ Start(text, k + 1) = Start(text, k) + Len(Encoding[text[k + 1]])
           /\ Start(text, k + 1) <= Len(Bytes(text)) /\ Len(Encoding[text[k + 1]]) \in Nat \ {0}
           /\ Piece(Bytes(text), Start(text, k), Start(text, k + 1)) = Encoding[text[k + 1]]
  <1>1. Len(text) \in Nat
    BY LenProperties
  <1>2. k \in Nat /\ k + 1 \in Nat /\ k <= k + 1 /\ k + 1 <= Len(text) /\ k + 1 \in 1 .. Len(text)
    BY <1>1
  <1>3. text[k + 1] \in Chars
    BY <1>2, ElementOfSeq
  <1>4. Piece(text, k, k + 1) = <<text[k + 1]>>
    BY PiecesEnd
  <1>5. Bytes(Piece(text, k, k + 1)) = Encoding[text[k + 1]]
    BY <1>3, <1>4, BytesOfFew
  <1> QED BY <1>2, <1>3, <1>5, BytesOfPiece, ByteSeqs

LEMMA StartsAre ==
    ASSUME NEW text \in Seq(Chars)
    PROVE  /\ Len(text) \in Nat /\ Len(Bytes(text)) \in Nat
           /\ Start(text, 0) = 0 /\ Start(text, Len(text)) = Len(Bytes(text))
           /\ \A k \in 0 .. Len(text) : /\ Start(text, k) \in Nat /\ k <= Start(text, k)
                                        /\ Start(text, k) <= Len(Bytes(text))
  <1>1. Len(text) \in Nat /\ Len(Bytes(text)) \in Nat
    BY BytesSeq, LenProperties
  <1>2. Start(text, 0) = 0
    <2>1. Piece(text, 0, 0) = <<>> /\ Len(<<>>) = 0
      BY <1>1, PiecesEnd, EmptySeq
    <2> QED BY <2>1, BytesOfFew DEF Start
  <1>3. Start(text, Len(text)) = Len(Bytes(text))
    BY PiecesEnd DEF Start
  <1> DEFINE Rising == {k \in Nat : k <= Len(text) => Start(text, k) \in Nat /\ k <= Start(text, k)}
  <1>4. 0 \in Rising
    BY <1>2
  <1>5. ASSUME NEW k \in Nat, k \in Rising PROVE k + 1 \in Rising
    <2>1. SUFFICES ASSUME k + 1 <= Len(text) PROVE Start(text, k + 1) \in Nat /\ k + 1 <= Start(text, k + 1)
      OBVIOUS
    <2>2. k \in 0 .. Len(text) - 1 /\ k <= Len(text)
      BY <1>1, <2>1
    <2>3. Start(text, k + 1) = Start(text, k) + Len(Encoding[text[k + 1]])
          /\ Len(Encoding[text[k + 1]]) \in Nat \ {0}
      BY <2>2, StartsOne
    <2>4. Start(text, k) \in Nat /\ k <= Start(text, k)
      BY <1>5, <2>2
    <2> QED BY <2>3, <2>4
  <1>6. ASSUME NEW k \in 0 .. Len(text)
        PROVE  Start(text, k) \in Nat /\ k <= Start(text, k) /\ Start(text, k) <= Len(Bytes(text))
    <2>1. k \in Nat /\ k <= k /\ k <= Len(text)
      BY <1>1
    <2>2. k \in Rising
      <3> HIDE DEF Rising
      <3> QED BY <1>4, <1>5, <2>1, Induction
    <2> QED BY <2>1, <2>2, BytesOfPiece
  <1> QED BY <1>1, <1>2, <1>3, <1>6

LEMMA StartsRise ==
    ASSUME NEW text \in Seq(Chars), NEW a \in 0 .. Len(text), NEW b \in 0 .. Len(text)
    PROVE  /\ a <= b => Start(text, a) <= Start(text, b)
           /\ a < b => Start(text, a) < Start(text, b)
  <1>1. Len(text) \in Nat
    BY LenProperties
  <1>2. \A c, d \in 0 .. Len(text) : c <= d => Start(text, c) <= Start(text, d)
    <2> SUFFICES ASSUME NEW c \in 0 .. Len(text), NEW d \in 0 .. Len(text), c <= d
                 PROVE  Start(text, c) <= Start(text, d)
      OBVIOUS
    <2>1. c \in Nat /\ d \in Nat /\ d <= Len(text)
      BY <1>1
    <2>2. Start(text, d) = Start(text, c) + Len(Bytes(Piece(text, c, d))) /\ Start(text, c) \in Nat
          /\ Piece(text, c, d) \in Seq(Chars)
      BY <2>1, BytesOfPiece
    <2>3. Len(Bytes(Piece(text, c, d))) \in Nat
      BY <2>2, BytesSeq, LenProperties
    <2> QED BY <2>2, <2>3
  <1>3. ASSUME a < b PROVE Start(text, a) < Start(text, b)
    <2>1. a \in 0 .. Len(text) - 1 /\ a + 1 \in 0 .. Len(text) /\ a + 1 <= b
      BY <1>1, <1>3
    <2>2. /\ Start(text, a + 1) = Start(text, a) + Len(Encoding[text[a + 1]])
          /\ Len(Encoding[text[a + 1]]) \in Nat \ {0} /\ Start(text, a) \in Nat
      BY <2>1, StartsOne
    <2>3. Start(text, a + 1) <= Start(text, b) /\ Start(text, b) \in Nat
      BY <1>2, <2>1, StartsAre
    <2> QED BY <2>2, <2>3
  <1> QED BY <1>2, <1>3

(* The bytes of a character, and the one behind the text.                    *)
LEMMA ByteAt ==
    ASSUME NEW text \in Seq(Chars)
    PROVE  /\ Byte(Bytes(text), Start(text, Len(text))) = Nul
           /\ \A k \in 0 .. Len(text) - 1 : \A j \in 0 .. Len(Encoding[text[k + 1]]) - 1 :
                  Byte(Bytes(text), Start(text, k) + j) = IF j = 0 THEN text[k + 1] ELSE Continuation
  <1>1. Byte(Bytes(text), Start(text, Len(text))) = Nul
    <2>1. ~ (Start(text, Len(text)) < Len(Bytes(text)))
      BY StartsAre
    <2> QED BY <2>1 DEF Byte
  <1>2. ASSUME NEW k \in 0 .. Len(text) - 1, NEW j \in 0 .. Len(Encoding[text[k + 1]]) - 1
        PROVE  Byte(Bytes(text), Start(text, k) + j) = IF j = 0 THEN text[k + 1] ELSE Continuation
    <2>1. PICK s \in Seq(AnyByte) : s = Bytes(text) /\ Len(s) \in Nat
      BY BytesSeq, LenProperties
    <2>2. PICK c \in Chars : c = text[k + 1]
      BY StartsOne
    <2>3. PICK l \in Nat \ {0} : l = Len(Encoding[c])
      BY ByteSeqs
    <2>4. PICK a \in Nat : a = Start(text, k)
      BY StartsOne
    <2>5. a + l <= Len(s) /\ Piece(s, a, a + l) = Encoding[c]
      BY <2>1, <2>2, <2>3, <2>4, StartsOne
    <2>6. IsPiece(Encoding[c], s, a, a + l)
      <3>1. a + l \in Nat /\ a <= a + l
        OBVIOUS
      <3> QED BY <2>1, <2>5, <3>1, PieceIs
    <2>7. j \in 0 .. l - 1
      BY <2>2, <2>3
    <2>8. s[a + (j + 1)] = Encoding[c][j + 1]
      <3>1. j + 1 \in 1 .. (a + l) - a
        BY <2>7
      <3> QED BY <2>6, <3>1 DEF IsPiece
    <2>9. Encoding[c][j + 1] = IF j = 0 THEN c ELSE Continuation
      <3>1. CASE j = 0
        <4>1. j + 1 = 1
          BY <3>1
        <4> QED BY <3>1, <4>1, ByteSeqs
      <3>2. CASE j # 0
        <4>1. j + 1 \in 2 .. l
          BY <2>7, <3>2
        <4> QED BY <2>3, <3>2, <4>1, ByteSeqs
      <3> QED BY <3>1, <3>2
    <2>10. a + j < Len(s) /\ (a + j) + 1 = a + (j + 1)
      BY <2>1, <2>5, <2>7
    <2>11. Byte(s, a + j) = s[(a + j) + 1]
      BY <2>10 DEF Byte
    <2> QED BY <2>1, <2>2, <2>4, <2>8, <2>9, <2>10, <2>11
  <1> QED BY <1>1, <1>2

(* What starts where a character ends is no continuation. *)
LEMMA LeadAt ==
    ASSUME NEW text \in Seq(Chars), NEW k \in 0 .. Len(text)
    PROVE  Byte(Bytes(text), Start(text, k)) = IF k = Len(text) THEN Nul ELSE text[k + 1]
  <1>1. CASE k = Len(text)
    BY <1>1, ByteAt
  <1>2. CASE k # Len(text)
    <2>1. k \in 0 .. Len(text) - 1
      BY <1>2, StartsAre
    <2>2. 0 \in 0 .. Len(Encoding[text[k + 1]]) - 1 /\ Start(text, k) + 0 = Start(text, k)
      BY <2>1, StartsOne
    <2> QED BY <1>2, <2>1, <2>2, ByteAt
  <1> QED BY <1>1, <1>2

LEMMA LeadIsChar ==
    ASSUME NEW text \in Seq(Chars), NEW k \in 0 .. Len(text)
    PROVE  Byte(Bytes(text), Start(text, k)) \in Chars /\ Byte(Bytes(text), Start(text, k)) # Continuation
  <1>1. k # Len(text) => text[k + 1] \in Chars
    <2> SUFFICES ASSUME k # Len(text) PROVE text[k + 1] \in Chars
      OBVIOUS
    <2>1. k \in 0 .. Len(text) - 1
      BY StartsAre
    <2> QED BY <2>1, StartsOne
  <1> QED BY <1>1, LeadAt, ByteSeqs

-----------------------------------------------------------------------------
(* Where the loops that decode are after m characters.                       *)
Found(text, m) == IF \E j \in 1 .. m : text[j] \in Invalid THEN -1 ELSE Start(text, m)

LEMMA Decodes ==
    ASSUME NEW text \in Seq(Chars), NEW k \in 0 .. Len(text) - 1
    PROVE  Utf8Decode(Bytes(text), Start(text, k)) =
               IF text[k + 1] \in Invalid THEN -1 ELSE Start(text, k + 1)
  <1>1. PICK c \in Chars : c = text[k + 1]
    BY StartsOne
  <1>2. PICK l \in Nat \ {0} : l = Len(Encoding[c])
    BY ByteSeqs
  <1>3. PICK a \in Nat : a = Start(text, k)
    BY StartsOne
  <1>4. PICK s : s = Bytes(text)
    OBVIOUS
  <1>5. Start(text, k + 1) = a + l
    BY <1>1, <1>2, <1>3, StartsOne
  <1>6. \A j \in 0 .. l - 1 : Byte(s, a + j) = IF j = 0 THEN c ELSE Continuation
    BY <1>1, <1>2, <1>3, <1>4, ByteAt
  <1>7. Byte(s, a) = c
    <2>1. 0 \in 0 .. l - 1 /\ a + 0 = a
      OBVIOUS
    <2> QED BY <1>6, <2>1
  <1>8. c # Continuation
    BY ByteSeqs
  <1>9. Width(Byte(s, a)) = l + (IF c \in Invalid THEN 1 ELSE 0)
    BY <1>2, <1>7, <1>8 DEF Width
  <1>10. Utf8Decode(s, a) = IF Width(Byte(s, a)) > 0
             /\ \A j \in 1 .. Width(Byte(s, a)) - 1 : Byte(s, a + j) = Continuation
           THEN a + Width(Byte(s, a)) ELSE -1
    BY Zenon DEF Utf8Decode
  <1>11. CASE c \in Invalid
    <2>1. Byte(s, a + l) # Continuation
      <3>1. k + 1 \in 0 .. Len(text)
        BY StartsAre
      <3> QED BY <1>4, <1>5, <3>1, LeadIsChar
    <2>2. Width(Byte(s, a)) = l + 1
      BY <1>9, <1>11
    <2>3. l \in 1 .. (l + 1) - 1
      OBVIOUS
    <2>4. ~ \A j \in 1 .. Width(Byte(s, a)) - 1 : Byte(s, a + j) = Continuation
      BY <2>1, <2>2, <2>3
    <2>5. Utf8Decode(s, a) = -1
      BY <1>10, <2>4, Zenon
    <2> QED BY <1>1, <1>3, <1>4, <1>11, <2>5
  <1>12. CASE c \notin Invalid
    <2>1. Width(Byte(s, a)) = l
      BY <1>9, <1>12
    <2>2. \A j \in 1 .. l - 1 : Byte(s, a + j) = Continuation
      <3> SUFFICES ASSUME NEW j \in 1 .. l - 1 PROVE Byte(s, a + j) = Continuation
        OBVIOUS
      <3>1. j \in 0 .. l - 1 /\ j # 0
        OBVIOUS
      <3> QED BY <1>6, <3>1
    <2>3. l > 0
      OBVIOUS
    <2>4. Utf8Decode(s, a) = a + l
      BY <1>10, <2>1, <2>2, <2>3, Zenon
    <2> QED BY <1>1, <1>3, <1>4, <1>5, <1>12, <2>4
  <1> QED BY <1>11, <1>12

LEMMA FoundIs ==
    ASSUME NEW text \in Seq(Chars)
    PROVE  /\ Found(text, 0) = 0
           /\ \A m \in 0 .. Len(text) : Found(text, m) = -1 \/ Found(text, m) = Start(text, m)
           /\ \A m \in 0 .. Len(text) - 1 :
                  Found(text, m + 1) = IF Found(text, m) = -1 THEN -1
                                       ELSE Utf8Decode(Bytes(text), Found(text, m))
  <1>1. Found(text, 0) = 0
    <2>1. ~ \E j \in 1 .. 0 : text[j] \in Invalid
      OBVIOUS
    <2> QED BY <2>1, StartsAre DEF Found
  <1>2. ASSUME NEW m \in 0 .. Len(text) - 1
        PROVE  Found(text, m + 1) = IF Found(text, m) = -1 THEN -1
                                    ELSE Utf8Decode(Bytes(text), Found(text, m))
    <2>1. m \in Nat /\ Start(text, m) \in Nat
      BY StartsOne
    <2>2. (\E j \in 1 .. m + 1 : text[j] \in Invalid)
          <=> (\E j \in 1 .. m : text[j] \in Invalid) \/ text[m + 1] \in Invalid
      <3>1. 1 .. m + 1 = (1 .. m) \cup {m + 1}
        BY <2>1
      <3> QED BY <3>1
    <2>3. CASE \E j \in 1 .. m : text[j] \in Invalid
      BY <2>2, <2>3 DEF Found
    <2>4. CASE ~ \E j \in 1 .. m : text[j] \in Invalid
      <3>1. Found(text, m) = Start(text, m) /\ Start(text, m) # -1
        BY <2>1, <2>4 DEF Found
      <3>2. Found(text, m + 1) = IF text[m + 1] \in Invalid THEN -1 ELSE Start(text, m + 1)
        BY <2>2, <2>4 DEF Found
      <3> QED BY <3>1, <3>2, Decodes
    <2> QED BY <2>3, <2>4
  <1> QED BY <1>1, <1>2 DEF Found

Least(a, b) == IF a <= b THEN a ELSE b

LEMMA LeastNext ==
    ASSUME NEW n \in Nat \ {0}, NEW z \in Nat
    PROVE  /\ Least(n - 1, z) \in 0 .. z /\ Least(n, z) \in 0 .. z
           /\ Least(n - 1, z) = z => Least(n, z) = z
           /\ Least(n - 1, z) # z => Least(n, z) = Least(n - 1, z) + 1 /\ Least(n - 1, z) \in 0 .. z - 1
BY DEF Least

-----------------------------------------------------------------------------
(* utf8 string_length: one character a round.                                *)
Rounds(s, f, n) ==
    IF n = 0 THEN 0
    ELSE IF f[n - 1] \in {-1, Len(s)} THEN f[n - 1]
    ELSE Utf8Decode(s, f[n - 1])
Follows(f, text, z) == \A n \in 0 .. Len(Bytes(text)) : f[n] = Found(text, Least(n, z))

LEMMA RoundsFound ==
    ASSUME NEW text \in Seq(Chars), NEW n \in 1 .. Len(Bytes(text)), NEW f,
           f[n - 1] = Found(text, Least(n - 1, Len(text)))
    PROVE  Rounds(Bytes(text), f, n) = Found(text, Least(n, Len(text)))
  <1>1. PICK z \in Nat : z = Len(text)
    BY StartsAre
  <1>3. n \in Nat \ {0}
    BY StartsAre
  <1>2. PICK m \in 0 .. z : m = Least(n - 1, z)
    BY <1>1, <1>3, LeastNext
  <1>4. Len(Bytes(text)) = Start(text, z) /\ Start(text, z) # -1
    BY <1>1, StartsAre
  <1>5. CASE Found(text, m) = -1
    <2>1. Rounds(Bytes(text), f, n) = -1
      BY <1>1, <1>2, <1>3, <1>5 DEF Rounds
    <2>2. Found(text, Least(n, z)) = -1
      <3>1. CASE m = z
        BY <1>2, <1>3, <1>5, <3>1, StartsAre, LeastNext
      <3>2. CASE m # z
        <4>1. Least(n, z) = m + 1 /\ m \in 0 .. z - 1
          BY <1>2, <1>3, <3>2, StartsAre, LeastNext
        <4> QED BY <1>1, <1>5, <4>1, FoundIs
      <3> QED BY <3>1, <3>2
    <2> QED BY <1>1, <2>1, <2>2
  <1>6. CASE Found(text, m) # -1
    <2>1. Found(text, m) = Start(text, m)
      BY <1>1, <1>6, FoundIs
    <2>2. CASE m = z
      <3>1. Rounds(Bytes(text), f, n) = Found(text, m)
        BY <1>1, <1>2, <1>3, <1>4, <2>1, <2>2 DEF Rounds
      <3>2. Least(n, z) = m
        BY <1>2, <1>3, <2>2, StartsAre, LeastNext
      <3> QED BY <1>1, <3>1, <3>2
    <2>3. CASE m # z
      <3>1. Least(n, z) = m + 1 /\ m \in 0 .. z - 1
        BY <1>2, <1>3, <2>3, StartsAre, LeastNext
      <3>2. Start(text, m) < Start(text, z)
        BY <1>1, <3>1, StartsRise, StartsAre
      <3>3. Found(text, m) # Len(Bytes(text))
        BY <1>1, <1>4, <2>1, <3>1, <3>2, StartsAre
      <3>4. Rounds(Bytes(text), f, n) = Utf8Decode(Bytes(text), Found(text, m))
        BY <1>1, <1>2, <1>3, <1>6, <3>3 DEF Rounds
      <3> QED BY <1>1, <1>6, <3>1, <3>4, FoundIs
    <2> QED BY <2>2, <2>3
  <1> QED BY <1>5, <1>6

LEMMA RoundsFollow ==
    ASSUME NEW text \in Seq(Chars), NEW i,
           i = CHOOSE f : f = [n \in 0 .. Len(Bytes(text)) |-> Rounds(Bytes(text), f, n)]
    PROVE  Follows(i, text, Len(text))
  <1>1. PICK s : s = Bytes(text)
    OBVIOUS
  <1>2. Len(s) \in Nat /\ Len(text) \in Nat
    BY <1>1, StartsAre
  <1>3. Found(text, Least(0, Len(text))) = 0
    BY <1>2, FoundIs DEF Least
  <1> DEFINE g == [n \in 0 .. Len(s) |-> Found(text, Least(n, Len(text)))]
  <1>4. ASSUME NEW n \in 0 .. Len(s) PROVE g[n] = Rounds(s, g, n)
    <2>1. CASE n = 0
      BY <1>3, <2>1 DEF Rounds
    <2>2. CASE n # 0
      <3>1. n \in 1 .. Len(s) /\ n - 1 \in 0 .. Len(s)
        BY <1>2, <2>2
      <3>2. g[n - 1] = Found(text, Least(n - 1, Len(text))) /\ g[n] = Found(text, Least(n, Len(text)))
        BY <3>1
      <3> HIDE DEF g
      <3> QED BY <1>1, <3>1, <3>2, RoundsFound
    <2> QED BY <2>1, <2>2
  <1>5. g = [n \in 0 .. Len(s) |-> Rounds(s, g, n)]
    <2>1. g = [n \in 0 .. Len(s) |-> g[n]]
      OBVIOUS
    <2> HIDE DEF g
    <2> QED BY <1>4, <2>1
  <1>6. i = [n \in 0 .. Len(s) |-> Rounds(s, i, n)]
    <2> HIDE DEF g
    <2> QED BY <1>1, <1>5
  <1>7. \A n \in 0 .. Len(s) : i[n] = Rounds(s, i, n)
    BY <1>6
  <1> DEFINE Same == {n \in Nat : n <= Len(s) => i[n] = Found(text, Least(n, Len(text)))}
  <1>8. 0 \in Same
    <2>1. i[0] = Rounds(s, i, 0) /\ Rounds(s, i, 0) = 0
      BY <1>2, <1>7 DEF Rounds
    <2> QED BY <1>3, <2>1
  <1>9. ASSUME NEW n \in Nat, n \in Same PROVE n + 1 \in Same
    <2>1. SUFFICES ASSUME n + 1 <= Len(s) PROVE i[n + 1] = Found(text, Least(n + 1, Len(text)))
      OBVIOUS
    <2>2. n + 1 \in 1 .. Len(s) /\ n + 1 \in 0 .. Len(s) /\ (n + 1) - 1 = n /\ n <= Len(s)
      BY <1>2, <2>1
    <2>3. i[n] = Found(text, Least(n, Len(text)))
      BY <1>9, <2>2
    <2>4. i[n + 1] = Rounds(s, i, n + 1)
      BY <1>7, <2>2
    <2> HIDE DEF Same
    <2>5. i[(n + 1) - 1] = Found(text, Least((n + 1) - 1, Len(text)))
      BY <2>2, <2>3
    <2> QED BY <1>1, <2>2, <2>4, <2>5, RoundsFound
  <1>10. ASSUME NEW n \in 0 .. Len(s) PROVE i[n] = Found(text, Least(n, Len(text)))
    <2>1. n \in Nat /\ n <= Len(s)
      BY <1>2
    <2>2. n \in Same
      <3> HIDE DEF Same
      <3> QED BY <1>8, <1>9, <2>1, Induction
    <2> QED BY <2>1, <2>2
  <1> QED BY <1>1, <1>10 DEF Follows

LEMMA MinIs ==
    ASSUME NEW S, NEW m \in S, \A n \in S : n \in Int /\ m <= n
    PROVE  Min(S) = m
  <1>1. \A n \in S : (\A k \in S : n <= k) => n = m
    OBVIOUS
  <1>2. \A k \in S : m <= k
    OBVIOUS
  <1>3. PICK x : x = CHOOSE y \in S : \A k \in S : y =< k
    OBVIOUS
  <1>4. x \in S /\ \A k \in S : x <= k
    BY <1>2, <1>3
  <1>5. Min(S) = x
    BY <1>3, Zenon DEF Min
  <1> QED BY <1>1, <1>4, <1>5

LEMMA MaxIs ==
    ASSUME NEW S, NEW m \in S, \A n \in S : n \in Int /\ n <= m
    PROVE  Max(S) = m
  <1>1. \A n \in S : (\A k \in S : n >= k) => n = m
    OBVIOUS
  <1>2. \A k \in S : m >= k
    OBVIOUS
  <1>3. PICK x : x = CHOOSE y \in S : \A k \in S : y >= k
    OBVIOUS
  <1>4. x \in S /\ \A k \in S : x >= k
    BY <1>2, <1>3
  <1>5. Max(S) = x
    BY <1>3, Zenon DEF Max
  <1> QED BY <1>1, <1>4, <1>5

LEMMA OfTwo ==
    ASSUME NEW a \in Int, NEW b \in Int
    PROVE  /\ Min({a, b}) = IF a <= b THEN a ELSE b
           /\ Max({a, b}) = IF a <= b THEN b ELSE a
  <1>1. \A n \in {a, b} : n \in Int
    OBVIOUS
  <1>2. CASE a <= b
    <2>1. a \in {a, b} /\ b \in {a, b} /\ \A n \in {a, b} : a <= n /\ n <= b
      BY <1>2
    <2> QED BY <1>1, <1>2, <2>1, MinIs, MaxIs
  <1>3. CASE ~ (a <= b)
    <2>1. a \in {a, b} /\ b \in {a, b} /\ \A n \in {a, b} : b <= n /\ n <= a
      BY <1>3
    <2> QED BY <1>1, <1>3, <2>1, MinIs, MaxIs
  <1> QED BY <1>2, <1>3

Cut(text) == \E j \in 1 .. Len(text) : text[j] \in Invalid

LEMMA StringLengthIs ==
    ASSUME NEW text \in Seq(Chars)
    PROVE  StringLength(Bytes(text)) = IF Length(text) = 0 THEN 0
                                       ELSE IF Cut(text) THEN -1 ELSE Len(text)
  <1>1. PICK s : s = Bytes(text)
    OBVIOUS
  <1>2. PICK z \in Nat : z = Len(text)
    BY StartsAre
  <1>3. PICK i : i = CHOOSE f : f = [n \in 0 .. Len(s) |-> Rounds(s, f, n)]
    OBVIOUS
  <1>4. StringLength(s) =
          IF Byte(s, 0) = Nul THEN 0
          ELSE IF i[Len(s)] = -1 THEN -1
          ELSE Min({n \in 0 .. Len(s) : i[n] = Len(s)})
    BY <1>3, Zenon DEF StringLength, Rounds
  <1>5. Byte(s, 0) = Nul <=> Length(text) = 0
    <2>1. 0 \in 0 .. z
      OBVIOUS
    <2>2. Byte(s, 0) = IF 0 = z THEN Nul ELSE text[0 + 1]
      BY <1>1, <1>2, <2>1, StartsAre, LeadAt
    <2>3. text = <<>> <=> z = 0
      BY <1>2, EmptySeq
    <2>4. z # 0 => Head(text) = text[1]
      <3>1. SUFFICES ASSUME z # 0 PROVE Head(text) = text[1]
        OBVIOUS
      <3>2. 1 \in 1 .. z /\ z \in 1 .. z
        BY <3>1
      <3>3. Head(text) = text[1] /\ SubSeq(text, 1, z) = text
        BY <1>2, <3>2, PiecesEnd, HeadTailOfSubSeq DEF Piece
      <3> QED BY <3>3
    <2>5. Length(text) = IF text # <<>> /\ Head(text) = Nul THEN 0 ELSE z
      BY <1>2 DEF Length
    <2> QED BY <2>2, <2>3, <2>4, <2>5
  <1>6. CASE Byte(s, 0) = Nul
    BY <1>1, <1>4, <1>5, <1>6
  <1>7. CASE Byte(s, 0) # Nul
    <2>1. Len(s) \in Nat /\ z <= Len(s) /\ Start(text, z) = Len(s)
      <3>1. z \in 0 .. z
        OBVIOUS
      <3> QED BY <1>1, <1>2, <3>1, StartsAre
    <2>2. \A n \in 0 .. Len(s) : i[n] = Found(text, Least(n, z))
      <3>1. Follows(i, text, z)
        BY <1>1, <1>2, <1>3, RoundsFollow
      <3> QED BY <1>1, <3>1 DEF Follows
    <2>3. \A n \in z .. Len(s) : n \in 0 .. Len(s) /\ i[n] = Found(text, z)
      <3> SUFFICES ASSUME NEW n \in z .. Len(s) PROVE n \in 0 .. Len(s) /\ i[n] = Found(text, z)
        OBVIOUS
      <3>1. n \in 0 .. Len(s) /\ Least(n, z) = z
        BY <2>1 DEF Least
      <3> QED BY <2>2, <3>1
    <2>4. CASE Cut(text)
      <3>1. i[Len(s)] = -1
        <4>1. Found(text, z) = -1
          BY <1>2, <2>4 DEF Found, Cut
        <4> QED BY <2>1, <2>3, <4>1
      <3> QED BY <1>1, <1>4, <1>5, <1>7, <2>4, <3>1
    <2>5. CASE ~ Cut(text)
      <3>1. \A m \in 0 .. z : Found(text, m) = Start(text, m)
        <4> SUFFICES ASSUME NEW m \in 0 .. z PROVE Found(text, m) = Start(text, m)
          OBVIOUS
        <4>1. \A j \in 1 .. m : j \in 1 .. z
          OBVIOUS
        <4> QED BY <1>2, <2>5, <4>1 DEF Found, Cut
      <3>2. \A n \in z .. Len(s) : n \in 0 .. Len(s) /\ i[n] = Len(s)
        <4>1. z \in 0 .. z
          OBVIOUS
        <4> QED BY <2>1, <2>3, <3>1, <4>1
      <3>3. ASSUME NEW n \in 0 .. Len(s), i[n] = Len(s) PROVE z <= n
        <4>1. SUFFICES ASSUME n < z PROVE FALSE
          BY <2>1
        <4>2. Least(n, z) = n /\ n \in 0 .. z /\ z \in 0 .. z
          BY <2>1, <4>1 DEF Least
        <4>3. i[n] = Start(text, n)
          BY <2>2, <3>1, <4>2
        <4>4. Start(text, n) < Start(text, z)
          BY <1>2, <4>1, <4>2, StartsRise
        <4> QED BY <2>1, <3>3, <4>3, <4>4
      <3> DEFINE S == {n \in 0 .. Len(s) : i[n] = Len(s)}
      <3>4. z \in S /\ \A n \in S : z <= n
        BY <2>1, <3>2, <3>3
      <3>5. \A n \in S : n \in Nat
        OBVIOUS
      <3>6. Min(S) = z
        <4>1. z \in S /\ \A n \in S : n \in Int /\ z <= n
          <5> HIDE DEF S
          <5> QED BY <3>4, <3>5
        <4> HIDE DEF S
        <4> QED BY <4>1, MinIs
      <3>7. i[Len(s)] # -1
        <4>1. Len(s) \in z .. Len(s) /\ Len(s) # -1
          BY <2>1
        <4> QED BY <3>2, <4>1
      <3> QED BY <1>1, <1>2, <1>4, <1>5, <1>7, <2>5, <3>6, <3>7
    <2> QED BY <2>4, <2>5
  <1> QED BY <1>6, <1>7

-----------------------------------------------------------------------------
(* utf8_offset_to_bytes skips what continues a character.                    *)
NextLead(s, i) == CHOOSE k \in i + 1 .. Len(s) :
                      /\ Byte(s, k) # Continuation
                      /\ \A j \in i + 1 .. k - 1 : Byte(s, j) = Continuation
Skips(s, f, k) ==
    IF k = 0 THEN 0 ELSE IF f[k - 1] < Len(s) THEN NextLead(s, f[k - 1]) ELSE Len(s)
Visits(f, text) == \A k \in 0 .. Len(Bytes(text)) : f[k] = Start(text, Least(k, Len(text)))

LEMMA NextLeadIs ==
    ASSUME NEW text \in Seq(Chars), NEW k \in 0 .. Len(text) - 1
    PROVE  NextLead(Bytes(text), Start(text, k)) = Start(text, k + 1)
  <1>1. PICK s : s = Bytes(text) /\ Len(s) \in Nat
    BY StartsAre
  <1>2. PICK a \in Nat : a = Start(text, k)
    BY StartsOne
  <1>3. PICK l \in Nat \ {0} : l = Len(Encoding[text[k + 1]])
    BY StartsOne
  <1>4. Start(text, k + 1) = a + l /\ a + l <= Len(s)
    BY <1>1, <1>2, <1>3, StartsOne
  <1>5. Byte(s, a + l) # Continuation
    <2>1. k + 1 \in 0 .. Len(text)
      BY StartsAre
    <2> QED BY <1>1, <1>4, <2>1, LeadIsChar
  <1>6. \A j \in a + 1 .. (a + l) - 1 : Byte(s, j) = Continuation
    <2> SUFFICES ASSUME NEW j \in a + 1 .. (a + l) - 1 PROVE Byte(s, j) = Continuation
      OBVIOUS
    <2>1. j - a \in 0 .. l - 1 /\ a + (j - a) = j /\ j - a # 0
      OBVIOUS
    <2>2. Byte(s, a + (j - a)) = Continuation
      BY <1>1, <1>2, <1>3, <2>1, ByteAt
    <2> QED BY <2>1, <2>2
  <1>7. a + l \in a + 1 .. Len(s)
    BY <1>1, <1>4
  <1> DEFINE Leads(q) == /\ Byte(s, q) # Continuation
                         /\ \A j \in a + 1 .. q - 1 : Byte(s, j) = Continuation
  <1>8. Leads(a + l)
    BY <1>5, <1>6
  <1>9. ASSUME NEW q \in a + 1 .. Len(s), Leads(q) PROVE q = a + l
    <2>1. q \in Nat /\ a + 1 <= q
      OBVIOUS
    <2>2. CASE q < a + l
      <3>1. q \in a + 1 .. (a + l) - 1
        BY <2>1, <2>2
      <3> QED BY <1>6, <1>9, <3>1
    <2>3. CASE a + l < q
      <3>1. a + l \in a + 1 .. q - 1
        BY <2>1, <2>3
      <3> QED BY <1>5, <1>9, <3>1
    <2> QED BY <2>1, <2>2, <2>3
  <1>10. NextLead(s, a) = CHOOSE q \in a + 1 .. Len(s) : Leads(q)
    BY DEF NextLead
  <1> HIDE DEF Leads
  <1>11. NextLead(s, a) = a + l
    BY <1>7, <1>8, <1>9, <1>10
  <1> QED BY <1>1, <1>2, <1>4, <1>11

LEMMA SkipsOne ==
    ASSUME NEW text \in Seq(Chars), NEW n \in 1 .. Len(Bytes(text)), NEW f,
           f[n - 1] = Start(text, Least(n - 1, Len(text)))
    PROVE  Skips(Bytes(text), f, n) = Start(text, Least(n, Len(text)))
  <1>1. PICK z \in Nat : z = Len(text)
    BY StartsAre
  <1>2. n \in Nat \ {0} /\ n # 0
    BY StartsAre
  <1>3. PICK m \in 0 .. z : m = Least(n - 1, z)
    BY <1>1, <1>2, LeastNext
  <1>4. Len(Bytes(text)) = Start(text, z) /\ Len(Bytes(text)) \in Nat
    BY <1>1, StartsAre
  <1>5. CASE m = z
    <2>1. ~ (f[n - 1] < Len(Bytes(text)))
      BY <1>1, <1>3, <1>4, <1>5
    <2>2. Skips(Bytes(text), f, n) = Len(Bytes(text))
      BY <1>2, <2>1 DEF Skips
    <2>3. Least(n, z) = z
      BY <1>2, <1>3, <1>5, LeastNext
    <2> QED BY <1>1, <1>4, <2>2, <2>3
  <1>6. CASE m # z
    <2>0. m < z /\ z \in 0 .. z
      BY <1>3, <1>6
    <2>1. Least(n, z) = m + 1 /\ m \in 0 .. z - 1
      BY <1>2, <1>3, <1>6, LeastNext
    <2>2. f[n - 1] = Start(text, m) /\ Start(text, m) < Len(Bytes(text))
      BY <1>1, <1>3, <1>4, <2>0, StartsRise
    <2>3. Skips(Bytes(text), f, n) = NextLead(Bytes(text), Start(text, m))
      BY <1>2, <2>2 DEF Skips
    <2> QED BY <1>1, <2>1, <2>3, NextLeadIs
  <1> QED BY <1>5, <1>6

LEMMA SkipsVisit ==
    ASSUME NEW text \in Seq(Chars), NEW posi,
           posi = CHOOSE f : f = [k \in 0 .. Len(Bytes(text)) |-> Skips(Bytes(text), f, k)]
    PROVE  Visits(posi, text)
  <1>1. PICK s : s = Bytes(text)
    OBVIOUS
  <1>2. Len(s) \in Nat /\ Len(text) \in Nat
    BY <1>1, StartsAre
  <1>3. Start(text, Least(0, Len(text))) = 0
    BY <1>2, StartsAre DEF Least
  <1> DEFINE g == [n \in 0 .. Len(s) |-> Start(text, Least(n, Len(text)))]
  <1>4. ASSUME NEW n \in 0 .. Len(s) PROVE g[n] = Skips(s, g, n)
    <2>1. CASE n = 0
      BY <1>3, <2>1 DEF Skips
    <2>2. CASE n # 0
      <3>1. n \in 1 .. Len(s) /\ n - 1 \in 0 .. Len(s)
        BY <1>2, <2>2
      <3>2. g[n - 1] = Start(text, Least(n - 1, Len(text))) /\ g[n] = Start(text, Least(n, Len(text)))
        BY <3>1
      <3> HIDE DEF g
      <3> QED BY <1>1, <3>1, <3>2, SkipsOne
    <2> QED BY <2>1, <2>2
  <1>5. g = [n \in 0 .. Len(s) |-> Skips(s, g, n)]
    <2>1. g = [n \in 0 .. Len(s) |-> g[n]]
      OBVIOUS
    <2> HIDE DEF g
    <2> QED BY <1>4, <2>1
  <1>6. posi = [n \in 0 .. Len(s) |-> Skips(s, posi, n)]
    <2> HIDE DEF g
    <2> QED BY <1>1, <1>5
  <1>7. \A n \in 0 .. Len(s) : posi[n] = Skips(s, posi, n)
    BY <1>6
  <1> DEFINE Same == {n \in Nat : n <= Len(s) => posi[n] = Start(text, Least(n, Len(text)))}
  <1>8. 0 \in Same
    <2>1. posi[0] = Skips(s, posi, 0) /\ Skips(s, posi, 0) = 0
      BY <1>2, <1>7 DEF Skips
    <2> QED BY <1>3, <2>1
  <1>9. ASSUME NEW n \in Nat, n \in Same PROVE n + 1 \in Same
    <2>1. SUFFICES ASSUME n + 1 <= Len(s) PROVE posi[n + 1] = Start(text, Least(n + 1, Len(text)))
      OBVIOUS
    <2>2. n + 1 \in 1 .. Len(s) /\ n + 1 \in 0 .. Len(s) /\ (n + 1) - 1 = n /\ n <= Len(s)
      BY <1>2, <2>1
    <2>3. posi[n] = Start(text, Least(n, Len(text)))
      BY <1>9, <2>2
    <2>4. posi[n + 1] = Skips(s, posi, n + 1)
      BY <1>7, <2>2
    <2> HIDE DEF Same
    <2>5. posi[(n + 1) - 1] = Start(text, Least((n + 1) - 1, Len(text)))
      BY <2>2, <2>3
    <2> QED BY <1>1, <2>2, <2>4, <2>5, SkipsOne
  <1>10. ASSUME NEW n \in 0 .. Len(s) PROVE posi[n] = Start(text, Least(n, Len(text)))
    <2>1. n \in Nat /\ n <= Len(s)
      BY <1>2
    <2>2. n \in Same
      <3> HIDE DEF Same
      <3> QED BY <1>8, <1>9, <2>1, Induction
    <2> QED BY <2>1, <2>2
  <1> QED BY <1>1, <1>10 DEF Visits

Within(n, z) == IF n <= 0 THEN 0 ELSE Least(n, z)

LEMMA OffsetIs ==
    ASSUME NEW text \in Seq(Chars), NEW n \in Int
    PROVE  OffsetToBytes(Bytes(text), n) = Start(text, Within(n, Len(text)))
  <1>1. PICK s : s = Bytes(text) /\ Len(s) \in Nat
    BY StartsAre
  <1>2. PICK z \in Nat : z = Len(text)
    BY StartsAre
  <1>3. PICK posi : posi = CHOOSE f : f = [k \in 0 .. Len(s) |-> Skips(s, f, k)]
    OBVIOUS
  <1>4. OffsetToBytes(s, n) = IF n <= 0 THEN 0 ELSE posi[Min({n, Len(s)})]
    BY <1>3 DEF OffsetToBytes, Skips, NextLead
  <1>5. CASE n <= 0
    BY <1>1, <1>4, <1>5, StartsAre DEF Within
  <1>6. CASE ~ (n <= 0)
    <2>1. z <= Len(s)
      <3>1. z \in 0 .. z
        OBVIOUS
      <3> QED BY <1>1, <1>2, <3>1, StartsAre
    <2>2. PICK m : m = Min({n, Len(s)})
      OBVIOUS
    <2>3. m = IF n <= Len(s) THEN n ELSE Len(s)
      BY <1>1, <2>2, OfTwo
    <2>4. m \in 0 .. Len(s) /\ Least(m, z) = Least(n, z)
      BY <1>1, <1>6, <2>1, <2>3 DEF Least
    <2>5. Visits(posi, text)
      BY <1>1, <1>3, SkipsVisit
    <2>6. posi[m] = Start(text, Least(m, z))
      BY <1>1, <1>2, <2>4, <2>5 DEF Visits
    <2>7. OffsetToBytes(s, n) = posi[m]
      BY <1>4, <1>6, <2>2
    <2>8. Within(n, z) = Least(n, z)
      BY <1>6 DEF Within
    <2> QED BY <1>1, <1>2, <2>4, <2>6, <2>7, <2>8
  <1> QED BY <1>5, <1>6

-----------------------------------------------------------------------------
(* unicode_wtrunc decodes up to the first NUL, behind z characters.          *)
Walks(s, f, n) ==
    IF n = 0 THEN 0
    ELSE IF f[n - 1] = -1 \/ Byte(s, f[n - 1]) = Nul THEN f[n - 1]
    ELSE Utf8Decode(s, f[n - 1])
EndsAt(text, z) ==
    /\ z \in 0 .. Len(text) /\ (z # Len(text) => text[z + 1] = Nul)
    /\ \A j \in 1 .. z : text[j] # Nul

LEMMA WalksFound ==
    ASSUME NEW text \in Seq(Chars), NEW z \in Nat, EndsAt(text, z),
           NEW n \in 1 .. Len(Bytes(text)), NEW f, f[n - 1] = Found(text, Least(n - 1, z))
    PROVE  Walks(Bytes(text), f, n) = Found(text, Least(n, z))
  <1>1. n \in Nat \ {0} /\ n # 0
    BY StartsAre
  <1>2. PICK m \in 0 .. z : m = Least(n - 1, z)
    BY <1>1, LeastNext
  <1>3. Len(text) \in Nat /\ z <= Len(text) /\ m \in 0 .. Len(text)
    BY StartsAre DEF EndsAt
  <1>4. CASE Found(text, m) = -1
    <2>1. Walks(Bytes(text), f, n) = -1
      BY <1>1, <1>2, <1>4 DEF Walks
    <2>2. Found(text, Least(n, z)) = -1
      <3>1. CASE m = z
        BY <1>1, <1>2, <1>4, <3>1, LeastNext
      <3>2. CASE m # z
        <4>1. Least(n, z) = m + 1 /\ m \in 0 .. z - 1
          BY <1>1, <1>2, <3>2, LeastNext
        <4>2. m \in 0 .. Len(text) - 1
          BY <1>3, <4>1
        <4> QED BY <1>4, <4>1, <4>2, FoundIs
      <3> QED BY <3>1, <3>2
    <2> QED BY <2>1, <2>2
  <1>5. CASE Found(text, m) # -1
    <2>1. Found(text, m) = Start(text, m)
      BY <1>3, <1>5, FoundIs
    <2>2. Byte(Bytes(text), Start(text, m)) = IF m = Len(text) THEN Nul ELSE text[m + 1]
      BY <1>3, LeadAt
    <2>3. CASE m = z
      <3>1. Byte(Bytes(text), Start(text, m)) = Nul
        BY <2>2, <2>3 DEF EndsAt
      <3>2. Walks(Bytes(text), f, n) = Found(text, m)
        BY <1>1, <1>2, <2>1, <3>1 DEF Walks
      <3>3. Least(n, z) = m
        BY <1>1, <1>2, <2>3, LeastNext
      <3> QED BY <3>2, <3>3
    <2>4. CASE m # z
      <3>1. Least(n, z) = m + 1 /\ m \in 0 .. z - 1
        BY <1>1, <1>2, <2>4, LeastNext
      <3>2. m \in 0 .. Len(text) - 1 /\ m # Len(text) /\ m + 1 \in 1 .. z
        BY <1>3, <3>1
      <3>3. Byte(Bytes(text), Start(text, m)) # Nul
        BY <2>2, <3>2 DEF EndsAt
      <3>4. Walks(Bytes(text), f, n) = Utf8Decode(Bytes(text), Found(text, m))
        BY <1>1, <1>2, <1>5, <2>1, <3>3 DEF Walks
      <3> QED BY <1>5, <3>1, <3>2, <3>4, FoundIs
    <2> QED BY <2>3, <2>4
  <1> QED BY <1>4, <1>5

LEMMA WalksFollow ==
    ASSUME NEW text \in Seq(Chars), NEW z \in Nat, EndsAt(text, z), NEW string,
           string = CHOOSE f : f = [n \in 0 .. Len(Bytes(text)) |-> Walks(Bytes(text), f, n)]
    PROVE  Follows(string, text, z)
  <1>1. PICK s : s = Bytes(text)
    OBVIOUS
  <1>2. Len(s) \in Nat
    BY <1>1, StartsAre
  <1>3. Found(text, Least(0, z)) = 0
    BY FoundIs DEF Least
  <1> DEFINE g == [n \in 0 .. Len(s) |-> Found(text, Least(n, z))]
  <1>4. ASSUME NEW n \in 0 .. Len(s) PROVE g[n] = Walks(s, g, n)
    <2>1. CASE n = 0
      BY <1>3, <2>1 DEF Walks
    <2>2. CASE n # 0
      <3>1. n \in 1 .. Len(s) /\ n - 1 \in 0 .. Len(s)
        BY <1>2, <2>2
      <3>2. g[n - 1] = Found(text, Least(n - 1, z)) /\ g[n] = Found(text, Least(n, z))
        BY <3>1
      <3> HIDE DEF g
      <3> QED BY <1>1, <3>1, <3>2, WalksFound
    <2> QED BY <2>1, <2>2
  <1>5. g = [n \in 0 .. Len(s) |-> Walks(s, g, n)]
    <2>1. g = [n \in 0 .. Len(s) |-> g[n]]
      OBVIOUS
    <2> HIDE DEF g
    <2> QED BY <1>4, <2>1
  <1>6. string = [n \in 0 .. Len(s) |-> Walks(s, string, n)]
    <2> HIDE DEF g
    <2> QED BY <1>1, <1>5
  <1>7. \A n \in 0 .. Len(s) : string[n] = Walks(s, string, n)
    BY <1>6
  <1> DEFINE Same == {n \in Nat : n <= Len(s) => string[n] = Found(text, Least(n, z))}
  <1>8. 0 \in Same
    <2>1. string[0] = Walks(s, string, 0) /\ Walks(s, string, 0) = 0
      BY <1>2, <1>7 DEF Walks
    <2> QED BY <1>3, <2>1
  <1>9. ASSUME NEW n \in Nat, n \in Same PROVE n + 1 \in Same
    <2>1. SUFFICES ASSUME n + 1 <= Len(s) PROVE string[n + 1] = Found(text, Least(n + 1, z))
      OBVIOUS
    <2>2. n + 1 \in 1 .. Len(s) /\ n + 1 \in 0 .. Len(s) /\ (n + 1) - 1 = n /\ n <= Len(s)
      BY <1>2, <2>1
    <2>3. string[n] = Found(text, Least(n, z))
      BY <1>9, <2>2
    <2>4. string[n + 1] = Walks(s, string, n + 1)
      BY <1>7, <2>2
    <2> HIDE DEF Same
    <2>5. string[(n + 1) - 1] = Found(text, Least((n + 1) - 1, z))
      BY <2>2, <2>3
    <2> QED BY <1>1, <2>2, <2>4, <2>5, WalksFound
  <1>10. ASSUME NEW n \in 0 .. Len(s) PROVE string[n] = Found(text, Least(n, z))
    <2>1. n \in Nat /\ n <= Len(s)
      BY <1>2
    <2>2. n \in Same
      <3> HIDE DEF Same
      <3> QED BY <1>8, <1>9, <2>1, Induction
    <2> QED BY <2>1, <2>2
  <1> QED BY <1>1, <1>10 DEF Follows

LEMMA LeastOf ==
    ASSUME NEW S \in SUBSET Nat, S # {} PROVE Min(S) \in S /\ \A n \in S : Min(S) <= n
  <1> DEFINE R == OpToRel(<, Nat)
  <1>1. IsWellFoundedOn(R, Nat)
    BY NatLessThanWellFounded
  <1>2. \A m, n \in Nat : m < n => <<m, n>> \in R
    BY DEF OpToRel
  <1> HIDE DEF R
  <1>3. PICK x \in S : \A y \in S : ~ (<<y, x>> \in R)
    BY <1>1, WFMin
  <1>4. ASSUME NEW n \in S PROVE n \in Int /\ x <= n
    <2>1. x \in Nat /\ n \in Nat
      OBVIOUS
    <2>2. ~ (n < x)
      BY <1>2, <1>3, <2>1
    <2> QED BY <2>1, <2>2
  <1>5. Min(S) = x
    BY <1>4, MinIs
  <1> QED BY <1>4, <1>5

(* The characters before the first NUL. *)
LEMMA NulEnds ==
    ASSUME NEW text \in Seq(Chars)
    PROVE  \E z \in Nat :
               /\ EndsAt(text, z)
               /\ \A width \in Nat : Truncated(text, width) = Piece(text, 0, Least(width, z))
  <1>1. PICK n \in Nat : n = Len(text)
    BY StartsAre
  <1> DEFINE I == {i \in 1 .. n : text[i] = Nul}
  <1>2. PICK nul : nul = IF I # {} THEN Min(I) ELSE 0
    OBVIOUS
  <1>3. SelectInSeq(text, LAMBDA c : c = Nul) = nul
    BY <1>1, <1>2 DEF SelectInSeq
  <1>4. PICK z : z = IF nul = 0 THEN n ELSE nul - 1
    OBVIOUS
  <1>5. z \in Nat /\ EndsAt(text, z) /\ (nul # 0 => z = nul - 1) /\ (nul = 0 => z = n)
    <2>1. CASE I = {}
      <3>1. z = n /\ nul = 0
        BY <1>2, <1>4, <2>1
      <3>2. \A j \in 1 .. n : text[j] # Nul
        BY <2>1
      <3>3. n \in 0 .. n
        OBVIOUS
      <3> QED BY <1>1, <3>1, <3>2, <3>3 DEF EndsAt
    <2>2. CASE I # {}
      <3>1. I \in SUBSET Nat
        OBVIOUS
      <3>2. nul \in I /\ \A i \in I : nul <= i
        <4> HIDE DEF I
        <4> QED BY <1>2, <2>2, <3>1, LeastOf
      <3>3. nul \in 1 .. n /\ text[nul] = Nul
        BY <3>2
      <3>4. z = nul - 1 /\ nul # 0 /\ z \in 0 .. n /\ z + 1 = nul
        BY <1>4, <3>3
      <3>5. ASSUME NEW j \in 1 .. z, text[j] = Nul PROVE FALSE
        <4>1. j \in 1 .. n /\ ~ (nul <= j)
          BY <3>3, <3>4
        <4>2. j \in I
          BY <3>5, <4>1
        <4> HIDE DEF I
        <4> QED BY <3>2, <4>1, <4>2
      <3> QED BY <1>1, <3>3, <3>4, <3>5 DEF EndsAt
    <2> QED BY <2>1, <2>2
  <1>6. z <= n
    BY <1>1, <1>5 DEF EndsAt
  <1>7. (IF nul = 0 THEN text ELSE SubSeq(text, 1, nul - 1)) = Piece(text, 0, z)
    <2>1. CASE nul = 0
      BY <1>1, <1>5, <2>1, PiecesEnd
    <2>2. CASE nul # 0
      BY <1>5, <2>2 DEF Piece
    <2> QED BY <2>1, <2>2
  <1>8. PICK all \in Seq(Chars) : all = Piece(text, 0, z) /\ IsPiece(all, text, 0, z)
    <2>1. 0 <= z /\ z <= Len(text)
      BY <1>1, <1>5, <1>6
    <2> QED BY <1>5, <2>1, PieceIs
  <1>9. Len(all) = z
    BY <1>5, <1>8 DEF IsPiece
  <1>10. ASSUME NEW width \in Nat
         PROVE  Truncated(text, width) = Piece(text, 0, Least(width, z))
    <2>1. Truncated(text, width) = SubSeq(all, 1, Min({width, Len(all)}))
      BY <1>3, <1>7, <1>8, Zenon DEF Truncated
    <2>2. Truncated(text, width) = Piece(text, 0, Least(width, z))
      <3>1. PICK m : m = Least(width, z)
        OBVIOUS
      <3>2. Min({width, Len(all)}) = m
        BY <1>5, <1>9, <3>1, OfTwo DEF Least
      <3>3. m \in Nat /\ 0 <= m /\ m <= z /\ m <= Len(text) /\ m <= Len(all)
        BY <1>1, <1>5, <1>6, <1>9, <3>1 DEF Least
      <3>4. PICK p \in Seq(Chars) : p = Piece(all, 0, m) /\ IsPiece(p, all, 0, m)
        BY <3>3, PieceIs
      <3>5. PICK q \in Seq(Chars) : q = Piece(text, 0, m) /\ IsPiece(q, text, 0, m)
        BY <3>3, PieceIs
      <3>6. \A i \in 1 .. m : p[i] = q[i]
        <4> SUFFICES ASSUME NEW i \in 1 .. m PROVE p[i] = q[i]
          OBVIOUS
        <4>1. i \in 1 .. m - 0 /\ i \in 1 .. z - 0 /\ 0 + i = i
          BY <1>5, <3>3
        <4>2. p[i] = all[i] /\ q[i] = text[i]
          BY <3>4, <3>5, <4>1 DEF IsPiece
        <4>3. all[i] = text[i]
          BY <1>8, <4>1 DEF IsPiece
        <4> QED BY <4>2, <4>3
      <3>7. Len(p) = m /\ Len(q) = m
        BY <3>3, <3>4, <3>5 DEF IsPiece
      <3>8. p = q
        BY <3>6, <3>7, SeqEqual
      <3>9. SubSeq(all, 1, m) = p
        BY <3>4 DEF Piece
      <3> QED BY <2>1, <3>1, <3>2, <3>5, <3>8, <3>9
    <2> QED BY <2>2
  <1> QED BY <1>5, <1>10

-----------------------------------------------------------------------------
(* What each function returns.                                               *)
IfValid(text, value) == IF Valid(text) THEN value ELSE Failure

LEMMA ValidIs ==
    ASSUME NEW text \in Seq(Chars)
    PROVE  /\ Valid(text) <=> ~ Cut(text)
           /\ Valid(Seen(text)) <=> Length(text) = 0 \/ ~ Cut(text)
           /\ Length(text) \in Nat /\ (Length(text) = 0 \/ Length(text) = Len(text))
  <1>1. \A t \in Seq(Chars) : Valid(t) <=> ~ Cut(t)
    <2> SUFFICES ASSUME NEW t \in Seq(Chars) PROVE Valid(t) <=> ~ Cut(t)
      OBVIOUS
    <2>1. Range(t) = {t[j] : j \in 1 .. Len(t)}
      BY LenProperties DEF Range
    <2> QED BY <2>1 DEF Valid, Cut
  <1>2. <<>> \in Seq(Chars) /\ ~ Cut(<<>>)
    <2>1. Len(<<>>) = 0 /\ <<>> \in Seq(Chars)
      BY EmptySeq
    <2>2. 1 .. 0 = {}
      OBVIOUS
    <2> QED BY <2>1, <2>2 DEF Cut
  <1>3. Length(text) \in Nat /\ (Length(text) = 0 \/ Length(text) = Len(text))
    BY LenProperties DEF Length
  <1> QED BY <1>1, <1>2, <1>3 DEF Seen

LEMMA CountIs ==
    ASSUME NEW text \in Seq(Chars)
    PROVE  StringLength(Bytes(text)) = IF Valid(Seen(text)) THEN Length(text) ELSE -1
BY ValidIs, StringLengthIs

LEMMA LenIs ==
    ASSUME NEW text \in Seq(Chars)
    PROVE  UnicodeLen(Bytes(text)) = IfValid(Seen(text), Length(text))
  <1>1. CASE Valid(Seen(text))
    <2>1. StringLength(Bytes(text)) = Length(text) /\ Length(text) >= 0
      BY <1>1, CountIs, ValidIs
    <2> QED BY <1>1, <2>1 DEF UnicodeLen, IfValid
  <1>2. CASE ~ Valid(Seen(text))
    <2>1. StringLength(Bytes(text)) = -1 /\ ~ (-1 >= 0)
      BY <1>2, CountIs
    <2> QED BY <1>2, <2>1 DEF UnicodeLen, IfValid
  <1> QED BY <1>1, <1>2

(* Between two positions of bytes are the characters between theirs.         *)
LEMMA CutsThere ==
    ASSUME NEW text \in Seq(Chars), NEW a \in 0 .. Len(text), NEW b \in Int, b <= Len(text)
    PROVE  SubSeq(Bytes(text), Start(text, a) + 1, Start(text, Within(b, Len(text))))
               = Bytes(SubSeq(text, a + 1, b))
  <1>1. PICK z \in Nat : z = Len(text)
    BY StartsAre
  <1>2. a \in Nat /\ Start(text, a) \in Nat
    BY <1>1, StartsAre
  <1>3. CASE a <= b
    <2>1. b \in Nat /\ Within(b, z) = b
      BY <1>1, <1>2, <1>3 DEF Within, Least
    <2>2. Piece(Bytes(text), Start(text, a), Start(text, b)) = Bytes(Piece(text, a, b))
      BY <1>2, <1>3, <2>1, BytesOfPiece
    <2> QED BY <1>1, <2>1, <2>2 DEF Piece
  <1>4. CASE ~ (a <= b)
    <2>1. b < a + 1
      BY <1>2, <1>4
    <2>2. SubSeq(text, a + 1, b) = <<>>
      BY <1>2, <2>1, SubSeqEmpty
    <2>3. Within(b, z) \in 0 .. z /\ Within(b, z) <= a
      BY <1>1, <1>2, <1>4 DEF Within, Least
    <2>4. Start(text, Within(b, z)) <= Start(text, a) /\ Start(text, Within(b, z)) \in Nat
      BY <1>1, <2>3, StartsRise, StartsAre
    <2>5. Start(text, Within(b, z)) < Start(text, a) + 1
      BY <1>2, <2>4
    <2>6. SubSeq(Bytes(text), Start(text, a) + 1, Start(text, Within(b, z))) = <<>>
      BY <1>2, <2>4, <2>5, SubSeqEmpty
    <2> QED BY <1>1, <2>2, <2>6, BytesOfFew
  <1> QED BY <1>3, <1>4

From(text, start) == Min({Max({start, 1}) - 1, Length(text)})
To(text, end) == IF end = Absent THEN Len(text) ELSE Min({end, Length(text)})

LEMMA FromIs ==
    ASSUME NEW text \in Seq(Chars), NEW start \in Int
    PROVE  /\ From(text, start) \in 0 .. Len(text)
           /\ Start(text, From(text, start)) =
                IF start < 0 THEN OffsetToBytes(Bytes(text), Max({start, -Length(text)}))
                ELSE IF start > 0 THEN OffsetToBytes(Bytes(text), Min({start - 1, Length(text)}))
                ELSE 0
  <1>1. PICK z \in Nat : z = Len(text)
    BY StartsAre
  <1>2. PICK l \in Nat : l = Length(text) /\ l <= z
    BY <1>1, ValidIs
  <1>3. -l \in Int /\ start - 1 \in Int
    OBVIOUS
  <1>4. From(text, start) = IF start < 1 THEN 0 ELSE Least(start - 1, l)
    <2>0. PICK one \in Int : one = 1
      OBVIOUS
    <2>a. Max({start, one}) = IF start <= one THEN one ELSE start
      BY OfTwo
    <2>1. PICK m \in Int : m = Max({start, 1}) /\ m = (IF start <= 1 THEN 1 ELSE start)
      BY <2>0, <2>a
    <2>2. Min({m - 1, l}) = Least(m - 1, l)
      BY OfTwo DEF Least
    <2>3. From(text, start) = Least(m - 1, l)
      BY <1>2, <2>1, <2>2 DEF From
    <2> QED BY <2>1, <2>3 DEF Least
  <1>5. From(text, start) \in 0 .. z
    BY <1>2, <1>4 DEF Least
  <1>6. CASE start < 0
    <2>0. PICK least \in Int : least = -l
      BY <1>3
    <2>a. Max({start, least}) = IF start <= least THEN least ELSE start
      BY OfTwo
    <2>1. PICK m \in Int : m = Max({start, -l}) /\ m <= 0
      BY <1>6, <2>0, <2>a
    <2>2. Within(m, z) = 0 /\ From(text, start) = 0
      BY <1>4, <1>6, <2>1 DEF Within
    <2> QED BY <1>1, <1>2, <1>5, <1>6, <2>1, <2>2, OffsetIs
  <1>7. CASE start > 0
    <2>1. PICK m \in Int : m = Min({start - 1, l}) /\ m = Least(start - 1, l)
      BY <1>3, OfTwo DEF Least
    <2>2. From(text, start) = m /\ Within(m, z) = m
      <3>1. From(text, start) = m
        BY <1>4, <1>7, <2>1
      <3>2. m \in 0 .. z
        BY <1>5, <3>1
      <3> QED BY <3>1, <3>2 DEF Within, Least
    <2>3. ~ (start < 0)
      BY <1>7
    <2> QED BY <1>1, <1>2, <1>5, <1>7, <2>1, <2>2, <2>3, OffsetIs
  <1>8. CASE ~ (start < 0) /\ ~ (start > 0)
    <2>1. From(text, start) = 0
      BY <1>4, <1>8
    <2> QED BY <1>1, <1>5, <1>8, <2>1, StartsAre
  <1> QED BY <1>6, <1>7, <1>8

LEMMA ToIs ==
    ASSUME NEW text \in Seq(Chars), NEW end, end \in Int \/ end = Absent
    PROVE  /\ To(text, end) \in Int /\ To(text, end) <= Len(text)
           /\ Start(text, Within(To(text, end), Len(text))) =
                IF end = Absent THEN Len(Bytes(text))
                ELSE IF end < 0 THEN OffsetToBytes(Bytes(text), Max({end + 1, -Length(text)}))
                ELSE OffsetToBytes(Bytes(text), Min({end, Length(text)}))
  <1>1. PICK z \in Nat : z = Len(text)
    BY StartsAre
  <1>2. PICK l \in Nat : l = Length(text) /\ l <= z
    BY <1>1, ValidIs
  <1>3. CASE end = Absent
    <2>1. To(text, end) = z /\ Within(z, z) = z
      BY <1>1, <1>3 DEF To, Within, Least
    <2> QED BY <1>1, <1>3, <2>1, StartsAre
  <1>4. CASE end # Absent
    <2>1. end \in Int /\ end + 1 \in Int /\ -l \in Int
      BY <1>4
    <2>2. PICK m \in Int : m = To(text, end) /\ m = Min({end, l}) /\ m = Least(end, l)
      BY <1>2, <1>4, <2>1, OfTwo DEF To, Least
    <2>3. m <= z
      BY <1>2, <2>1, <2>2 DEF Least
    <2>4. CASE end < 0
      <3>0. PICK least \in Int, after \in Int : least = -l /\ after = end + 1
        BY <2>1
      <3>a. Max({after, least}) = IF after <= least THEN least ELSE after
        BY OfTwo
      <3>1. PICK n \in Int : n = Max({end + 1, -l}) /\ n <= 0
        BY <2>1, <2>4, <3>0, <3>a
      <3>2. m <= 0
        BY <2>1, <2>2, <2>4 DEF Least
      <3>3. Within(m, z) = 0 /\ Within(n, z) = 0
        BY <3>1, <3>2 DEF Within
      <3> QED BY <1>1, <1>2, <1>4, <2>2, <2>3, <2>4, <3>1, <3>3, OffsetIs
    <2>5. CASE ~ (end < 0)
      BY <1>1, <1>2, <1>4, <2>2, <2>3, <2>5, OffsetIs
    <2> QED BY <2>4, <2>5
  <1> QED BY <1>3, <1>4

LEMMA SubIs ==
    ASSUME NEW text \in Seq(Chars), NEW start \in Int, NEW end, end \in Int \/ end = Absent
    PROVE  UnicodeSub(Bytes(text), start, end) = IfValid(Seen(text), Bytes(Slice(text, start, end)))
  <1>1. PICK s : s = Bytes(text)
    OBVIOUS
  <1>2. CASE Valid(Seen(text))
    <2>1. StringLength(s) = Length(text) /\ ~ (Length(text) < 0)
      BY <1>1, <1>2, CountIs, ValidIs
    <2>2. UnicodeSub(s, start, end) = SubSeq(s, Start(text, From(text, start)) + 1,
                                             Start(text, Within(To(text, end), Len(text))))
      BY <1>1, <2>1, FromIs, ToIs, Zenon DEF UnicodeSub
    <2>3. From(text, start) \in 0 .. Len(text) /\ To(text, end) \in Int /\ To(text, end) <= Len(text)
      BY FromIs, ToIs
    <2>4. Slice(text, start, end) = SubSeq(text, From(text, start) + 1, To(text, end))
      BY DEF Slice, From, To
    <2> QED BY <1>1, <1>2, <2>2, <2>3, <2>4, CutsThere DEF IfValid
  <1>3. CASE ~ Valid(Seen(text))
    <2>1. StringLength(s) = -1 /\ -1 < 0
      BY <1>1, <1>3, CountIs
    <2> QED BY <1>1, <1>3, <2>1 DEF UnicodeSub, IfValid
  <1> QED BY <1>2, <1>3

LEMMA WtruncIs ==
    ASSUME NEW text \in Seq(Chars), NEW width \in Int
    PROVE  UnicodeWtrunc(Bytes(text), width) =
               IfValid(Truncated(text, SizeT(width)), Bytes(Truncated(text, SizeT(width))))
  <1>1. PICK s : s = Bytes(text) /\ Len(s) \in Nat
    BY StartsAre
  <1>a. PICK size \in Nat : size = SizeT(width)
    BY UnicodeAssumption DEF SizeT
  <1>2. PICK z \in Nat : EndsAt(text, z) /\ Truncated(text, size) = Piece(text, 0, Least(size, z))
    BY NulEnds
  <1>3. PICK string : string = CHOOSE f : f = [n \in 0 .. Len(s) |-> Walks(s, f, n)]
    OBVIOUS
  <1>4. PICK n : n = Min({size, Len(s)})
    OBVIOUS
  <1>5. UnicodeWtrunc(s, width) = IF string[n] = -1 THEN Failure ELSE SubSeq(s, 1, string[n])
    BY <1>a, <1>3, <1>4 DEF UnicodeWtrunc, Walks
  <1>6. PICK m : m = Least(size, z)
    OBVIOUS
  <1>7. Len(text) \in Nat /\ z <= Len(text) /\ Len(text) <= Len(s)
    <2>1. Len(text) \in 0 .. Len(text)
      BY StartsAre
    <2> QED BY <1>1, <1>2, <2>1, StartsAre DEF EndsAt
  <1>8. n \in 0 .. Len(s) /\ Least(n, z) = m
    <2>1. n = IF size <= Len(s) THEN size ELSE Len(s)
      BY <1>1, <1>4, OfTwo
    <2> QED BY <1>1, <1>6, <1>7, <2>1 DEF Least
  <1>9. string[n] = Found(text, m)
    <2>1. Follows(string, text, z)
      BY <1>1, <1>2, <1>3, WalksFollow
    <2> QED BY <1>1, <1>8, <2>1 DEF Follows
  <1>10. m \in Nat /\ 0 <= m /\ m <= Len(text)
    BY <1>6, <1>7 DEF Least
  <1>11. PICK seen \in Seq(Chars) : seen = Truncated(text, size) /\ seen = Piece(text, 0, m)
                                    /\ IsPiece(seen, text, 0, m)
    <2>1. 0 \in Nat
      OBVIOUS
    <2> QED BY <1>2, <1>6, <1>10, <2>1, PieceIs
  <1>12. Cut(seen) <=> \E j \in 1 .. m : text[j] \in Invalid
    <2>1. Len(seen) = m /\ \A j \in 1 .. m : seen[j] = text[j]
      <3>1. m - 0 = m /\ \A j \in 1 .. m : 0 + j = j
        BY <1>10
      <3> QED BY <1>11, <3>1 DEF IsPiece
    <2> QED BY <2>1 DEF Cut
  <1>13. CASE Cut(seen)
    <2>1. string[n] = -1
      BY <1>9, <1>12, <1>13 DEF Found
    <2> QED BY <1>1, <1>a, <1>5, <1>11, <1>13, <2>1, ValidIs DEF IfValid
  <1>14. CASE ~ Cut(seen)
    <2>1. string[n] = Start(text, m) /\ Start(text, m) # -1
      BY <1>9, <1>10, <1>12, <1>14, StartsAre DEF Found
    <2>2. Piece(s, 0, Start(text, m)) = Bytes(seen)
      <3>1. 0 \in Nat /\ Start(text, 0) = 0
        BY StartsAre
      <3> QED BY <1>1, <1>10, <1>11, <3>1, BytesOfPiece
    <2>3. SubSeq(s, 1, Start(text, m)) = Bytes(seen)
      BY <2>2 DEF Piece
    <2> QED BY <1>1, <1>a, <1>5, <1>11, <1>14, <2>1, <2>3, ValidIs DEF IfValid
  <1> QED BY <1>13, <1>14

LEMMA NothingAnswered == UnicodeInit => SlicesByCharacter
BY DEF UnicodeInit, NoAnswer, SlicesByCharacter

LEMMA CallsSlice == UnicodeCall => SlicesByCharacter'
  <1> SUFFICES ASSUME UnicodeCall PROVE SlicesByCharacter'
    OBVIOUS
  <1>1. \A text \in Texts : text \in Seq(Chars)
    BY UnicodeAssumption DEF Chars
  <1>2. \A n \in Indices : n \in Int
    BY UnicodeAssumption
  <1>3. PICK text \in Texts :
           \/ Answer("len", <<text>>, UnicodeLen(Bytes(text)))
           \/ Answer("charWidth", <<text>>, UnicodeCharWidth(Bytes(text)))
           \/ \E width \in Indices :
                  Answer("wtrunc", <<text, width>>, UnicodeWtrunc(Bytes(text), width))
           \/ \E start \in Indices, end \in Indices \cup {Absent} :
                  Answer("sub", <<text, start, end>>, UnicodeSub(Bytes(text), start, end))
    BY DEF UnicodeCall
  <1>4. text \in Seq(Chars)
    BY <1>1
  <1>5. CASE Answer("len", <<text>>, UnicodeLen(Bytes(text)))
    <2>1. answer'.function = "len" /\ answer'.arguments[1] = text
          /\ answer'.result = IfValid(Seen(text), Length(text))
      BY <1>4, <1>5, LenIs DEF Answer
    <2> QED BY <2>1 DEF SlicesByCharacter, IfValid
  <1>6. CASE Answer("charWidth", <<text>>, UnicodeCharWidth(Bytes(text)))
    BY <1>6 DEF Answer, SlicesByCharacter
  <1>7. ASSUME NEW width \in Indices,
               Answer("wtrunc", <<text, width>>, UnicodeWtrunc(Bytes(text), width))
        PROVE  SlicesByCharacter'
    <2>1. answer'.function = "wtrunc" /\ answer'.arguments[1] = text /\ answer'.arguments[2] = width
          /\ answer'.result = IfValid(Truncated(text, SizeT(width)), Bytes(Truncated(text, SizeT(width))))
      BY <1>2, <1>4, <1>7, WtruncIs DEF Answer
    <2> QED BY <2>1 DEF SlicesByCharacter, IfValid
  <1>8. ASSUME NEW start \in Indices, NEW end \in Indices \cup {Absent},
               Answer("sub", <<text, start, end>>, UnicodeSub(Bytes(text), start, end))
        PROVE  SlicesByCharacter'
    <2>1. start \in Int /\ (end \in Int \/ end = Absent)
      BY <1>2
    <2>2. answer'.function = "sub" /\ answer'.arguments[1] = text /\ answer'.arguments[2] = start
          /\ answer'.arguments[3] = end
          /\ answer'.result = IfValid(Seen(text), Bytes(Slice(text, start, end)))
      BY <1>4, <1>8, <2>1, SubIs DEF Answer
    <2> QED BY <2>2 DEF SlicesByCharacter, IfValid
  <1> QED BY <1>3, <1>5, <1>6, <1>7, <1>8

-----------------------------------------------------------------------------
(* The three parts of the interface, composed.  For every value of the       *)
(* constants, a behaviour of the whole is one of the signals: the other two  *)
(* touch neither the heap nor what signals and the eeprom keep.              *)
THEOREM SignalsAreRun == Spec => SignalsSpec
  <1>1. Init => SignalsInit
    BY DEF Init
  <1>2. [Next]_vars => [SignalsNext]_<<heap, eeprom_vars, signals_vars>>
    BY DEF Next, vars, eeprom_vars
  <1> QED BY <1>1, <1>2, PTL DEF Spec, SignalsSpec

(* What the signals and the eeprom promise alone they promise in the whole   *)
(* interface: memory has one owner, none is lost while there is some, signals*)
(* arrive as they were pushed and getData returns what setData was given.    *)
THEOREM SignalsKept ==
    Spec => [](SignalsOwn /\ LeaksOnlyOutOfMemory /\ PulledAsPushed /\ DataKept)
BY SignalsAreRun, SignalsOwnAlone, NothingLeaks, PulledIsPushed, DataStaysKept, PTL

(* component.list, type, methods, proxy and invoke: whenever Lua asks, it    *)
(* finds the components that have been added and no others, each with the    *)
(* methods it was given and no others, and a call of a method comes with its *)
(* component's data and all its arguments (a proxy's getPaletteColor, which  *)
(* expects invoke's arguments in front of its own, is excepted).             *)
THEOREM CallsReachMethods == Spec => []CallsAgree
  <1>1. Init => RegistryInv
    BY ComponentsBegin DEF Init
  <1>2. [Next]_vars => [Register]_registry_vars
    BY DEF Next, vars
  <1>3. RegistryInv /\ [Next]_vars => RegistryInv'
    BY <1>2, RegisterKeeps
  <1> QED BY <1>1, <1>3, CallsFound, PTL DEF Spec

(* unicode.len, unicode.sub and unicode.wtrunc: whatever the characters are  *)
(* encoded in, what is returned is counted and cut by character, the width   *)
(* of wtrunc counting modulo the size_t it becomes, and a character cut short*)
(* makes the call fail when it is met.  Negative indices of sub are left out.*)
THEOREM SlicesAreByCharacter == Spec => []SlicesByCharacter
  <1>1. Init => SlicesByCharacter
    BY NothingAnswered DEF Init
  <1>2. [Next]_vars => UnicodeCall \/ UNCHANGED answer
    BY DEF Next, vars
  <1>3. SlicesByCharacter /\ UNCHANGED answer => SlicesByCharacter'
    BY DEF SlicesByCharacter
  <1>4. SlicesByCharacter /\ [Next]_vars => SlicesByCharacter'
    BY <1>2, <1>3, CallsSlice
  <1> QED BY <1>1, <1>4, PTL DEF Spec

=============================================================================
