----------------------------- MODULE BootProofs -----------------------------
(***************************************************************************)
(* The boot's safety, for every keyboard, firmware configuration, signal   *)
(* ring and amount of typing (main.c, ps2.c).  Three inductive invariants, *)
(* one for each theorem, each relative to the type invariant:              *)
(*                                                                         *)
(*   ConfigInv follows the byte ps2_init takes for the configuration, from *)
(*             the cli before its command to what it writes back;          *)
(*   CountInv  counts, over the bytes on the wire, the buffer and the      *)
(*             answer, the signals that can still come of them;            *)
(*   FlagInv   compares the decoder's flags with those of one that starts  *)
(*             afresh at the first key typed after ps2_init.               *)
(*                                                                         *)
(* The last two speak of a sequence that grows and shrinks: they say that  *)
(* a function from its positions exists, step by step consistent with its  *)
(* elements.                                                               *)
(***************************************************************************)
EXTENDS Boot, SequenceTheorems, TLAPS

(* Where kmain is: before ps2_init asks for the configuration, while it      *)
(* waits for it, until it has written it back, and from then on.             *)
Before ==
    {"init_idt", "rtc_init", "get_time", "periodic", "components", "ps2_init",
     "read_cli", "read_command"}
Answering == {"poll", "read_config"}
Changing == {"read_sti", "change", "write_cli", "write_command", "write_config"}
After == {"write_sti", "start_lua", "lua", "halted"}

Value == 0 .. 255
Bytes2 == [value : Value, early : BOOLEAN]

(* "reset" is none of kmain's places: no interrupt comes before the table.   *)
TypeInv ==
    /\ pc \in Before \cup Answering \cup Changing \cup After
    /\ IF pc = "init_idt" THEN ~eflags_if ELSE idt
    /\ irr \subseteq Line /\ full \in BOOLEAN
    /\ controller \in Value /\ config \in Value /\ occupant \in Value
    /\ response \in Value \cup {Nothing}
    /\ command \in {"none", "read", "write", "awaits_data"}
    /\ data \in Bytes2 /\ wire \in Seq(Bytes2)

(* Until ps2_init asks, the controller has no command.  From the cli on the  *)
(* byte in its buffer, when there is one, is the one that is read.           *)
ConfigInv ==
    /\ pc \in Before => command = "none" /\ response = Nothing
    /\ pc \in {"read_command"} \cup Answering => ~eflags_if
    /\ pc = "poll" =>
        /\ command \in {"none", "read"}
        /\ IF full THEN data.value = occupant
           ELSE /\ occupant = controller
                /\ \/ command = "read" /\ response = Nothing
                   \/ command = "none" /\ response = controller
    /\ pc = "read_config" => full /\ data.value = occupant
    /\ pc \in {"read_sti", "change"} => config = occupant
    /\ pc \in {"write_cli", "write_command", "write_config"} => config = Configured(occupant)
    /\ pc \in After => controller = Configured(occupant)

(* The bytes that can still become a signal: on the wire after the first i   *)
(* there are at most count[i] of them.                                       *)
One(holds) == IF holds THEN 1 ELSE 0
Terminal(byte) == byte.value \notin {Break, Extended}
Counts(count) ==
    /\ count \in [0 .. Len(wire) -> Nat]
    /\ \A i \in 1 .. Len(wire) : count[i - 1] >= count[i] + One(Terminal(wire[i]))

(* The handler will read the byte in the buffer, be it one that was read.    *)
Awaited == full \/ Keyboard \in irr

(* The answer to ps2_init's command has not come to the buffer yet. *)
Unanswered == pc \in Before \/ command = "read" \/ response # Nothing

CountInv ==
    /\ in_buffer \in Nat /\ presses \in Nat
    /\ response # Nothing => command # "read"
    /\ \E count : /\ Counts(count)
                  /\ in_buffer + One(Awaited /\ Terminal(data)) + One(Unanswered) + count[0]
                         <= presses + 1

LEMMA Configuration ==
    ASSUME NEW b \in Value
    PROVE  Configured(b) \in Value /\ Bit(Configured(b), 0) /\ ~Bit(Configured(b), 6)
  <1>1. 2 ^ 0 = 1 /\ 2 ^ 6 = 64
    OBVIOUS
  <1>2. With(b, 0) \in Value /\ With(b, 0) % 2 = 1
    BY <1>1 DEF With, Bit, Value
  <1>3. ASSUME NEW c \in Value, c % 2 = 1
        PROVE  /\ Without(c, 6) \in Value /\ Without(c, 6) % 2 = 1
               /\ (Without(c, 6) \div 64) % 2 = 0
    BY <1>1, <1>3 DEF Without, Bit, Value
  <1>4. \A n \in Value : n \div 1 = n
    BY DEF Value
  <1> QED BY <1>1, <1>2, <1>3, <1>4 DEF Configured, Bit

(* The keyboard handler runs because its line asked. *)
LEMMA Served ==
    ASSUME irr \subseteq Line, Enter(Keyboard)
    PROVE  Keyboard \in irr
  <1> SUFFICES ASSUME Keyboard \notin irr PROVE FALSE
    OBVIOUS
  <1>1. irr \subseteq {Rtc}
    BY BootAssumption
  <1>2. Asking # {} /\ Acknowledged = Keyboard
    BY DEF Enter, Interrupted, Pending
  <1>3. Asking = {Cascade} /\ irr \cap Secondary = {Rtc}
    BY <1>1, <1>2 DEF Asking, SecondaryAsks, Primary, Secondary, Rtc
  <1>4. Min({Cascade}) = Cascade /\ Min({Rtc}) = Rtc
    BY DEF Min, Cascade, Rtc
  <1> QED BY <1>2, <1>3, <1>4 DEF Acknowledged, Keyboard, Rtc

LEMMA Joined ==
    ASSUME NEW x \in Value, NEW y \in Value, NEW z \in Value
    PROVE  <<x>> \o <<y>> = <<x, y>> /\ <<x, y>> \o <<z>> = <<x, y, z>>
  <1> DEFINE one == <<x>>
             next == <<y>>
             two == <<x, y>>
             last == <<z>>
  <1>1. /\ one \in Seq(Value) /\ Len(one) = 1 /\ one[1] = x
        /\ next \in Seq(Value) /\ Len(next) = 1 /\ next[1] = y
        /\ two \in Seq(Value) /\ Len(two) = 2 /\ two[1] = x /\ two[2] = y
        /\ last \in Seq(Value) /\ Len(last) = 1 /\ last[1] = z
    OBVIOUS
  <1> HIDE DEF one, next, two, last
  <1>2. ASSUME NEW s \in Seq(Value), s = one \o next
        PROVE  s = <<x, y>>
    <2>1. Len(s) = 2 /\ s[1] = x /\ s[2] = y
      <3>1. /\ Len(s) = Len(one) + Len(next)
            /\ \A i \in 1 .. Len(one) + Len(next) :
                   s[i] = IF i <= Len(one) THEN one[i] ELSE next[i - Len(one)]
        BY <1>1, <1>2, ConcatProperties
      <3> QED BY <1>1, <3>1
    <2> QED BY <2>1
  <1>3. ASSUME NEW s \in Seq(Value), s = two \o last
        PROVE  s = <<x, y, z>>
    <2>1. Len(s) = 3 /\ s[1] = x /\ s[2] = y /\ s[3] = z
      <3>1. /\ Len(s) = Len(two) + Len(last)
            /\ \A i \in 1 .. Len(two) + Len(last) :
                   s[i] = IF i <= Len(two) THEN two[i] ELSE last[i - Len(two)]
        BY <1>1, <1>3, ConcatProperties
      <3> QED BY <1>1, <3>1
    <2> QED BY <2>1
  <1>4. one \o next \in Seq(Value) /\ two \o last \in Seq(Value)
    BY <1>1, ConcatProperties
  <1> QED BY <1>2, <1>3, <1>4 DEF one, next, two, last

(* What a key sends: at most two prefixes and a byte. *)
LEMMA Sent ==
    ASSUME NEW raw \in Key, NEW up \in BOOLEAN
    PROVE  /\ Bytes(raw, up) \in Seq(Value) /\ Len(Bytes(raw, up)) \in 1 .. 3
           /\ \A i \in 1 .. Len(Bytes(raw, up)) - 1 : Bytes(raw, up)[i] \in {Extended, Break}
  <1>1. Set1[raw] \in 0 .. 127 /\ raw \in Nat /\ raw % 256 \in Value
    <2>1. KnownKeys \subseteq Nat
      BY DEF KnownKeys, PlainKeys, ExtendedKeys, Printable
    <2>2. \A n \in Nat : n % 256 \in 0 .. 255
      OBVIOUS
    <2> QED BY <2>1, <2>2, BootAssumption DEF Value
  <1>2. CASE Bit(controller, 6)
    <2> DEFINE b == Set1[raw] + (IF up THEN 128 ELSE 0)
    <2>1. b \in Value /\ Extended \in Value
      BY <1>1 DEF Value, Extended
    <2>2. Bytes(raw, up) = (IF raw >= 256 THEN <<Extended>> ELSE <<>>) \o <<b>>
      BY <1>2 DEF Bytes
    <2> HIDE DEF b
    <2>3. <<Extended>> \o <<b>> = <<Extended, b>> /\ <<>> \o <<b>> = <<b>>
      <3>1. <<b>> \in Seq(Value)
        BY <2>1
      <3> QED BY <2>1, <3>1, Joined, ConcatEmptySeq
    <2>4. Bytes(raw, up) = <<b>> \/ Bytes(raw, up) = <<Extended, b>>
      BY <2>2, <2>3
    <2>5. ASSUME NEW c \in {<<b>>, <<Extended, b>>}
          PROVE  /\ c \in Seq(Value) /\ Len(c) \in 1 .. 3
                 /\ \A i \in 1 .. Len(c) - 1 : c[i] \in {Extended, Break}
      <3>1. CASE c = <<b>>
        BY <2>1, <3>1
      <3>2. CASE c = <<Extended, b>>
        <4>1. c \in Seq(Value) /\ Len(c) = 2 /\ c[1] = Extended
          BY <2>1, <3>2
        <4>2. \A i \in 1 .. 2 - 1 : i = 1
          OBVIOUS
        <4> QED BY <4>1, <4>2
      <3> QED BY <2>5, <3>1, <3>2
    <2> QED BY <2>4, <2>5
  <1>3. CASE ~Bit(controller, 6)
    <2> DEFINE c == raw % 256
    <2>1. c \in Value /\ Extended \in Value /\ Break \in Value
      BY <1>1 DEF Extended, Break, Value
    <2>2. Bytes(raw, up) =
              (IF raw >= 256 THEN <<Extended>> ELSE <<>>) \o (IF up THEN <<Break>> ELSE <<>>) \o <<c>>
      BY <1>3 DEF Bytes, Scancodes
    <2> HIDE DEF c
    <2>3. Bytes(raw, up) \in {<<c>>, <<Break, c>>, <<Extended, c>>, <<Extended, Break, c>>}
      <3> DEFINE e == <<Extended>>
                 r == <<Break>>
                 k == <<c>>
      <3>1. e \in Seq(Value) /\ r \in Seq(Value) /\ k \in Seq(Value)
        BY <2>1
      <3>2. /\ e \o r = <<Extended, Break>> /\ <<Extended, Break>> \o k = <<Extended, Break, c>>
            /\ e \o k = <<Extended, c>> /\ r \o k = <<Break, c>>
        BY <2>1, Joined
      <3>3. /\ e \o <<>> = e /\ <<>> \o r = r /\ <<>> \o k = k /\ <<>> \o <<>> = <<>>
        BY <3>1, ConcatEmptySeq, EmptySeq
      <3> HIDE DEF e, r
      <3>4. Bytes(raw, up) = (IF raw >= 256 THEN e ELSE <<>>) \o (IF up THEN r ELSE <<>>) \o k
        BY <2>2 DEF e, r
      <3> HIDE DEF k
      <3>5. Bytes(raw, up) \in {k, r \o k, e \o k, (e \o r) \o k}
        BY <3>3, <3>4
      <3> QED BY <3>2, <3>5 DEF k
    <2>4. ASSUME NEW b \in Seq(Value), Len(b) \in 1 .. 3,
                 \/ Len(b) = 1
                 \/ Len(b) = 2 /\ b[1] \in {Extended, Break}
                 \/ Len(b) = 3 /\ b[1] = Extended /\ b[2] = Break
          PROVE  \A i \in 1 .. Len(b) - 1 : b[i] \in {Extended, Break}
      <3>1. \A n \in 1 .. 3 : \A i \in 1 .. n - 1 : n > 1 /\ (i = 1 \/ (i = 2 /\ n = 3))
        OBVIOUS
      <3> SUFFICES ASSUME NEW i \in 1 .. Len(b) - 1 PROVE b[i] \in {Extended, Break}
        OBVIOUS
      <3>2. Len(b) > 1 /\ (i = 1 \/ (i = 2 /\ Len(b) = 3))
        BY <2>4, <3>1
      <3>3. CASE i = 1
        <4>1. b[1] \in {Extended, Break}
          BY <2>4, <3>2
        <4> QED BY <3>3, <4>1
      <3>4. CASE i = 2
        BY <2>4, <3>2, <3>4
      <3> QED BY <3>2, <3>3, <3>4
    <2>5. ASSUME NEW b \in {<<c>>, <<Break, c>>, <<Extended, c>>, <<Extended, Break, c>>}
          PROVE  /\ b \in Seq(Value) /\ Len(b) \in 1 .. 3
                 /\ \/ Len(b) = 1
                    \/ Len(b) = 2 /\ b[1] \in {Extended, Break}
                    \/ Len(b) = 3 /\ b[1] = Extended /\ b[2] = Break
      <3>1. CASE b = <<c>>
        BY <2>1, <3>1
      <3>2. CASE b = <<Break, c>>
        BY <2>1, <3>2
      <3>3. CASE b = <<Extended, c>>
        BY <2>1, <3>3
      <3>4. CASE b = <<Extended, Break, c>>
        BY <2>1, <3>4
      <3> QED BY <3>1, <3>2, <3>3, <3>4
    <2> QED BY <2>3, <2>4, <2>5
  <1> QED BY <1>2, <1>3

-----------------------------------------------------------------------------
LEMMA TypeInit == Init => TypeInv
  <1> SUFFICES ASSUME Init PROVE TypeInv
    OBVIOUS
  <1>1. controller \in Value
    BY BootAssumption DEF Init, Value
  <1>2. data \in Bytes2 /\ wire \in Seq(Bytes2)
    BY DEF Init, Byte, Bytes2, Value
  <1> QED BY <1>1, <1>2 DEF Init, PicInit, TypeInv, Before

LEMMA TypeKmain == TypeInv /\ (Kmain \/ EndLua) => TypeInv'
  <1> SUFFICES ASSUME TypeInv, Kmain \/ EndLua PROVE TypeInv'
    OBVIOUS
  <1> USE DEF Step, Cli, Sti, TypeInv, Before, Answering, Changing, After, ps2, keyboard, pic, decoder, kernel, rtc
  <1>1. CASE InitIdt
    BY <1>1 DEF InitIdt
  <1>2. CASE RtcInit \/ EnablePeriodic \/ AddComponents \/ AddKeyboard
    BY <1>2 DEF RtcInit, EnablePeriodic, AddComponents, AddKeyboard
  <1>3. CASE GetTime \/ ReadCli \/ ReadSti \/ WriteCli \/ WriteSti \/ EndLua
    BY <1>3 DEF GetTime, ReadCli, ReadSti, WriteCli, WriteSti, EndLua
  <1>4. CASE ReadCommand
    BY <1>4 DEF ReadCommand, Bytes2
  <1>5. CASE Poll \/ WriteCommand
    BY <1>5 DEF Poll, WriteCommand
  <1>6. CASE ReadConfig
    BY <1>6 DEF ReadConfig, Bytes2
  <1>7. CASE ChangeConfig
    BY <1>7, Configuration DEF ChangeConfig
  <1>8. CASE WriteConfig
    BY <1>8, BootAssumption DEF WriteConfig, RaiseLine
  <1>9. CASE StartLua \/ RunLua
    BY <1>9 DEF StartLua, RunLua
  <1> QED BY <1>1, <1>2, <1>3, <1>4, <1>5, <1>6, <1>7, <1>8, <1>9 DEF Kmain

LEMMA TypeDevices ==
    TypeInv /\ (Handler \/ Controller \/ RtcTick) => TypeInv'
  <1> SUFFICES ASSUME TypeInv, Handler \/ Controller \/ RtcTick PROVE TypeInv'
    OBVIOUS
  <1>1. CASE Handler
    <2>1. eflags_if /\ UNCHANGED <<eflags_if, idt, config, occupant, wire>> /\ irr' \subseteq irr
          /\ pc' = IF idt THEN pc ELSE "reset"
      BY <1>1 DEF Handler, KeyboardInterrupt, RtcInterrupt, Enter, Interrupted, keyboard
    <2>2. UNCHANGED <<controller, command, response, data>> /\ full' \in {full, FALSE}
      BY <1>1 DEF Handler, KeyboardInterrupt, RtcInterrupt, ps2
    <2>3. idt /\ pc # "init_idt"
      BY <2>1 DEF TypeInv
    <2>4. pc' = pc
      BY <2>1, <2>3
    <2> QED BY <2>1, <2>2, <2>3, <2>4 DEF TypeInv
  <1>2. CASE Execute
    BY <1>2 DEF Execute, TypeInv, cpu, keyboard, pic
  <1>3. ASSUME NEW byte \in Bytes2, Fill(byte), UNCHANGED <<pc, eflags_if>>,
               wire' \in Seq(Bytes2), response' \in Value \cup {Nothing}
        PROVE  TypeInv'
    <2>1. irr' \subseteq Line
      BY <1>3, BootAssumption DEF Fill, TypeInv, RaiseLine
    <2>2. /\ UNCHANGED <<pc, eflags_if, idt, config, occupant, controller, command>>
          /\ data' = byte /\ full' = TRUE
      BY <1>3 DEF Fill, cpu
    <2> QED BY <1>3, <2>1, <2>2 DEF TypeInv
  <1>4. CASE Respond
    <2>1. Byte(response, TRUE) \in Bytes2
      BY <1>4 DEF Respond, TypeInv, Byte, Bytes2
    <2> QED BY <1>3, <1>4, <2>1 DEF Respond, Fill, TypeInv, cpu
  <1>5. CASE SendByte
    <2>1. Head(wire) \in Bytes2 /\ Tail(wire) \in Seq(Bytes2)
      BY <1>5, HeadTailProperties DEF SendByte, TypeInv
    <2> QED BY <1>3, <1>5, <2>1 DEF SendByte, Fill, TypeInv, cpu
  <1>6. CASE RtcTick
    BY <1>6, BootAssumption DEF RtcTick, RaiseLine, TypeInv, cpu, keyboard, ps2
  <1> QED BY <1>1, <1>2, <1>4, <1>5, <1>6 DEF Controller

(* What a key adds to the wire. *)
LEMMA Typed ==
    ASSUME TypeInv, NEW raw \in Key, NEW up \in BOOLEAN, TypeKey(raw, up)
    PROVE  \E new \in Seq(Bytes2) :
               /\ wire' = wire \o new /\ Len(new) = Len(Bytes(raw, up))
               /\ \A i \in 1 .. Len(new) : new[i] = Byte(Bytes(raw, up)[i], Configuring)
  <1> DEFINE b == Bytes(raw, up)
             new == [i \in DOMAIN b |-> Byte(b[i], Configuring)]
  <1>1. b \in Seq(Value) /\ Len(b) \in Nat /\ DOMAIN b = 1 .. Len(b)
    BY Sent, LenProperties
  <1>2. \A i \in 1 .. Len(b) : b[i] \in Value
    BY <1>1, ElementOfSeq
  <1>3. wire' = wire \o new
    BY DEF TypeKey
  <1> HIDE DEF b
  <1>4. \A i \in DOMAIN b : Byte(b[i], Configuring) \in Bytes2
    BY <1>1, <1>2 DEF Byte, Bytes2, Configuring
  <1>5. new \in Seq(Bytes2) /\ Len(new) = Len(b)
    BY <1>1, <1>4
  <1> QED BY <1>1, <1>3, <1>5 DEF b

LEMMA TypeKeys ==
    ASSUME TypeInv, NEW raw \in Key, NEW up \in BOOLEAN, TypeKey(raw, up)
    PROVE  TypeInv'
  <1>1. wire' \in Seq(Bytes2)
    BY Typed, ConcatProperties DEF TypeInv
  <1> QED BY <1>1 DEF TypeKey, TypeInv, cpu, ps2, pic

LEMMA TypeStep == TypeInv /\ [Next]_vars => TypeInv'
  <1>1. TypeInv /\ UNCHANGED vars => TypeInv'
    BY DEF vars, cpu, ps2, pic, keyboard, TypeInv
  <1> QED BY <1>1, TypeKmain, TypeDevices, TypeKeys DEF Next

LEMMA Typing == Spec => []TypeInv
  BY TypeInit, TypeStep, PTL DEF Spec

-----------------------------------------------------------------------------
LEMMA ConfigInit == Init => ConfigInv
BY DEF Init, ConfigInv, Before, Answering, After

LEMMA ConfigKmain == TypeInv /\ ConfigInv /\ (Kmain \/ EndLua) => ConfigInv'
  <1> SUFFICES ASSUME TypeInv, ConfigInv, Kmain \/ EndLua PROVE ConfigInv'
    OBVIOUS
  <1> USE DEF Step, Cli, Sti, ConfigInv, Before, Answering, After, ps2
  <1>1. CASE InitIdt \/ RtcInit \/ EnablePeriodic \/ AddComponents \/ AddKeyboard
    BY <1>1 DEF InitIdt, RtcInit, EnablePeriodic, AddComponents, AddKeyboard
  <1>2. CASE GetTime \/ ReadCli \/ ReadSti \/ WriteCli \/ WriteSti \/ EndLua
    BY <1>2 DEF GetTime, ReadCli, ReadSti, WriteCli, WriteSti, EndLua
  <1>3. CASE ReadCommand
    BY <1>3 DEF ReadCommand
  <1>4. CASE Poll \/ WriteCommand
    BY <1>4 DEF Poll, WriteCommand
  <1>5. CASE ReadConfig
    BY <1>5 DEF ReadConfig
  <1>6. CASE ChangeConfig
    BY <1>6 DEF ChangeConfig
  <1>7. CASE WriteConfig
    BY <1>7 DEF WriteConfig
  <1>8. CASE StartLua \/ RunLua
    BY <1>8 DEF StartLua, RunLua
  <1> QED BY <1>1, <1>2, <1>3, <1>4, <1>5, <1>6, <1>7, <1>8 DEF Kmain

LEMMA ConfigDevices ==
    TypeInv /\ ConfigInv /\ (Handler \/ Controller \/ RtcTick) => ConfigInv'
  <1> SUFFICES ASSUME TypeInv, ConfigInv, Handler \/ Controller \/ RtcTick PROVE ConfigInv'
    OBVIOUS
  <1>1. CASE Handler
    <2>1. /\ eflags_if /\ UNCHANGED <<eflags_if, config, occupant>>
          /\ pc' = IF idt THEN pc ELSE "reset"
      BY <1>1 DEF Handler, KeyboardInterrupt, RtcInterrupt, Enter, Interrupted
    <2>2. UNCHANGED <<controller, command, response>>
      BY <1>1 DEF Handler, KeyboardInterrupt, RtcInterrupt, ps2
    <2>3. pc' = pc
      BY <2>1 DEF TypeInv
    <2> QED BY <2>1, <2>2, <2>3 DEF ConfigInv, Answering
  <1>2. CASE Execute
    BY <1>2 DEF Execute, ConfigInv, cpu, Before, Answering, After
  <1>3. CASE Respond \/ SendByte
    <2>1. UNCHANGED <<pc, eflags_if, config, occupant, controller, command>> /\ ~full /\ full'
      BY <1>3 DEF Respond, SendByte, Fill, cpu
    <2>2. /\ response' \in {response, Nothing} /\ (response = Nothing => response' = Nothing)
          /\ \/ response # Nothing /\ data'.value = response
             \/ response = Nothing /\ command = "none"
      BY <1>3 DEF Respond, SendByte, Fill, Byte
    <2>3. controller # Nothing
      BY BootAssumption DEF TypeInv, Value
    <2>4. pc = "poll" => data'.value = occupant
      BY <2>1, <2>2, <2>3 DEF ConfigInv
    <2> QED BY <2>1, <2>2, <2>4 DEF ConfigInv, Before, Answering
  <1>4. CASE RtcTick
    BY <1>4 DEF RtcTick, ConfigInv, cpu, ps2
  <1> QED BY <1>1, <1>2, <1>3, <1>4 DEF Controller

LEMMA ConfigStep == TypeInv /\ ConfigInv /\ [Next]_vars => ConfigInv'
  <1>1. TypeInv /\ ConfigInv /\ UNCHANGED vars => ConfigInv'
    BY DEF vars, cpu, ps2, ConfigInv
  <1>2. ASSUME ConfigInv, NEW raw \in Key, NEW up \in BOOLEAN, TypeKey(raw, up) PROVE ConfigInv'
    BY <1>2 DEF TypeKey, cpu, ps2, ConfigInv
  <1> QED BY <1>1, <1>2, ConfigKmain, ConfigDevices DEF Next

LEMMA ConfigHolds == Spec => []ConfigInv
  BY ConfigInit, ConfigStep, Typing, PTL DEF Spec

(* After the boot the controller has the byte that ps2_init took for its     *)
(* configuration with two bits changed: the firmware's, or that of a key     *)
(* that lay in the buffer when the command went out, and no other.           *)
THEOREM ConfigIsKept == Spec => []ConfigKept
  <1>1. ConfigInv => ConfigKept
    BY DEF ConfigInv, ConfigKept, Booted, After
  <1> QED BY <1>1, ConfigHolds, PTL

-----------------------------------------------------------------------------
(* A step that adds nothing to the wire keeps the count. *)
LEMMA CountSame ==
    ASSUME TypeInv, CountInv, UNCHANGED <<wire, presses, data>>,
           in_buffer' \in Nat, response' # Nothing => command' # "read",
           in_buffer' + One(Awaited /\ Terminal(data))' <= in_buffer + One(Awaited /\ Terminal(data)),
           Unanswered' => Unanswered
    PROVE  CountInv'
  <1>1. PICK count : Counts(count) /\ in_buffer + One(Awaited /\ Terminal(data)) + One(Unanswered)
                                       + count[0] <= presses + 1
    BY DEF CountInv
  <1>2. Counts(count)'
    BY <1>1 DEF Counts, Terminal
  <1>3. count[0] \in Nat
    BY <1>1, LenProperties DEF Counts, TypeInv
  <1>4. One(Unanswered)' <= One(Unanswered) /\ One(Unanswered)' \in Nat /\ One(Unanswered) \in Nat
    BY DEF One
  <1>5. One(Awaited /\ Terminal(data)) \in Nat /\ One(Awaited /\ Terminal(data))' \in Nat
    BY DEF One
  <1>6. in_buffer' + One(Awaited /\ Terminal(data))' + One(Unanswered)' + count[0] <= presses' + 1
    BY <1>1, <1>3, <1>4, <1>5 DEF CountInv
  <1> QED BY <1>2, <1>6 DEF CountInv

LEMMA CountInit == Init => CountInv
  <1> SUFFICES ASSUME Init PROVE CountInv
    OBVIOUS
  <1> DEFINE count == [i \in 0 .. 0 |-> 0]
  <1>1. Counts(count) /\ count[0] = 0
    BY DEF Init, Counts
  <1>2. ~Awaited
    BY DEF Init, PicInit, Awaited
  <1>3. in_buffer + One(Awaited /\ Terminal(data)) + One(Unanswered) + count[0] <= presses + 1
    BY <1>1, <1>2 DEF Init, One
  <1> QED BY <1>1, <1>3 DEF Init, CountInv

LEMMA CountKmain == TypeInv /\ ConfigInv /\ CountInv /\ (Kmain \/ EndLua) => CountInv'
  <1> SUFFICES ASSUME TypeInv, ConfigInv, CountInv, Kmain \/ EndLua PROVE CountInv'
    OBVIOUS
  <1> USE DEF Step, Cli, Sti, Before, Answering, After, ps2, decoder, keyboard
  <1>1. UNCHANGED <<wire, presses, data, in_buffer>>
    BY DEF Kmain, InitIdt, RtcInit, EnablePeriodic, AddComponents, AddKeyboard, GetTime, ReadCli,
           ReadSti, WriteCli, WriteSti, EndLua, ReadCommand, Poll, WriteCommand, ReadConfig,
           ChangeConfig, WriteConfig, StartLua, RunLua
  <1>2. Awaited' => Awaited
    BY DEF Kmain, InitIdt, RtcInit, EnablePeriodic, AddComponents, AddKeyboard, GetTime, ReadCli,
           ReadSti, WriteCli, WriteSti, EndLua, ReadCommand, Poll, WriteCommand, ReadConfig,
           ChangeConfig, WriteConfig, StartLua, RunLua, Awaited, pic, RaiseLine
  <1>3. /\ Unanswered' => Unanswered
        /\ response' # Nothing => command' # "read"
    <2>1. CASE ReadCommand
      BY <2>1 DEF ReadCommand, ConfigInv, Unanswered, CountInv
    <2>2. CASE ~ReadCommand
      <3>1. response' = response /\ (command' = "read" => command = "read")
        BY <2>2 DEF Kmain, InitIdt, RtcInit, EnablePeriodic, AddComponents, AddKeyboard, GetTime,
           ReadCli, ReadSti, WriteCli, WriteSti, EndLua, Poll, WriteCommand, ReadConfig,
           ChangeConfig, WriteConfig, StartLua, RunLua
      <3>2. pc' \in Before => pc \in Before
        BY <2>2 DEF Kmain, InitIdt, RtcInit, EnablePeriodic, AddComponents, AddKeyboard, GetTime,
           ReadCli, ReadSti, WriteCli, WriteSti, EndLua, Poll, WriteCommand, ReadConfig,
           ChangeConfig, WriteConfig, StartLua, RunLua
      <3> QED BY <3>1, <3>2 DEF Unanswered, CountInv
    <2> QED BY <2>1, <2>2
  <1>4. One(Awaited /\ Terminal(data))' <= One(Awaited /\ Terminal(data))
    BY <1>1, <1>2 DEF One, Terminal
  <1>5. in_buffer' \in Nat
        /\ in_buffer' + One(Awaited /\ Terminal(data))' <= in_buffer + One(Awaited /\ Terminal(data))
    <2>1. One(Awaited /\ Terminal(data)) \in Nat /\ One(Awaited /\ Terminal(data))' \in Nat
      BY DEF One
    <2> QED BY <1>1, <1>4, <2>1 DEF CountInv
  <1> QED BY <1>1, <1>3, <1>5, CountSame

LEMMA CountKeyboard == TypeInv /\ CountInv /\ KeyboardInterrupt => CountInv'
  <1> SUFFICES ASSUME TypeInv, CountInv, KeyboardInterrupt PROVE CountInv'
    OBVIOUS
  <1>1. /\ UNCHANGED <<wire, presses, command, response, data>> /\ full' = FALSE
        /\ irr' = irr \ {Keyboard} /\ pc' = IF idt THEN pc ELSE "reset"
    BY DEF KeyboardInterrupt, Enter, keyboard
  <1>2. Awaited /\ ~Awaited'
    <2>1. Keyboard \in irr
      BY Served DEF KeyboardInterrupt, TypeInv
    <2> QED BY <1>1, <2>1 DEF Awaited
  <1>3. Unanswered' => Unanswered
    BY <1>1 DEF Unanswered, Before
  <1>4. in_buffer \in Nat /\ in_buffer' \in {in_buffer, in_buffer + 1}
        /\ (~Terminal(data) => in_buffer' = in_buffer)
    BY DEF KeyboardInterrupt, Terminal, CountInv
  <1>5. in_buffer' \in Nat
        /\ in_buffer' + One(Awaited /\ Terminal(data))' <= in_buffer + One(Awaited /\ Terminal(data))
    <2>1. One(Awaited /\ Terminal(data))' = 0
      BY <1>2 DEF One
    <2>2. One(Awaited /\ Terminal(data)) = IF Terminal(data) THEN 1 ELSE 0
      BY <1>2 DEF One
    <2> QED BY <1>4, <2>1, <2>2
  <1> QED BY <1>1, <1>3, <1>5, CountSame DEF CountInv

LEMMA CountOthers == TypeInv /\ CountInv /\ (RtcInterrupt \/ Execute \/ RtcTick) => CountInv'
  <1> SUFFICES ASSUME TypeInv, CountInv, RtcInterrupt \/ Execute \/ RtcTick PROVE CountInv'
    OBVIOUS
  <1>1. UNCHANGED <<wire, presses, data, in_buffer, full>>
    BY DEF RtcInterrupt, Execute, RtcTick, Enter, keyboard, decoder, ps2
  <1>2. Awaited' => Awaited
    BY <1>1, BootAssumption DEF RtcInterrupt, Execute, RtcTick, Enter, pic, Awaited, RaiseLine, Keyboard, Rtc
  <1>3. /\ Unanswered' => Unanswered
        /\ response' # Nothing => command' # "read"
    BY DEF RtcInterrupt, Execute, RtcTick, Enter, ps2, cpu, Unanswered, CountInv, Before
  <1>4. One(Awaited /\ Terminal(data))' <= One(Awaited /\ Terminal(data))
    BY <1>1, <1>2 DEF One, Terminal
  <1>5. in_buffer' \in Nat
        /\ in_buffer' + One(Awaited /\ Terminal(data))' <= in_buffer + One(Awaited /\ Terminal(data))
    <2>1. One(Awaited /\ Terminal(data)) \in Nat /\ One(Awaited /\ Terminal(data))' \in Nat
      BY DEF One
    <2> QED BY <1>1, <1>4, <2>1 DEF CountInv
  <1> QED BY <1>1, <1>3, <1>5, CountSame

(* The answer comes to the buffer, or a byte of the wire. *)
LEMMA CountFill == TypeInv /\ ConfigInv /\ CountInv /\ (Respond \/ SendByte) => CountInv'
  <1> SUFFICES ASSUME TypeInv, ConfigInv, CountInv, Respond \/ SendByte PROVE CountInv'
    OBVIOUS
  <1>1. /\ UNCHANGED <<in_buffer, presses, command, pc>> /\ Awaited'
        /\ One(Awaited /\ Terminal(data)) \in Nat
    BY DEF Respond, SendByte, Fill, decoder, cpu, Awaited, One
  <1>2. PICK count : Counts(count) /\ in_buffer + One(Awaited /\ Terminal(data)) + One(Unanswered)
                                       + count[0] <= presses + 1
    BY DEF CountInv
  <1>3. in_buffer \in Nat /\ presses \in Nat /\ One(Unanswered) \in Nat /\ Len(wire) \in Nat
        /\ count[0] \in Nat
    BY <1>2, LenProperties DEF CountInv, One, Counts, TypeInv
  <1>4. CASE Respond
    <2>1. response # Nothing /\ response' = Nothing /\ wire' = wire
      BY <1>4 DEF Respond
    <2>2. Unanswered /\ ~Unanswered'
      BY <1>1, <2>1 DEF Unanswered, CountInv, ConfigInv, Before
    <2>3. One(Awaited /\ Terminal(data))' + One(Unanswered)' <= One(Unanswered)
      <3>1. One(Unanswered)' = 0 /\ One(Unanswered) = 1
        BY <2>2 DEF One
      <3>2. One(Awaited /\ Terminal(data))' \in {0, 1}
        BY DEF One
      <3> QED BY <3>1, <3>2
    <2>4. Counts(count)'
      BY <1>2, <2>1 DEF Counts, Terminal
    <2>5. in_buffer' + One(Awaited /\ Terminal(data))' + One(Unanswered)' + count[0] <= presses' + 1
      <3>1. One(Awaited /\ Terminal(data))' \in Nat /\ One(Unanswered)' \in Nat
        BY DEF One
      <3> QED BY <1>1, <1>2, <1>3, <2>3, <3>1
    <2> QED BY <1>1, <1>3, <2>1, <2>4, <2>5 DEF CountInv
  <1>5. CASE SendByte
    <2>1. wire # <<>> /\ data' = Head(wire) /\ wire' = Tail(wire) /\ response' = response
      BY <1>5 DEF SendByte, Fill
    <2>2. /\ Len(wire) > 0 /\ Head(wire) = wire[1] /\ Len(wire') = Len(wire) - 1
          /\ \A i \in 1 .. Len(wire') : wire'[i] = wire[i + 1]
      BY <2>1, HeadTailProperties, EmptySeq DEF TypeInv
    <2> DEFINE left == [i \in 0 .. Len(wire) - 1 |-> count[i + 1]]
    <2>3. PICK rest : rest = left
      OBVIOUS
    <2>9. Counts(rest)'
      <3>1. \A i \in 0 .. Len(wire) - 1 : i + 1 \in 1 .. Len(wire) /\ i + 1 \in 0 .. Len(wire)
        BY <1>3
      <3>2. rest \in [0 .. Len(wire') -> Nat]
        BY <1>2, <2>2, <2>3, <3>1 DEF Counts
      <3>3. ASSUME NEW i \in 1 .. Len(wire')
            PROVE  rest[i - 1] >= rest[i] + One(Terminal(wire'[i]))
        <4>1. /\ i - 1 \in 0 .. Len(wire) - 1 /\ i \in 0 .. Len(wire) - 1 /\ (i - 1) + 1 = i
              /\ i + 1 \in 1 .. Len(wire) /\ (i + 1) - 1 = i
          BY <1>3, <2>2
        <4>2. rest[i - 1] = count[i] /\ rest[i] = count[i + 1] /\ wire'[i] = wire[i + 1]
          BY <2>2, <2>3, <4>1
        <4>3. count[i] >= count[i + 1] + One(Terminal(wire[i + 1]))
          BY <1>2, <4>1 DEF Counts
        <4> QED BY <4>2, <4>3
      <3> QED BY <3>2, <3>3 DEF Counts, Terminal
    <2>4. rest[0] = count[1] /\ rest[0] \in Nat
      <3>1. 0 \in 0 .. Len(wire) - 1 /\ 1 \in 0 .. Len(wire) /\ 0 + 1 = 1
        BY <1>3, <2>2
      <3>2. rest[0] = count[0 + 1]
        BY <2>3, <3>1
      <3> QED BY <1>2, <3>1, <3>2 DEF Counts
    <2>5. count[0] >= count[1] + One(Terminal(data'))
      <3>1. 1 \in 1 .. Len(wire) /\ 1 - 1 = 0
        BY <1>3, <2>2
      <3>2. count[1 - 1] >= count[1] + One(Terminal(wire[1]))
        BY <1>2, <3>1 DEF Counts
      <3> QED BY <2>1, <2>2, <3>1, <3>2
    <2> HIDE DEF left
    <2>6. One(Awaited /\ Terminal(data))' = One(Terminal(data')) /\ One(Terminal(data')) \in Nat
      BY <1>1 DEF One, Terminal
    <2>7. One(Unanswered)' = One(Unanswered)
      BY <1>1, <2>1 DEF Unanswered, Before
    <2>8. in_buffer' + One(Awaited /\ Terminal(data))' + One(Unanswered)' + rest[0] <= presses' + 1
      BY <1>1, <1>2, <1>3, <2>4, <2>5, <2>6, <2>7
    <2> QED BY <1>1, <2>1, <2>8, <2>9 DEF CountInv
  <1> QED BY <1>4, <1>5

(* A key puts one more byte on the wire that can become a signal. *)
LEMMA CountTyped ==
    ASSUME TypeInv, CountInv, NEW raw \in Key, NEW up \in BOOLEAN, TypeKey(raw, up)
    PROVE  CountInv'
  <1>1. PICK new \in Seq(Bytes2) :
            /\ wire' = wire \o new /\ Len(new) = Len(Bytes(raw, up))
            /\ \A i \in 1 .. Len(new) : new[i] = Byte(Bytes(raw, up)[i], Configuring)
    BY Typed
  <1>2. Len(new) \in 1 .. 3 /\ \A i \in 1 .. Len(new) - 1 : ~Terminal(new[i])
    <2>1. Len(new) \in 1 .. 3
      BY <1>1, Sent
    <2>2. \A i \in 1 .. Len(new) - 1 : Bytes(raw, up)[i] \in {Extended, Break} /\ i \in 1 .. Len(new)
      BY <1>1, <2>1, Sent
    <2>3. ASSUME NEW i \in 1 .. Len(new) - 1 PROVE new[i].value \in {Extended, Break}
      <3>1. new[i] = Byte(Bytes(raw, up)[i], Configuring) /\ Bytes(raw, up)[i] \in {Extended, Break}
        BY <1>1, <2>2
      <3>2. new[i].value = Bytes(raw, up)[i]
        BY <3>1 DEF Byte
      <3> QED BY <3>1, <3>2
    <2> QED BY <2>1, <2>3 DEF Terminal
  <1>3. PICK count : Counts(count) /\ in_buffer + One(Awaited /\ Terminal(data)) + One(Unanswered)
                                       + count[0] <= presses + 1
    BY DEF CountInv
  <1>4. /\ presses' = presses + 1
        /\ UNCHANGED <<in_buffer, data, full, irr, pc, command, response>>
    BY DEF TypeKey, decoder, ps2, pic, cpu
  <1> DEFINE n == Len(wire)
             m == Len(new)
             more == [i \in 0 .. n + m |-> (IF i <= n THEN count[i] ELSE 0) + One(i < n + m)]
  <1>5. /\ n \in Nat /\ m \in 1 .. 3 /\ Len(wire') = n + m
        /\ \A i \in 1 .. n : wire'[i] = wire[i]
        /\ \A i \in n + 1 .. n + m : wire'[i] = new[i - n]
    <2>1. n \in Nat /\ m \in Nat
      BY LenProperties DEF TypeInv
    <2>2. \A i \in 1 .. n + m : wire'[i] = IF i <= n THEN wire[i] ELSE new[i - n]
      BY <1>1, ConcatProperties DEF TypeInv
    <2>3. Len(wire') = n + m
      BY <1>1, ConcatProperties DEF TypeInv
    <2> HIDE DEF n, m
    <2> QED BY <1>2, <2>1, <2>2, <2>3 DEF m
  <1>6. /\ \A i \in 0 .. n : count[i] \in Nat
        /\ \A i \in 1 .. n : count[i - 1] >= count[i] + One(Terminal(wire[i]))
    BY <1>3 DEF Counts
  <1>7. \A i \in 1 .. m - 1 : ~Terminal(new[i])
    BY <1>2
  <1> HIDE DEF n, m
  <1>8. \A i \in 0 .. n + m : more[i] \in Nat
    BY <1>5, <1>6 DEF One
  <1>9. ASSUME NEW i \in 1 .. n + m
        PROVE  more[i - 1] >= more[i] + One(Terminal(wire'[i]))
    <2>1. /\ i - 1 \in 0 .. n + m /\ i \in 0 .. n + m
          /\ i - 1 < n + m
      BY <1>5
    <2>2. /\ more[i - 1] = (IF i - 1 <= n THEN count[i - 1] ELSE 0) + 1
          /\ more[i] = (IF i <= n THEN count[i] ELSE 0) + One(i < n + m)
      BY <2>1 DEF One
    <2> HIDE DEF more
    <2>3. CASE i <= n
      <3>1. /\ i \in 1 .. n /\ i < n + m /\ i - 1 <= n /\ i - 1 \in 0 .. n /\ i \in 0 .. n
        BY <1>5, <2>3
      <3>2. count[i - 1] >= count[i] + One(Terminal(wire[i])) /\ wire'[i] = wire[i]
        BY <1>5, <1>6, <3>1
      <3>3. count[i - 1] \in Nat /\ count[i] \in Nat /\ One(Terminal(wire[i])) \in Nat
        BY <1>6, <3>1 DEF One
      <3>4. more[i - 1] = count[i - 1] + 1 /\ more[i] = count[i] + 1
        BY <2>2, <3>1 DEF One
      <3> QED BY <3>2, <3>3, <3>4
    <2>4. CASE i > n /\ i < n + m
      <3>1. i - n \in 1 .. m - 1 /\ i \in n + 1 .. n + m
        BY <1>5, <2>4
      <3>2. One(Terminal(wire'[i])) = 0
        BY <1>5, <1>7, <3>1 DEF One
      <3>3. i - 1 <= n => i - 1 \in 0 .. n
        BY <1>5, <2>4
      <3>4. more[i - 1] >= 1 /\ more[i] = 1
        BY <1>5, <1>6, <2>2, <2>4, <3>3 DEF One
      <3> QED BY <3>2, <3>4
    <2>5. CASE i = n + m
      <3>1. i - 1 <= n => i - 1 \in 0 .. n
        BY <1>5, <2>5
      <3>2. more[i - 1] >= 1 /\ more[i] = 0
        <4>1. One(i < n + m) = 0 /\ ~(i <= n) /\ n + m \in Nat
          BY <1>5, <2>5 DEF One
        <4>2. i - 1 <= n => count[i - 1] \in Nat
          BY <1>6, <3>1
        <4> QED BY <2>2, <4>1, <4>2
      <3>3. One(Terminal(wire'[i])) \in {0, 1}
        BY DEF One
      <3>4. more[i - 1] \in Int
        BY <1>8, <2>1
      <3> QED BY <3>2, <3>3, <3>4
    <2> QED BY <1>5, <2>3, <2>4, <2>5
  <1>14. PICK longer : longer = more
    OBVIOUS
  <1>10. Counts(longer)'
    <2>1. more \in [0 .. Len(wire') -> Nat]
      BY <1>5, <1>8
    <2> HIDE DEF more
    <2>2. longer \in [0 .. Len(wire') -> Nat]
      BY <1>14, <2>1
    <2>3. \A i \in 1 .. Len(wire') : longer[i - 1] >= longer[i] + One(Terminal(wire'[i]))
      BY <1>5, <1>9, <1>14
    <2> QED BY <2>2, <2>3 DEF Counts, Terminal
  <1>11. more[0] = count[0] + 1 /\ count[0] \in Nat
    BY <1>5, <1>6 DEF One
  <1> HIDE DEF more
  <1>12. /\ One(Awaited /\ Terminal(data))' = One(Awaited /\ Terminal(data))
         /\ One(Unanswered)' = One(Unanswered)
         /\ One(Awaited /\ Terminal(data)) \in Nat /\ One(Unanswered) \in Nat
    BY <1>4 DEF One, Awaited, Terminal, Unanswered
  <1>13. in_buffer' + One(Awaited /\ Terminal(data))' + One(Unanswered)' + longer[0] <= presses' + 1
    BY <1>3, <1>4, <1>11, <1>12, <1>14 DEF CountInv
  <1> QED BY <1>4, <1>10, <1>13 DEF CountInv

LEMMA CountStep == TypeInv /\ ConfigInv /\ CountInv /\ [Next]_vars => CountInv'
  <1> SUFFICES ASSUME TypeInv, ConfigInv, CountInv, [Next]_vars PROVE CountInv'
    OBVIOUS
  <1>1. CASE UNCHANGED vars
    <2>1. /\ UNCHANGED <<wire, presses, data, in_buffer, full, irr, pc, command, response>>
      BY <1>1 DEF vars, cpu, ps2, pic, decoder, keyboard
    <2>2. /\ One(Awaited /\ Terminal(data))' = One(Awaited /\ Terminal(data))
          /\ One(Awaited /\ Terminal(data)) \in Nat
      BY <2>1 DEF One, Awaited, Terminal
    <2>3. Unanswered' => Unanswered
      BY <2>1 DEF Unanswered
    <2> QED BY <2>1, <2>2, <2>3, CountSame DEF CountInv
  <1>2. CASE Next
    BY <1>2, CountKmain, CountKeyboard, CountOthers, CountFill, CountTyped
       DEF Next, Handler, Controller
  <1> QED BY <1>1, <1>2

LEMMA CountHolds == Spec => []CountInv
  BY CountInit, CountStep, Typing, ConfigHolds, PTL DEF Spec

(* However the keyboard handler and ps2_init share the buffer, there is      *)
(* never more than one signal that no key event accounts for.                *)
THEOREM OnePhantomAtMost == Spec => []OnePhantomKey
  <1>1. TypeInv /\ CountInv => OnePhantomKey
    <2> SUFFICES ASSUME TypeInv, CountInv PROVE in_buffer <= presses + 1
      BY DEF OnePhantomKey
    <2>1. PICK count : Counts(count) /\ in_buffer + One(Awaited /\ Terminal(data)) + One(Unanswered)
                                         + count[0] <= presses + 1
      BY DEF CountInv
    <2>2. One(Awaited /\ Terminal(data)) \in Nat /\ One(Unanswered) \in Nat /\ count[0] \in Nat
      BY <2>1, LenProperties DEF One, Counts, TypeInv
    <2> QED BY <2>1, <2>2 DEF CountInv
  <1> QED BY <1>1, Typing, CountHolds, PTL

-----------------------------------------------------------------------------
(* What a decoder that starts afresh at the first late byte has in its flags *)
(* after a byte: its prefixes and the modifiers held down.                   *)
Prefixes == {"EXT", "BREAK"}
Modifiers == {"SHIFT", "CTRL", "ALT"}
State == [prefix : SUBSET Prefixes, held : SUBSET Modifiers]
Idle(held) == [prefix |-> {}, held |-> held]

Decoded(s, value) ==
    IF value \in {Extended, Break}
    THEN [prefix |-> s.prefix \cup {IF value = Extended THEN "EXT" ELSE "BREAK"}, held |-> s.held]
    ELSE Idle(WithModifier(RawCode(value, s.prefix), s.held \cup s.prefix) \ Prefixes)

(* It passes over the early bytes of the wire, and ends as the keyboard is.  *)
Runs(run) ==
    /\ run \in [0 .. Len(wire) -> State]
    /\ run[Len(wire)] = Idle(latched)
    /\ \A i \in 1 .. Len(wire) :
           run[i] = IF wire[i].early THEN run[i - 1] ELSE Decoded(run[i - 1], wire[i].value)

(* The real flags are those, but for what early bytes have set.  A prefix    *)
(* more than there should be is one of theirs, and then so is all the rest.  *)
Follows(real, by_early, s) ==
    /\ s.prefix \subseteq real /\ real \cap Prefixes \subseteq s.prefix \cup by_early
    /\ real \cap Modifiers \subseteq s.held \cup by_early
    /\ real \cap Prefixes \subseteq s.prefix \/ real \cap Modifiers \subseteq by_early

(* Where the run starts: after the byte in the buffer if the handler has yet *)
(* to read it, else where the flags are.                                     *)
Explains(run) ==
    /\ Runs(run)
    /\ data.early => run[0].prefix = {}
    /\ IF Awaited /\ ~data.early
       THEN \E s \in State : run[0] = Decoded(s, data.value) /\ Follows(flags, early, s)
       ELSE Follows(flags, early, run[0])

(* Early bytes are followed by late ones, never the other way round; until   *)
(* ps2_init is done all are early, and so is one that is read twice.         *)
FlagInv ==
    /\ flags \subseteq Prefixes \cup Modifiers /\ latched \subseteq Modifiers
    /\ data.early => flags \subseteq early
    /\ Configuring => data.early /\ \A i \in 1 .. Len(wire) : wire[i].early
    /\ ~Configuring => command = "none"
    /\ response # Nothing => data.early
    /\ Awaited /\ ~data.early => full
    /\ \A i \in 1 .. Len(wire) :
           wire[i].early => data.early /\ \A j \in 1 .. i : wire[j].early
    /\ \E run : Explains(run)

LEMMA ModifierOf ==
    /\ \A raw : Modifier(raw) \subseteq Modifiers
    /\ \A value \in Value : Modifier(value + 256) \subseteq Modifier(value)
  <1>1. ASSUME NEW raw PROVE Modifier(raw) \subseteq Modifiers
    BY DEF Modifier, Modifiers
  <1>2. ASSUME NEW value \in Value PROVE Modifier(value + 256) \subseteq Modifier(value)
    <2>1. value \in 0 .. 255
      BY DEF Value
    <2>2. CASE value = \h14
      BY <2>2 DEF Modifier
    <2>3. CASE value = \h11
      BY <2>3 DEF Modifier
    <2>4. CASE value \notin {\h14, \h11}
      <3>1. value + 256 \notin {\h12, \h59, \h14, \h114, \h11, \h111}
        BY <2>1, <2>4
      <3> QED BY <3>1 DEF Modifier
    <2> QED BY <2>2, <2>3, <2>4
  <1> QED BY <1>1, <1>2

LEMMA DecodedState ==
    ASSUME NEW s \in State, NEW value
    PROVE  Decoded(s, value) \in State
  <1>1. s.prefix \subseteq Prefixes /\ s.held \subseteq Modifiers
    BY DEF State
  <1>2. CASE value \in {Extended, Break}
    BY <1>1, <1>2 DEF Decoded, State, Prefixes
  <1>3. CASE value \notin {Extended, Break}
    <2> DEFINE now == WithModifier(RawCode(value, s.prefix), s.held \cup s.prefix)
    <2>1. now \ Prefixes \subseteq Modifiers
      BY <1>1, ModifierOf DEF WithModifier
    <2>2. Decoded(s, value) = Idle(now \ Prefixes)
      BY <1>3 DEF Decoded
    <2> HIDE DEF now
    <2> QED BY <2>1, <2>2 DEF Idle, State
  <1> QED BY <1>2, <1>3

(* What the handler makes of the flags when the byte is late. *)
LEMMA LateByte ==
    ASSUME NEW real \in SUBSET (Prefixes \cup Modifiers), NEW by_early, NEW s \in State,
           Follows(real, by_early, s), NEW value \in Value, NEW after,
           after = IF value = Break THEN real \cup {"BREAK"}
                   ELSE IF value = Extended THEN real \cup {"EXT"}
                   ELSE WithModifier(RawCode(value, real), real) \ Prefixes
    PROVE  /\ after \subseteq Prefixes \cup Modifiers
           /\ Follows(after, after \cap by_early, Decoded(s, value))
  <1>1. s.prefix \subseteq Prefixes /\ s.held \subseteq Modifiers
    BY DEF State
  <1>2. Prefixes \cap Modifiers = {}
    BY DEF Prefixes, Modifiers
  <1>3. ASSUME NEW one \in Prefixes, after = real \cup {one},
               NEW t, t = [prefix |-> s.prefix \cup {one}, held |-> s.held]
        PROVE  /\ after \subseteq Prefixes \cup Modifiers
               /\ Follows(after, after \cap by_early, t)
    <2>1. t.prefix = s.prefix \cup {one} /\ t.held = s.held
      BY <1>3
    <2>2. after \cap Modifiers = real \cap Modifiers
      BY <1>2, <1>3
    <2> QED BY <1>1, <1>3, <2>1, <2>2 DEF Follows
  <1>4. CASE value = Break
    <2>1. Break # Extended
      BY DEF Break, Extended
    <2> QED BY <1>3, <1>4, <2>1 DEF Decoded, Prefixes
  <1>5. CASE value = Extended
    <2>1. Break # Extended
      BY DEF Break, Extended
    <2> QED BY <1>3, <1>5, <2>1 DEF Decoded, Prefixes
  <1>6. CASE value \notin {Extended, Break}
    <2> DEFINE raw == RawCode(value, real)
               fresh == RawCode(value, s.prefix)
               held == WithModifier(fresh, s.held \cup s.prefix) \ Prefixes
    <2>1. after = WithModifier(raw, real) \ Prefixes /\ Decoded(s, value) = Idle(held)
      BY <1>6 DEF Decoded
    <2>2. Modifier(raw) \subseteq Modifiers /\ Modifier(fresh) \subseteq Modifiers
      BY ModifierOf
    <2>3. after \subseteq Modifiers /\ after \cap Prefixes = {}
      BY <1>2, <2>1, <2>2 DEF WithModifier
    <2>4. after \subseteq held \cup by_early
      <3>1. CASE real \cap Prefixes \subseteq s.prefix
        <4>1. raw = fresh /\ ("BREAK" \in real <=> "BREAK" \in s.held \cup s.prefix)
          BY <1>1, <1>2, <3>1 DEF Follows, RawCode, Prefixes, Modifiers
        <4>2. real \cap Modifiers \subseteq s.held \cup by_early
          BY DEF Follows
        <4> HIDE DEF raw, fresh
        <4> QED BY <1>2, <2>1, <2>2, <2>3, <4>1, <4>2 DEF WithModifier
      <3>2. CASE ~(real \cap Prefixes \subseteq s.prefix)
        <4>1. real \cap Modifiers \subseteq by_early
          BY <3>2 DEF Follows
        <4>2. CASE "BREAK" \in real
          BY <2>1, <2>3, <4>1, <4>2 DEF WithModifier
        <4>3. CASE "BREAK" \notin real
          <5>1. "BREAK" \notin s.prefix /\ "EXT" \in real /\ "EXT" \notin s.prefix
            BY <1>1, <3>2, <4>3 DEF Follows, Prefixes
          <5>2. raw = value + 256 /\ fresh = value
            BY <5>1 DEF RawCode
          <5>3. Modifier(raw) \subseteq Modifier(fresh)
            BY <5>2, ModifierOf
          <5>4. "BREAK" \notin s.held \cup s.prefix
            BY <1>1, <5>1 DEF Modifiers
          <5> HIDE DEF raw, fresh
          <5>5. Modifier(fresh) \subseteq held
            BY <1>2, <2>2, <5>4 DEF WithModifier
          <5> QED BY <2>1, <2>3, <4>1, <4>3, <5>3, <5>5 DEF WithModifier
        <4> QED BY <4>2, <4>3
      <3> QED BY <3>1, <3>2
    <2> HIDE DEF held
    <2>5. Decoded(s, value).prefix = {} /\ Decoded(s, value).held = held
      BY <2>1 DEF Idle
    <2> QED BY <2>3, <2>4, <2>5 DEF Follows
  <1> QED BY <1>4, <1>5, <1>6

(* Such a decoder reads the bytes, from idle to idle. *)
Decodes(bytes, held, after) ==
    \E steps \in [0 .. Len(bytes) -> State] :
        /\ steps[0] = Idle(held) /\ steps[Len(bytes)] = Idle(after)
        /\ \A i \in 1 .. Len(bytes) : steps[i] = Decoded(steps[i - 1], bytes[i])

LEMMA KeyDecoded ==
    ASSUME NEW raw \in Key, NEW up \in BOOLEAN, NEW down_before \in SUBSET Modifiers,
           NEW bytes, bytes = Scancodes(raw, up), NEW after,
           after = WithModifier(raw, down_before \cup (IF up THEN {"BREAK"} ELSE {})) \ {"BREAK"}
    PROVE  /\ after \subseteq Modifiers /\ bytes \in Seq(Value) /\ Len(bytes) \in 1 .. 3
           /\ Decodes(bytes, down_before, after)
  <1> DEFINE c == raw % 256
             first == Idle(down_before)
  <1>1. /\ c \in Value /\ c \notin {Extended, Break}
        /\ IF raw >= 256 THEN raw = c + 256 ELSE raw = c
    <2>1. raw \in KnownKeys
      BY BootAssumption
    <2>2. CASE raw \in ExtendedKeys
      <3>1. raw \in 256 .. 256 + 125
        BY <2>2 DEF ExtendedKeys
      <3>2. c = raw - 256
        BY <3>1
      <3> QED BY <3>1, <3>2 DEF Value, Extended, Break
    <2>3. CASE raw \in PlainKeys
      <3>1. raw \in 0 .. 131
        BY <2>3 DEF PlainKeys, Printable
      <3>2. c = raw
        BY <3>1
      <3> QED BY <3>1, <3>2 DEF Value, Extended, Break
    <2> QED BY <2>1, <2>2, <2>3 DEF KnownKeys
  <1>2. Extended \in Value /\ Break \in Value /\ Extended # Break
    BY DEF Extended, Break, Value
  <1>3. first \in State /\ first.prefix = {} /\ first.held = down_before
    BY DEF Idle, State
  <1>4. after \subseteq Modifiers
    BY ModifierOf DEF WithModifier
  <1>5. bytes = (IF raw >= 256 THEN <<Extended>> ELSE <<>>) \o (IF up THEN <<Break>> ELSE <<>>) \o <<c>>
    BY DEF Scancodes
  <1>6. ASSUME NEW s \in State, s.held = down_before,
               ("EXT" \in s.prefix) <=> raw >= 256, ("BREAK" \in s.prefix) <=> up
        PROVE  Decoded(s, c) = Idle(after)
    <2>1. RawCode(c, s.prefix) = raw
      BY <1>1, <1>6 DEF RawCode
    <2>2. s.prefix \subseteq Prefixes /\ Modifier(raw) \subseteq Modifiers
      BY ModifierOf DEF State
    <2>3. WithModifier(raw, s.held \cup s.prefix) \ Prefixes = after
      BY <1>6, <2>2 DEF WithModifier, Prefixes, Modifiers
    <2> HIDE DEF c
    <2> QED BY <1>1, <2>1, <2>3 DEF Decoded
  <1> HIDE DEF c, first
  <1>7. ASSUME NEW b \in Seq(Value), NEW s \in State,
               \/ Len(b) = 1 /\ b[1] = c /\ raw < 256 /\ ~up
               \/ Len(b) = 2 /\ b[1] = Break /\ b[2] = c /\ raw < 256 /\ up
               \/ Len(b) = 2 /\ b[1] = Extended /\ b[2] = c /\ raw >= 256 /\ ~up
               \/ Len(b) = 3 /\ b[1] = Extended /\ b[2] = Break /\ b[3] = c /\ raw >= 256 /\ up
        PROVE  \E steps \in [0 .. Len(b) -> State] :
                  /\ steps[0] = first /\ steps[Len(b)] = Idle(after)
                  /\ \A i \in 1 .. Len(b) : steps[i] = Decoded(steps[i - 1], b[i])
    <2> DEFINE one == Decoded(first, b[1])
               two == Decoded(one, b[2])
               three == Decoded(two, b[3])
               steps == [i \in 0 .. Len(b) |->
                             IF i = 0 THEN first ELSE IF i = 1 THEN one ELSE IF i = 2 THEN two ELSE three]
    <2>1. one \in State /\ two \in State /\ three \in State
      BY <1>3, DecodedState
    <2>2. Len(b) \in 1 .. 3
      BY <1>7
    <2>3. steps \in [0 .. Len(b) -> State] /\ steps[0] = first
      BY <1>3, <2>1, <2>2
    <2>4. ASSUME NEW i \in 1 .. Len(b) PROVE steps[i] = Decoded(steps[i - 1], b[i])
      <3>1. i \in 1 .. 3 /\ i \in 0 .. Len(b) /\ i - 1 \in 0 .. Len(b)
        <4>1. \A n \in 1 .. 3 : \A j \in 1 .. n : j \in 1 .. 3 /\ j \in 0 .. n /\ j - 1 \in 0 .. n
          OBVIOUS
        <4> QED BY <2>2, <4>1
      <3>2. CASE i = 1
        BY <2>2, <3>2
      <3>3. CASE i = 2
        BY <2>2, <3>3
      <3>4. CASE i = 3
        BY <2>2, <3>4
      <3>5. i \in {1, 2, 3}
        BY <3>1
      <3> QED BY <3>2, <3>3, <3>4, <3>5
    <2>5. steps[Len(b)] = Idle(after)
      <3>1. CASE Len(b) = 1
        <4>1. raw \in Nat /\ b[1] = c /\ raw < 256 /\ ~up
          BY <1>1, <1>7, <3>1 DEF Value
        <4>2. ("EXT" \in first.prefix <=> raw >= 256) /\ ("BREAK" \in first.prefix <=> up)
          BY <1>3, <4>1
        <4>3. Decoded(first, c) = Idle(after)
          BY <1>3, <1>6, <4>2
        <4> QED BY <3>1, <4>1, <4>3
      <3>2. CASE Len(b) = 2 /\ b[1] = Break
        <4>1. raw \in Nat /\ b[2] = c /\ raw < 256 /\ up
          BY <1>1, <1>2, <1>7, <3>2 DEF Value
        <4>2. one.prefix = {"BREAK"} /\ one.held = down_before
          BY <1>2, <1>3, <3>2 DEF Decoded
        <4> HIDE DEF one
        <4>4. ("EXT" \in one.prefix <=> raw >= 256) /\ ("BREAK" \in one.prefix <=> up)
          BY <4>1, <4>2
        <4>3. two = Idle(after)
          BY <1>6, <2>1, <4>1, <4>2, <4>4
        <4> QED BY <3>2, <4>3
      <3>3. CASE Len(b) = 2 /\ b[1] = Extended
        <4>1. raw \in Nat /\ b[2] = c /\ raw >= 256 /\ ~up
          BY <1>1, <1>2, <1>7, <3>3 DEF Value
        <4>2. one.prefix = {"EXT"} /\ one.held = down_before
          BY <1>2, <1>3, <3>3 DEF Decoded
        <4> HIDE DEF one
        <4>4. ("EXT" \in one.prefix <=> raw >= 256) /\ ("BREAK" \in one.prefix <=> up)
          BY <4>1, <4>2
        <4>3. two = Idle(after)
          BY <1>6, <2>1, <4>1, <4>2, <4>4
        <4> QED BY <3>3, <4>3
      <3>4. CASE Len(b) = 3
        <4>1. raw \in Nat /\ b[1] = Extended /\ b[2] = Break /\ b[3] = c /\ raw >= 256 /\ up
          BY <1>1, <1>7, <3>4 DEF Value
        <4>2. one.prefix = {"EXT"} /\ one.held = down_before
          BY <1>2, <1>3, <4>1 DEF Decoded
        <4> HIDE DEF one
        <4>3. two.prefix = {"EXT", "BREAK"} /\ two.held = down_before
          BY <1>2, <4>1, <4>2 DEF Decoded
        <4> HIDE DEF two
        <4>4. three = Idle(after)
          BY <1>6, <2>1, <4>1, <4>3
        <4> QED BY <3>4, <4>4
      <3> QED BY <1>7, <3>1, <3>2, <3>3, <3>4
    <2> HIDE DEF steps
    <2> QED BY <2>3, <2>4, <2>5
  <1>8. raw \in Nat
    BY <1>1 DEF Value
  <1>9. /\ bytes \in Seq(Value)
        /\ \/ Len(bytes) = 1 /\ bytes[1] = c /\ raw < 256 /\ ~up
           \/ Len(bytes) = 2 /\ bytes[1] = Break /\ bytes[2] = c /\ raw < 256 /\ up
           \/ Len(bytes) = 2 /\ bytes[1] = Extended /\ bytes[2] = c /\ raw >= 256 /\ ~up
           \/ /\ Len(bytes) = 3 /\ bytes[1] = Extended /\ bytes[2] = Break /\ bytes[3] = c
              /\ raw >= 256 /\ up
    <2>1. /\ <<Extended>> \o <<Break>> = <<Extended, Break>>
          /\ <<Extended, Break>> \o <<c>> = <<Extended, Break, c>>
          /\ <<Extended>> \o <<c>> = <<Extended, c>> /\ <<Break>> \o <<c>> = <<Break, c>>
      BY <1>1, <1>2, Joined
    <2> DEFINE e == <<Extended>>
               r == <<Break>>
               k == <<c>>
    <2>2. /\ e \o <<>> = e /\ <<>> \o r = r /\ <<>> \o k = k /\ <<>> \o <<>> = <<>>
      <3>1. e \in Seq(Value) /\ r \in Seq(Value) /\ k \in Seq(Value)
        BY <1>1, <1>2
      <3> QED BY <3>1, ConcatEmptySeq, EmptySeq
    <2> HIDE DEF e, r, k
    <2>3. bytes = (IF raw >= 256 THEN e ELSE <<>>) \o (IF up THEN r ELSE <<>>) \o k
      BY <1>5 DEF e, r, k
    <2>4. CASE raw >= 256 /\ up
      <3>1. bytes = <<Extended, Break, c>>
        BY <2>1, <2>3, <2>4 DEF e, r, k
      <3>2. /\ <<Extended, Break, c>> \in Seq(Value) /\ Len(<<Extended, Break, c>>) = 3
            /\ <<Extended, Break, c>>[1] = Extended /\ <<Extended, Break, c>>[2] = Break
            /\ <<Extended, Break, c>>[3] = c
        BY <1>1, <1>2
      <3> QED BY <2>4, <3>1, <3>2
    <2>5. CASE raw >= 256 /\ ~up
      <3>1. bytes = <<Extended, c>>
        BY <2>1, <2>2, <2>3, <2>5 DEF e, k
      <3> QED BY <1>1, <1>2, <2>5, <3>1
    <2>6. CASE ~(raw >= 256) /\ up
      <3>1. bytes = <<Break, c>>
        BY <2>1, <2>2, <2>3, <2>6 DEF r, k
      <3>2. /\ <<Break, c>> \in Seq(Value) /\ Len(<<Break, c>>) = 2
            /\ <<Break, c>>[1] = Break /\ <<Break, c>>[2] = c
        BY <1>1, <1>2
      <3>3. raw < 256
        BY <1>8, <2>6
      <3> QED BY <2>6, <3>1, <3>2, <3>3
    <2>7. CASE ~(raw >= 256) /\ ~up
      <3>1. bytes = k
        BY <2>2, <2>3, <2>7
      <3> QED BY <1>1, <1>2, <1>8, <2>7, <3>1 DEF k
    <2> QED BY <2>4, <2>5, <2>6, <2>7
  <1>10. Len(bytes) \in 1 .. 3
    BY <1>9
  <1> QED BY <1>3, <1>4, <1>7, <1>9, <1>10 DEF first, Decodes

-----------------------------------------------------------------------------
LEMMA FlagInit == Init => FlagInv
  <1> SUFFICES ASSUME Init PROVE FlagInv
    OBVIOUS
  <1> DEFINE run == [i \in 0 .. 0 |-> Idle({})]
  <1>1. Idle({}) \in State /\ Idle({}).prefix = {} /\ Idle({}).held = {}
    BY DEF Idle, State
  <1>2. wire = <<>> /\ Len(wire) = 0 /\ 1 .. Len(wire) = {}
    BY DEF Init
  <1>3. Runs(run) /\ run[0] = Idle({})
    BY <1>1, <1>2 DEF Init, Runs
  <1>4. Follows(flags, early, run[0])
    BY <1>1, <1>3 DEF Init, Follows
  <1> HIDE DEF run
  <1>5. data.early /\ ~Awaited /\ Configuring /\ response = Nothing /\ flags = {} /\ latched = {}
    BY DEF Init, PicInit, Awaited, Configuring, Byte
  <1> QED BY <1>1, <1>2, <1>3, <1>4, <1>5 DEF FlagInv, Explains

(* A step that moves no byte and no key. *)
LEMMA FlagSame ==
    ASSUME TypeInv, FlagInv, UNCHANGED <<flags, early, data, wire, latched>>,
           Configuring' => Configuring, ~Configuring' => command' = "none",
           response' # Nothing => data.early, data.early \/ UNCHANGED <<full, irr>>
    PROVE  FlagInv'
  <1>1. PICK run : Explains(run)
    BY DEF FlagInv
  <1>2. Runs(run)'
    BY <1>1 DEF Explains, Runs
  <1>3. (Awaited /\ ~data.early)' <=> Awaited /\ ~data.early
    BY DEF Awaited
  <1>4. (Awaited /\ ~data.early => full)'
    BY <1>3 DEF FlagInv
  <1>5. Explains(run)'
    BY <1>1, <1>2, <1>3 DEF Explains
  <1> QED BY <1>4, <1>5 DEF FlagInv

LEMMA FlagKmain == TypeInv /\ ConfigInv /\ FlagInv /\ (Kmain \/ EndLua) => FlagInv'
  <1> SUFFICES ASSUME TypeInv, ConfigInv, FlagInv, Kmain \/ EndLua PROVE FlagInv'
    OBVIOUS
  <1> USE DEF Step, Cli, Sti, ps2, decoder, keyboard, pic
  <1>1. UNCHANGED <<flags, early, data, wire, latched, response>>
    BY DEF Kmain, InitIdt, RtcInit, EnablePeriodic, AddComponents, AddKeyboard, GetTime, ReadCli,
           ReadSti, WriteCli, WriteSti, EndLua, ReadCommand, Poll, WriteCommand, ReadConfig,
           ChangeConfig, WriteConfig, StartLua, RunLua
  <1>2. Configuring' => Configuring
    BY DEF Kmain, InitIdt, RtcInit, EnablePeriodic, AddComponents, AddKeyboard, GetTime, ReadCli,
           ReadSti, WriteCli, WriteSti, EndLua, ReadCommand, Poll, WriteCommand, ReadConfig,
           ChangeConfig, WriteConfig, StartLua, RunLua, Configuring
  <1>3. ~Configuring' => command' = "none"
    BY DEF Kmain, InitIdt, RtcInit, EnablePeriodic, AddComponents, AddKeyboard, GetTime, ReadCli,
           ReadSti, WriteCli, WriteSti, EndLua, ReadCommand, Poll, WriteCommand, ReadConfig,
           ChangeConfig, WriteConfig, StartLua, RunLua, Configuring, FlagInv
  <1>4. Configuring \/ UNCHANGED <<full, irr>>
    BY DEF Kmain, InitIdt, RtcInit, EnablePeriodic, AddComponents, AddKeyboard, GetTime, ReadCli,
           ReadSti, WriteCli, WriteSti, EndLua, ReadCommand, Poll, WriteCommand, ReadConfig,
           ChangeConfig, WriteConfig, StartLua, RunLua, Configuring
  <1>5. (Configuring => data.early) /\ (response # Nothing => data.early)
    BY DEF FlagInv
  <1> QED BY <1>1, <1>2, <1>3, <1>4, <1>5, FlagSame

LEMMA FlagOthers == TypeInv /\ FlagInv /\ (RtcInterrupt \/ Execute) => FlagInv'
  <1> SUFFICES ASSUME TypeInv, FlagInv, RtcInterrupt \/ Execute PROVE FlagInv'
    OBVIOUS
  <1>1. CASE RtcInterrupt
    <2>1. UNCHANGED <<flags, early, data, wire, latched, response, command, full>> /\ irr' = irr \ {Rtc}
      BY <1>1 DEF RtcInterrupt, Enter, decoder, ps2, keyboard
    <2>2. pc' = pc
      BY <1>1 DEF RtcInterrupt, Enter, Interrupted, TypeInv
    <2>3. PICK run : Explains(run)
      BY DEF FlagInv
    <2>4. Runs(run)' /\ (Awaited' <=> Awaited)
      BY <2>1, <2>3 DEF Explains, Runs, Awaited, Keyboard, Rtc
    <2>5. Explains(run)'
      BY <2>1, <2>3, <2>4 DEF Explains
    <2> QED BY <2>1, <2>2, <2>4, <2>5 DEF FlagInv, Configuring
  <1>2. CASE Execute
    <2>1. UNCHANGED <<flags, early, data, wire, latched, full, irr, pc>>
      BY <1>2 DEF Execute, cpu, decoder, keyboard, pic
    <2>2. (Configuring' => Configuring) /\ (~Configuring' => command' = "none")
      BY <1>2, <2>1 DEF Execute, Configuring, FlagInv
    <2>3. response' # Nothing => data.early
      BY <1>2 DEF Execute, FlagInv
    <2> QED BY <2>1, <2>2, <2>3, FlagSame
  <1> QED BY <1>1, <1>2

LEMMA FlagTick == TypeInv /\ FlagInv /\ RtcTick => FlagInv'
  <1> SUFFICES ASSUME TypeInv, FlagInv, RtcTick PROVE FlagInv'
    OBVIOUS
  <1>1. /\ UNCHANGED <<flags, early, data, wire, latched, response, command, full, pc>>
        /\ irr' = irr \cup {Rtc}
    BY DEF RtcTick, RaiseLine, cpu, decoder, ps2, keyboard
  <1>2. PICK run : Explains(run)
    BY DEF FlagInv
  <1>3. Runs(run)' /\ (Awaited' <=> Awaited)
    BY <1>1, <1>2 DEF Explains, Runs, Awaited, Keyboard, Rtc
  <1>4. Explains(run)'
    BY <1>1, <1>2, <1>3 DEF Explains
  <1> QED BY <1>1, <1>3, <1>4 DEF FlagInv, Configuring

LEMMA FlagKeyboard == TypeInv /\ FlagInv /\ KeyboardInterrupt => FlagInv'
  <1> SUFFICES ASSUME TypeInv, FlagInv, KeyboardInterrupt PROVE FlagInv'
    OBVIOUS
  <1>1. /\ UNCHANGED <<data, wire, latched, response, command>> /\ full' = FALSE
        /\ irr' = irr \ {Keyboard}
    BY DEF KeyboardInterrupt, Enter, keyboard
  <1>2. pc' = pc
    BY DEF KeyboardInterrupt, Enter, Interrupted, TypeInv
  <1>3. Awaited /\ ~Awaited'
    <2>1. Keyboard \in irr
      BY Served DEF KeyboardInterrupt, TypeInv
    <2> QED BY <1>1, <2>1 DEF Awaited
  <1>4. data.value \in Value /\ data.early \in BOOLEAN
    BY DEF TypeInv, Bytes2
  <1>5. flags' = IF data.value = Break THEN flags \cup {"BREAK"}
                 ELSE IF data.value = Extended THEN flags \cup {"EXT"}
                 ELSE WithModifier(RawCode(data.value, flags), flags) \ Prefixes
    <2>1. Break # Extended
      BY DEF Break, Extended
    <2> DEFINE byte == data.value
               now == WithModifier(RawCode(byte, flags), flags)
    <2>2. \/ byte = Break /\ flags' = flags \cup {"BREAK"}
          \/ byte = Extended /\ flags' = flags \cup {"EXT"}
          \/ byte \notin {Break, Extended} /\ flags' = now \ {"EXT", "BREAK"}
      BY DEF KeyboardInterrupt
    <2> HIDE DEF byte, now
    <2>3. flags' = IF byte = Break THEN flags \cup {"BREAK"}
                   ELSE IF byte = Extended THEN flags \cup {"EXT"} ELSE now \ Prefixes
      BY <2>1, <2>2 DEF Prefixes
    <2> QED BY <2>3 DEF byte, now
  <1>6. early' = flags' \cap (early \cup (IF data.early THEN flags' \ flags ELSE {}))
    BY DEF KeyboardInterrupt
  <1>7. flags \in SUBSET (Prefixes \cup Modifiers)
    BY DEF FlagInv
  <1>8. PICK run : Explains(run)
    BY DEF FlagInv
  <1>9. flags' \subseteq Prefixes \cup Modifiers
    <2>1. Modifier(RawCode(data.value, flags)) \subseteq Modifiers
      BY ModifierOf
    <2> QED BY <1>5, <1>7, <2>1 DEF WithModifier, Prefixes
  <1>10. data.early => flags' \subseteq early'
    <2>1. data.early => flags \subseteq early
      BY DEF FlagInv
    <2> QED BY <1>6, <2>1
  <1>11. Follows(flags', early', run[0])
    <2>1. CASE data.early
      <3>1. run[0].prefix = {} /\ flags' \subseteq early'
        BY <1>8, <1>10, <2>1 DEF Explains
      <3> QED BY <3>1 DEF Follows
    <2>2. CASE ~data.early
      <3>1. PICK s \in State : run[0] = Decoded(s, data.value) /\ Follows(flags, early, s)
        BY <1>3, <1>8, <2>2 DEF Explains
      <3>2. early' = flags' \cap early
        BY <1>6, <2>2
      <3>3. Follows(flags', flags' \cap early, Decoded(s, data.value))
        BY <1>4, <1>5, <1>7, <3>1, LateByte
      <3> QED BY <3>1, <3>2, <3>3
    <2> QED BY <2>1, <2>2
  <1>12. Explains(run)'
    BY <1>1, <1>3, <1>8, <1>11 DEF Explains, Runs
  <1> QED BY <1>1, <1>2, <1>3, <1>9, <1>10, <1>12 DEF FlagInv, Configuring

(* The answer comes to the buffer, or a byte of the wire. *)
LEMMA FlagFill == TypeInv /\ FlagInv /\ (Respond \/ SendByte) => FlagInv'
  <1> SUFFICES ASSUME TypeInv, FlagInv, Respond \/ SendByte PROVE FlagInv'
    OBVIOUS
  <1>1. /\ UNCHANGED <<flags, early, latched, command, pc>>
        /\ ~full /\ full' /\ Awaited'
    BY DEF Respond, SendByte, Fill, decoder, cpu, Awaited
  <1>2. PICK run : Explains(run)
    BY DEF FlagInv
  <1>3. CASE Respond
    <2>1. /\ response # Nothing /\ response' = Nothing /\ wire' = wire /\ data'.early /\ data.early
      BY <1>3 DEF Respond, Fill, Byte, FlagInv
    <2>2. Explains(run)'
      BY <1>1, <1>2, <2>1 DEF Explains, Runs
    <2> QED BY <1>1, <2>1, <2>2 DEF FlagInv, Configuring
  <1>4. CASE SendByte
    <2>1. wire # <<>> /\ data' = Head(wire) /\ wire' = Tail(wire) /\ response' = response /\ response = Nothing
      BY <1>4 DEF SendByte, Fill
    <2>2. /\ Len(wire) \in Nat /\ Len(wire) > 0 /\ data' = wire[1] /\ Len(wire') = Len(wire) - 1
          /\ \A i \in 1 .. Len(wire') : wire'[i] = wire[i + 1]
          /\ wire[1] \in Bytes2
      <3>1. wire \in Seq(Bytes2)
        BY DEF TypeInv
      <3>2. Len(wire) \in Nat /\ Len(wire) > 0
        BY <2>1, <3>1, LenProperties, EmptySeq
      <3>3. wire[1] \in Bytes2
        BY <3>1, <3>2, ElementOfSeq
      <3> QED BY <2>1, <3>1, <3>2, <3>3, HeadTailProperties
    <2>3. PICK rest : rest = [i \in 0 .. Len(wire) - 1 |-> run[i + 1]]
      OBVIOUS
    <2>4. Runs(run)
      BY <1>2 DEF Explains
    <2>5. Runs(rest)'
      <3>1. \A i \in 0 .. Len(wire) - 1 : i + 1 \in 1 .. Len(wire) /\ i + 1 \in 0 .. Len(wire)
        BY <2>2
      <3>2. rest \in [0 .. Len(wire') -> State]
        BY <2>2, <2>3, <2>4, <3>1 DEF Runs
      <3>3. rest[Len(wire')] = Idle(latched')
        <4>1. Len(wire') \in 0 .. Len(wire) - 1 /\ Len(wire') + 1 = Len(wire)
          BY <2>2
        <4> QED BY <1>1, <2>3, <2>4, <4>1 DEF Runs
      <3>4. ASSUME NEW i \in 1 .. Len(wire')
            PROVE  rest[i] = IF wire'[i].early THEN rest[i - 1] ELSE Decoded(rest[i - 1], wire'[i].value)
        <4>1. /\ i - 1 \in 0 .. Len(wire) - 1 /\ i \in 0 .. Len(wire) - 1 /\ (i - 1) + 1 = i
              /\ i + 1 \in 1 .. Len(wire) /\ (i + 1) - 1 = i
          BY <2>2
        <4>2. rest[i - 1] = run[i] /\ rest[i] = run[i + 1] /\ wire'[i] = wire[i + 1]
          BY <2>2, <2>3, <4>1
        <4>3. run[i + 1] = IF wire[i + 1].early THEN run[i] ELSE Decoded(run[i], wire[i + 1].value)
          BY <2>4, <4>1 DEF Runs
        <4> QED BY <4>2, <4>3
      <3> QED BY <3>2, <3>3, <3>4 DEF Runs
    <2>6. /\ rest[0] = IF wire[1].early THEN run[0] ELSE Decoded(run[0], wire[1].value)
          /\ run[0] \in State
      <3>1. 0 \in 0 .. Len(wire) - 1 /\ 1 \in 1 .. Len(wire) /\ 0 + 1 = 1 /\ 1 - 1 = 0
            /\ 0 \in 0 .. Len(wire)
        BY <2>2
      <3>2. rest[0] = run[0 + 1]
        BY <2>3, <3>1
      <3>3. run[1] = IF wire[1].early THEN run[1 - 1] ELSE Decoded(run[1 - 1], wire[1].value)
        BY <2>4, <3>1 DEF Runs
      <3> QED BY <2>4, <3>1, <3>2, <3>3 DEF Runs
    <2>7. Follows(flags, early, run[0])
      <3>1. ~(Awaited /\ ~data.early)
        BY <1>1 DEF FlagInv
      <3> QED BY <1>2, <3>1 DEF Explains
    <2>8. wire[1].early => data.early
      <3>1. 1 \in 1 .. Len(wire)
        BY <2>2
      <3> QED BY <3>1 DEF FlagInv
    <2>9. Explains(rest)'
      <3>1. CASE wire[1].early
        <4>1. rest[0] = run[0] /\ run[0].prefix = {}
          BY <1>2, <2>6, <2>8, <3>1 DEF Explains
        <4> QED BY <1>1, <2>2, <2>5, <2>7, <3>1, <4>1 DEF Explains
      <3>2. CASE ~wire[1].early
        <4>1. rest[0] = Decoded(run[0], data'.value) /\ ~data'.early
          BY <2>2, <2>6, <3>2
        <4> QED BY <1>1, <2>5, <2>6, <2>7, <4>1 DEF Explains
      <3> QED BY <3>1, <3>2
    <2>10. /\ \A i \in 1 .. Len(wire') :
                 wire'[i].early => data'.early /\ \A j \in 1 .. i : wire'[j].early
           /\ (Configuring' => data'.early /\ \A i \in 1 .. Len(wire') : wire'[i].early)
      <3>1. ASSUME NEW i \in 1 .. Len(wire'), wire'[i].early
            PROVE  data'.early /\ \A j \in 1 .. i : wire'[j].early
        <4>1. i + 1 \in 1 .. Len(wire) /\ wire[i + 1].early
          BY <2>2, <3>1
        <4>2. \A j \in 1 .. i + 1 : wire[j].early
          BY <4>1 DEF FlagInv
        <4>3. 1 \in 1 .. i + 1 /\ \A j \in 1 .. i : j + 1 \in 1 .. i + 1 /\ j \in 1 .. Len(wire')
          BY <2>2
        <4> QED BY <2>2, <4>2, <4>3
      <3>2. ASSUME Configuring' PROVE data'.early /\ \A i \in 1 .. Len(wire') : wire'[i].early
        <4>1. \A i \in 1 .. Len(wire) : wire[i].early
          BY <1>1, <3>2 DEF FlagInv, Configuring
        <4>2. 1 \in 1 .. Len(wire) /\ \A i \in 1 .. Len(wire') : i + 1 \in 1 .. Len(wire)
          BY <2>2
        <4> QED BY <2>2, <4>1, <4>2
      <3> QED BY <3>1, <3>2
    <2>11. data'.early => flags' \subseteq early'
      BY <1>1, <2>2, <2>8 DEF FlagInv
    <2> QED BY <1>1, <2>1, <2>9, <2>10, <2>11 DEF FlagInv, Configuring
  <1> QED BY <1>3, <1>4

LEMMA FlagTyped ==
    ASSUME TypeInv, ConfigInv, FlagInv, NEW raw \in Key, NEW up \in BOOLEAN, TypeKey(raw, up)
    PROVE  FlagInv'
  <1>1. PICK new \in Seq(Bytes2) :
            /\ wire' = wire \o new /\ Len(new) = Len(Bytes(raw, up))
            /\ \A i \in 1 .. Len(new) : new[i] = Byte(Bytes(raw, up)[i], Configuring)
    BY Typed
  <1>2. UNCHANGED <<flags, early, data, full, irr, pc, command, response>>
    BY DEF TypeKey, decoder, ps2, pic, cpu
  <1>3. latched' = WithModifier(raw, latched \cup (IF up THEN {"BREAK"} ELSE {})) \ {"BREAK"}
    BY DEF TypeKey
  <1>4. latched \in SUBSET Modifiers
    BY DEF FlagInv
  <1>5. latched' \subseteq Modifiers
    <2>1. Modifier(raw) \subseteq Modifiers
      BY ModifierOf
    <2> QED BY <1>3, <1>4, <2>1 DEF WithModifier
  <1>6. PICK run : Explains(run)
    BY DEF FlagInv
  <1> DEFINE n == Len(wire)
             m == Len(new)
  <1>7. /\ n \in Nat /\ m \in 1 .. 3 /\ Len(wire') = n + m
        /\ \A i \in 1 .. n : wire'[i] = wire[i]
        /\ \A i \in n + 1 .. n + m : wire'[i] = new[i - n] /\ i - n \in 1 .. m
    <2>1. n \in Nat /\ m \in 1 .. 3
      BY <1>1, Sent, LenProperties DEF TypeInv
    <2>2. \A i \in 1 .. n + m : wire'[i] = IF i <= n THEN wire[i] ELSE new[i - n]
      BY <1>1, ConcatProperties DEF TypeInv
    <2>3. Len(wire') = n + m
      BY <1>1, ConcatProperties DEF TypeInv
    <2> HIDE DEF n, m
    <2> QED BY <2>1, <2>2, <2>3
  <1>8. (Awaited' <=> Awaited) /\ (Configuring' <=> Configuring)
    BY <1>2 DEF Awaited, Configuring
  <1>9. \A i \in 1 .. m : new[i].early = Configuring /\ new[i].value = Bytes(raw, up)[i]
    <2>1. m = Len(new)
      BY DEF m
    <2>2. \A i \in 1 .. m : new[i] = Byte(Bytes(raw, up)[i], Configuring)
      BY <1>1, <2>1
    <2>3. \A v, e : Byte(v, e).value = v /\ Byte(v, e).early = e
      BY DEF Byte
    <2> QED BY <2>2, <2>3
  <1> HIDE DEF n, m
  <1>10. CASE Configuring
    <2>1. data.early /\ \A i \in 1 .. n : wire[i].early
      BY <1>10 DEF FlagInv, n
    <2>2. \A i \in 1 .. n + m : wire'[i].early
      <3>1. \A i \in 1 .. n + m : i \in 1 .. n \/ i \in n + 1 .. n + m
        BY <1>7
      <3> QED BY <1>7, <1>9, <1>10, <2>1, <3>1
    <2>3. PICK still : still = [i \in 0 .. n + m |-> Idle(latched')]
      OBVIOUS
    <2>4. Idle(latched') \in State /\ Idle(latched').prefix = {}
      BY <1>5 DEF Idle, State
    <2>5. Runs(still)'
      <3>1. still \in [0 .. Len(wire') -> State] /\ still[Len(wire')] = Idle(latched')
        BY <1>7, <2>3, <2>4
      <3>2. \A i \in 1 .. Len(wire') : still[i] = still[i - 1] /\ wire'[i].early
        <4>1. \A i \in 1 .. n + m : i \in 0 .. n + m /\ i - 1 \in 0 .. n + m
          BY <1>7
        <4> QED BY <1>7, <2>2, <2>3, <4>1
      <3> QED BY <3>1, <3>2 DEF Runs
    <2>6. still[0].prefix = {}
      BY <1>7, <2>3, <2>4
    <2>7. Follows(flags', early', still[0])
      <3>1. flags' \subseteq early'
        BY <1>2, <2>1 DEF FlagInv
      <3> QED BY <2>6, <3>1 DEF Follows
    <2>8. Explains(still)'
      BY <1>2, <2>1, <2>5, <2>6, <2>7 DEF Explains
    <2>9. \A i \in 1 .. Len(wire') : \A j \in 1 .. i : wire'[j].early
      <3>1. \A i \in 1 .. n + m : \A j \in 1 .. i : j \in 1 .. n + m
        BY <1>7
      <3> QED BY <1>7, <2>2, <3>1
    <2> QED BY <1>2, <1>5, <1>7, <1>8, <1>10, <2>1, <2>2, <2>8, <2>9 DEF FlagInv
  <1>11. CASE ~Configuring
    <2>1. Bytes(raw, up) = Scancodes(raw, up)
      <3>1. pc \in After
        BY <1>11 DEF Configuring, After
      <3>2. controller = Configured(occupant) /\ occupant \in Value
        BY <3>1 DEF ConfigInv, TypeInv
      <3>3. ~Bit(controller, 6)
        BY <3>2, Configuration
      <3> QED BY <3>3 DEF Bytes
    <2>2. PICK steps \in [0 .. m -> State] :
              /\ steps[0] = Idle(latched) /\ steps[m] = Idle(latched')
              /\ \A i \in 1 .. m : steps[i] = Decoded(steps[i - 1], Bytes(raw, up)[i])
      <3>1. m = Len(Scancodes(raw, up))
        BY <1>1, <2>1 DEF m
      <3>2. \E steps \in [0 .. Len(Scancodes(raw, up)) -> State] :
                /\ steps[0] = Idle(latched) /\ steps[Len(Scancodes(raw, up))] = Idle(latched')
                /\ \A i \in 1 .. Len(Scancodes(raw, up)) :
                       steps[i] = Decoded(steps[i - 1], Scancodes(raw, up)[i])
        <4>1. PICK bytes : bytes = Scancodes(raw, up)
          OBVIOUS
        <4>2. PICK after : after = latched'
          OBVIOUS
        <4>3. \E steps \in [0 .. Len(bytes) -> State] :
                  /\ steps[0] = Idle(latched) /\ steps[Len(bytes)] = Idle(after)
                  /\ \A i \in 1 .. Len(bytes) : steps[i] = Decoded(steps[i - 1], bytes[i])
          <5>1. PICK before \in SUBSET Modifiers : before = latched
            BY <1>4
          <5>2. after = WithModifier(raw, before \cup (IF up THEN {"BREAK"} ELSE {})) \ {"BREAK"}
            BY <1>3, <4>2, <5>1
          <5>3. Decodes(bytes, before, after)
            BY <4>1, <5>2, KeyDecoded
          <5> QED BY <5>1, <5>3 DEF Decodes
        <4> QED BY <4>1, <4>2, <4>3
      <3> QED BY <2>1, <3>1, <3>2
    <2>3. PICK longer : longer = [i \in 0 .. n + m |-> IF i <= n THEN run[i] ELSE steps[i - n]]
      OBVIOUS
    <2>4. /\ run \in [0 .. n -> State] /\ run[n] = Idle(latched)
          /\ \A i \in 1 .. n : run[i] = IF wire[i].early THEN run[i - 1] ELSE Decoded(run[i - 1], wire[i].value)
      BY <1>6 DEF Explains, Runs, n
    <2>5. Runs(longer)'
      <3>1. longer \in [0 .. n + m -> State]
        <4>1. \A i \in 0 .. n + m : IF i <= n THEN i \in 0 .. n ELSE i - n \in 0 .. m
          BY <1>7
        <4> QED BY <2>2, <2>3, <2>4, <4>1
      <3>2. longer[n + m] = Idle(latched')
        <4>1. n + m \in 0 .. n + m /\ ~(n + m <= n) /\ (n + m) - n = m
          BY <1>7
        <4> QED BY <2>2, <2>3, <4>1
      <3>3. ASSUME NEW i \in 1 .. n + m
            PROVE  longer[i] = IF wire'[i].early THEN longer[i - 1] ELSE Decoded(longer[i - 1], wire'[i].value)
        <4>1. CASE i <= n
          <5>1. i \in 1 .. n /\ i \in 0 .. n + m /\ i - 1 \in 0 .. n + m /\ i - 1 <= n
            BY <1>7, <4>1
          <5>2. longer[i] = run[i] /\ longer[i - 1] = run[i - 1] /\ wire'[i] = wire[i]
            BY <1>7, <2>3, <4>1, <5>1
          <5> QED BY <2>4, <5>1, <5>2
        <4>2. CASE ~(i <= n)
          <5>1. /\ i \in n + 1 .. n + m /\ i \in 0 .. n + m /\ i - 1 \in 0 .. n + m
                /\ i - n \in 1 .. m /\ (i - n) - 1 = (i - 1) - n
                /\ (i - 1 <= n => i - 1 = n /\ (i - 1) - n = 0)
            BY <1>7, <4>2
          <5>2. longer[i] = steps[i - n]
            BY <2>3, <4>2, <5>1
          <5>3. longer[i - 1] = steps[(i - n) - 1]
            BY <2>2, <2>3, <2>4, <5>1
          <5>4. ~wire'[i].early /\ wire'[i].value = Bytes(raw, up)[i - n]
            BY <1>7, <1>9, <1>11, <5>1
          <5> QED BY <2>2, <5>1, <5>2, <5>3, <5>4
        <4> QED BY <4>1, <4>2
      <3> QED BY <1>7, <3>1, <3>2, <3>3 DEF Runs
    <2>6. longer[0] = run[0]
      <3>1. 0 \in 0 .. n + m /\ 0 <= n
        BY <1>7
      <3> QED BY <2>3, <3>1
    <2>7. Explains(longer)'
      BY <1>2, <1>6, <1>8, <2>5, <2>6 DEF Explains
    <2>8. ASSUME NEW i \in 1 .. Len(wire'), wire'[i].early
          PROVE  data'.early /\ \A j \in 1 .. i : wire'[j].early
      <3>1. i \in 1 .. n
        <4>1. i \in n + 1 .. n + m => ~wire'[i].early
          BY <1>7, <1>9, <1>11
        <4> QED BY <1>7, <2>8, <4>1
      <3>2. wire[i].early /\ i \in 1 .. Len(wire)
        BY <1>7, <2>8, <3>1 DEF n
      <3>3. data.early /\ \A j \in 1 .. i : wire[j].early
        BY <3>2 DEF FlagInv
      <3>4. \A j \in 1 .. i : j \in 1 .. n
        BY <1>7, <3>1
      <3> QED BY <1>2, <1>7, <3>3, <3>4
    <2> QED BY <1>2, <1>5, <1>8, <1>11, <2>7, <2>8 DEF FlagInv
  <1> QED BY <1>10, <1>11

LEMMA FlagStep == TypeInv /\ ConfigInv /\ FlagInv /\ [Next]_vars => FlagInv'
  <1>1. ASSUME TypeInv, FlagInv, UNCHANGED vars PROVE FlagInv'
    <2>1. UNCHANGED <<flags, early, data, wire, latched, full, irr, pc, command, response>>
      BY <1>1 DEF vars, cpu, ps2, pic, decoder, keyboard
    <2>2. (Configuring' <=> Configuring) /\ (~Configuring => command = "none") /\ (response # Nothing => data.early)
      BY <1>1, <2>1 DEF Configuring, FlagInv
    <2> QED BY <1>1, <2>1, <2>2, FlagSame
  <1> QED BY <1>1, FlagKmain, FlagKeyboard, FlagOthers, FlagTick, FlagFill, FlagTyped
          DEF Next, Handler, Controller

LEMMA FlagHolds == Spec => []FlagInv
  BY FlagInit, FlagStep, Typing, ConfigHolds, PTL DEF Spec

(* Whatever is typed, and whenever: once all is decoded, a modifier that is  *)
(* on though its key is up, or a prefix left over, was set by a byte of a    *)
(* key typed before ps2_init was done, and has been on since.                *)
THEOREM OnlyEarlyStuck == Spec => []StuckOnlyEarly
  <1>1. TypeInv /\ FlagInv => StuckOnlyEarly
    <2> SUFFICES ASSUME TypeInv, FlagInv, wire = <<>>, ~full, Keyboard \notin irr
                 PROVE  flags \subseteq latched \cup early
      BY DEF StuckOnlyEarly
    <2>1. PICK run : Explains(run)
      BY DEF FlagInv
    <2>2. Len(wire) = 0
      OBVIOUS
    <2>3. run[0] = Idle(latched) /\ Follows(flags, early, run[0])
      BY <2>1, <2>2 DEF Explains, Runs, Awaited
    <2>4. run[0].prefix = {} /\ run[0].held = latched
      BY <2>3 DEF Idle
    <2> QED BY <2>3, <2>4 DEF Follows, FlagInv
  <1> QED BY <1>1, Typing, FlagHolds, PTL
=============================================================================
