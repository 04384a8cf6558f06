-------------------------------- MODULE Boot --------------------------------
(***************************************************************************)
(* kmain from init_idt to Lua (main.c), with the interrupts that come on   *)
(* half way through it, the clock chip that rtc_init sets ticking, and the *)
(* PS/2 controller that ps2_init reconfigures while the user types.        *)
(*                                                                         *)
(* The loader hands over with interrupts off.  No line turns them on on    *)
(* purpose: it is the sti in rtc_read that does.  From then on a handler   *)
(* runs before any instruction outside cli and sti; SignalIrq shows that   *)
(* handlers do not interfere with each other, so here each is one step.    *)
(*                                                                         *)
(* The controller's output buffer holds one byte, a key's or the answer to *)
(* a command.  Until ps2_init is done the controller translates keys to    *)
(* scancode set 1, which ps2_interrupt decodes as set 2.                   *)
(***************************************************************************)
EXTENDS Pic, Ps2Decode

CONSTANTS
    Key,            \* keys the user has, as raw codes
    Set1,           \* the scancode set 1 code of each, less its prefix
    Firmware,       \* configurations the firmware may leave
    MAX_SIGNALS,    \* slots of the signal ring
    MaxTyped        \* bound: key presses and releases in a behaviour

Keyboard == 1
Rtc == 8

ASSUME BootAssumption ==
    /\ Line = {Keyboard, Rtc}
    /\ Key \subseteq KnownKeys /\ Set1 \in [Key -> 0 .. 127]
    /\ Firmware \subseteq 0 .. 255 /\ Nothing \notin 0 .. 255
    /\ MAX_SIGNALS \in Nat /\ MaxTyped \in Nat

VARIABLES
    pc, eflags_if, idt,             \* where kmain is, IF, whether the IDT is loaded
    archive,                        \* what the loader has brought along
    components,                     \* types of the registered components, in order
    keyboard_address,               \* whether it is set
    flags, in_buffer,               \* the decoder's flags, signals queued
    config,                         \* ps2_init's local copy
    controller,                     \* the controller's configuration byte
    command, response,              \* the command it has, the answer it holds back
    data, full,                     \* its output buffer; data stays when it is read
    periodic, rtc_flag, due,        \* the RTC: interrupts on, register C, a tick may come
    wire, down, latched, presses,   \* the keyboard and the user
    occupant,                       \* the byte ps2_init takes for the configuration
    early                           \* flags on since a byte sent before the change

cpu == <<pc, eflags_if, idt>>
kernel == <<archive, components, keyboard_address>>
decoder == <<flags, in_buffer, early>>
ps2 == <<controller, command, response, data, full>>
rtc == <<periodic, rtc_flag>>
pic == <<irr, isr>>
keyboard == <<wire, down, latched, presses>>
vars == <<cpu, kernel, decoder, config, occupant, ps2, rtc, due, pic, keyboard>>

Bit(byte, n) == (byte \div 2 ^ n) % 2 = 1
With(byte, n) == IF Bit(byte, n) THEN byte ELSE byte + 2 ^ n
Without(byte, n) == IF Bit(byte, n) THEN byte - 2 ^ n ELSE byte

(* A byte on its way to the processor; early if no key typed after ps2_init  *)
(* is behind it.                                                             *)
Byte(value, is_early) == [value |-> value, early |-> is_early]

Init ==
    /\ pc = "init_idt" /\ eflags_if = FALSE /\ idt = FALSE
    /\ archive \in {"none", "no_bios", "bios"}
    /\ components = <<>> /\ keyboard_address = FALSE
    /\ flags = {} /\ in_buffer = 0
    /\ controller \in Firmware /\ config = controller
    /\ command = "none" /\ response = Nothing
    /\ data = Byte(0, TRUE) /\ full = FALSE
    /\ periodic \in BOOLEAN /\ rtc_flag \in {FALSE, periodic} /\ due = TRUE
    /\ PicInit
    /\ wire = <<>> /\ down = {} /\ latched = {} /\ presses = 0
    /\ occupant = controller /\ early = {}

-----------------------------------------------------------------------------
Interrupted == eflags_if /\ Pending

(* One step of kmain: no interrupt is waiting to be taken before it. *)
Step(from, to) == ~Interrupted /\ pc = from /\ pc' = to /\ due' = TRUE

(* The same between two steps that touch only the processor. *)
Cli(from, to) ==
    /\ Step(from, to) /\ eflags_if' = FALSE
    /\ UNCHANGED <<idt, kernel, decoder, config, occupant, ps2, rtc, pic, keyboard>>
Sti(from, to) ==
    /\ Step(from, to) /\ eflags_if' = TRUE
    /\ UNCHANGED <<idt, kernel, decoder, config, occupant, ps2, rtc, pic, keyboard>>

(* init_idt: the first command word of each controller drops the requests it *)
(* has latched, then 48 entries are made and the table is loaded.  The       *)
(* breakpoint that follows returns with interrupts off as before.            *)
InitIdt ==
    /\ Step("init_idt", "rtc_init")
    /\ irr' = {} /\ isr' = {}
    /\ idt' = TRUE
    /\ UNCHANGED <<eflags_if, kernel, decoder, config, occupant, ps2, rtc, keyboard>>

(* Mutant: register C is left as a warm reset left it. *)
RtcInitUnread ==
    /\ Step("rtc_init", "get_time") /\ rtc_flag' = rtc_flag
    /\ UNCHANGED <<eflags_if, idt, kernel, decoder, config, occupant, ps2, periodic, pic, keyboard>>

(* rtc_init: reading register C acknowledges what was pending. *)
RtcInit ==
    /\ Step("rtc_init", "get_time") /\ rtc_flag' = FALSE
    /\ UNCHANGED <<eflags_if, idt, kernel, decoder, config, occupant, ps2, periodic, pic, keyboard>>

(* The rtc_reads of the mode and the time, each of which ends with sti. *)
GetTime == Sti("get_time", "periodic")

EnablePeriodic ==
    /\ Step("periodic", "components") /\ periodic' = TRUE /\ eflags_if' = TRUE
    /\ UNCHANGED <<idt, kernel, decoder, config, occupant, ps2, rtc_flag, pic, keyboard>>

(* eeprom_init, gpu_init (the screen first) and initrd_init. *)
AddComponents ==
    /\ Step("components", "ps2_init")
    /\ components' = components \o <<"eeprom", "screen", "gpu">>
                     \o (IF archive = "none" THEN <<>> ELSE <<"filesystem">>)
    /\ UNCHANGED <<eflags_if, idt, archive, keyboard_address, decoder, config, occupant, ps2, rtc, pic, keyboard>>

-----------------------------------------------------------------------------
(* ps2_init, port access by port access. *)
AddKeyboard ==
    /\ Step("ps2_init", "read_cli")
    /\ keyboard_address' = TRUE /\ components' = Append(components, "keyboard")
    /\ UNCHANGED <<eflags_if, idt, archive, decoder, config, occupant, ps2, rtc, pic, keyboard>>

(* Mutant: interrupts stay on while the answer is awaited. *)
ReadCliForgotten ==
    /\ Step("read_cli", "read_command") /\ eflags_if' = eflags_if
    /\ UNCHANGED <<idt, kernel, decoder, config, occupant, ps2, rtc, pic, keyboard>>

ReadCli == Cli("read_cli", "read_command")

ReadCommand ==
    /\ Step("read_command", "poll")
    /\ command' = "read"
    /\ occupant' = IF full THEN data.value ELSE controller
    /\ UNCHANGED <<eflags_if, idt, kernel, decoder, config, controller, response, data, full, rtc, pic, keyboard>>

(* Mutants: the buffer is not polled; the command is sent in the loop.       *)
PollOnce ==
    /\ Step("poll", "read_config")
    /\ UNCHANGED <<eflags_if, idt, kernel, decoder, config, occupant, ps2, rtc, pic, keyboard>>
PollAndSend ==
    /\ Step("poll", IF full THEN "read_config" ELSE "poll")
    /\ command' = IF full THEN command ELSE "read"
    /\ UNCHANGED <<eflags_if, idt, kernel, decoder, config, occupant, controller, response, data, full, rtc, pic, keyboard>>

Poll ==
    /\ Step("poll", IF full THEN "read_config" ELSE "poll")
    /\ UNCHANGED <<eflags_if, idt, kernel, decoder, config, occupant, ps2, rtc, pic, keyboard>>

(* The byte read by polling has asked for an interrupt too.  The request     *)
(* stays latched, or is dropped by a controller that wants its line held.    *)
ReadConfig ==
    /\ Step("read_config", "read_sti")
    /\ config' = data.value /\ full' = FALSE
    /\ irr' \in {irr, irr \ {Keyboard}} /\ isr' = isr
    /\ UNCHANGED <<eflags_if, idt, kernel, decoder, occupant, controller, command, response, data, rtc, keyboard>>

ReadSti == Sti("read_sti", "change")

(* Mutant: the translation bit is left as it was. *)
KeepTranslation(byte) == With(byte, 0)

(* The port's interrupt on, its translation off. *)
Configured(byte) == Without(With(byte, 0), 6)

ChangeConfig ==
    /\ Step("change", "write_cli") /\ config' = Configured(config)
    /\ UNCHANGED <<eflags_if, idt, kernel, decoder, occupant, ps2, rtc, pic, keyboard>>

WriteCli == Cli("write_cli", "write_command")

WriteCommand ==
    /\ Step("write_command", "write_config") /\ command' = "write"
    /\ UNCHANGED <<eflags_if, idt, kernel, decoder, config, occupant, controller, response, data, full, rtc, pic, keyboard>>

(* The loop ends when the controller has taken the command; switching the    *)
(* interrupt on lets a byte that is waiting ask for it.                      *)
WriteConfig ==
    /\ Step("write_config", "write_sti")
    /\ command = "awaits_data" /\ command' = "none"
    /\ controller' = config
    /\ IF full /\ Bit(config, 0) THEN RaiseLine(Keyboard) ELSE irr' = irr
    /\ UNCHANGED <<eflags_if, idt, kernel, decoder, config, occupant, response, data, full, rtc, isr, keyboard>>

WriteSti == Sti("write_sti", "start_lua")

(* Lua runs bios.lua if there is one; kmain halts if not. *)
StartLua ==
    /\ Step("start_lua", IF archive = "bios" THEN "lua" ELSE "halted")
    /\ eflags_if' = (archive = "bios")
    /\ UNCHANGED <<idt, kernel, decoder, config, occupant, ps2, rtc, pic, keyboard>>

(* Any other instruction. *)
RunLua ==
    /\ Step("lua", "lua") /\ ~due
    /\ UNCHANGED <<eflags_if, idt, kernel, decoder, config, occupant, ps2, rtc, pic, keyboard>>

(* bios.lua has ended, in whatever way: its message is shown and kmain halts. *)
EndLua == Cli("lua", "halted")

Kmain ==
    \/ InitIdt \/ RtcInit \/ GetTime \/ EnablePeriodic \/ AddComponents
    \/ AddKeyboard \/ ReadCli \/ ReadCommand \/ Poll \/ ReadConfig \/ ReadSti \/ ChangeConfig
    \/ WriteCli \/ WriteCommand \/ WriteConfig \/ WriteSti \/ StartLua \/ RunLua

-----------------------------------------------------------------------------
(* An interrupt that finds no table resets the machine. *)
Enter(line) ==
    /\ Interrupted /\ Acknowledged = line
    /\ irr' = irr \ {line} /\ isr' = isr
    /\ pc' = IF idt THEN pc ELSE "reset"
    /\ UNCHANGED <<eflags_if, idt, kernel, config, occupant, due, keyboard>>

(* ps2_interrupt, which reads the buffer whether it is full or not. *)
KeyboardInterrupt ==
    /\ Enter(Keyboard)
    /\ full' = FALSE
    /\ LET byte == data.value
           raw == RawCode(byte, flags)
           now == WithModifier(raw, flags)
       IN  \/ /\ byte = Break
              /\ flags' = flags \cup {"BREAK"} /\ in_buffer' = in_buffer
           \/ /\ byte = Extended
              /\ flags' = flags \cup {"EXT"} /\ in_buffer' = in_buffer
           \/ /\ byte \notin {Break, Extended}
              /\ flags' = now \ {"EXT", "BREAK"}
              /\ \E s \in KeySignals(raw, now) :
                     in_buffer' = IF keyboard_address /\ s # NoSignal /\ in_buffer < MAX_SIGNALS
                                  THEN in_buffer + 1 ELSE in_buffer
    /\ early' = flags' \cap (early \cup (IF data.early THEN flags' \ flags ELSE {}))
    /\ UNCHANGED <<controller, command, response, data, rtc>>

(* timer_tick reads register C. *)
RtcInterrupt ==
    /\ Enter(Rtc)
    /\ rtc_flag' = FALSE
    /\ UNCHANGED <<periodic, decoder, ps2>>

Handler == KeyboardInterrupt \/ RtcInterrupt

-----------------------------------------------------------------------------
(* The controller takes a command, answers it once its buffer is free, and   *)
(* only then goes on with keys, unless bit 4 switches the port off.          *)
Execute ==
    /\ \/ command = "read" /\ response' = controller /\ command' = "none"
       \/ command = "write" /\ command' = "awaits_data" /\ response' = response
    /\ UNCHANGED <<cpu, kernel, decoder, config, occupant, controller, data, full, rtc, due, pic, keyboard>>

Fill(byte) ==
    /\ ~full /\ full' = TRUE /\ data' = byte
    /\ IF Bit(controller, 0) THEN RaiseLine(Keyboard) ELSE irr' = irr
    /\ UNCHANGED <<cpu, kernel, decoder, config, occupant, controller, command, rtc, due, isr, down, latched, presses>>

Respond ==
    /\ response # Nothing
    /\ Fill(Byte(response, TRUE)) /\ response' = Nothing /\ wire' = wire

SendByte ==
    /\ wire # <<>> /\ response = Nothing /\ command = "none" /\ ~Bit(controller, 4)
    /\ Fill(Head(wire)) /\ wire' = Tail(wire) /\ response' = response

(* What a key sends under the present configuration. *)
Bytes(raw, up) ==
    IF Bit(controller, 6)
    THEN (IF raw >= 256 THEN <<Extended>> ELSE <<>>) \o <<Set1[raw] + (IF up THEN 128 ELSE 0)>>
    ELSE Scancodes(raw, up)

Configuring == pc \notin {"write_sti", "start_lua", "lua", "halted"}

TypeKey(raw, up) ==
    /\ presses < MaxTyped /\ (up => raw \in down)
    /\ presses' = presses + 1
    /\ down' = IF up THEN down \ {raw} ELSE down \cup {raw}
    /\ latched' = WithModifier(raw, latched \cup (IF up THEN {"BREAK"} ELSE {})) \ {"BREAK"}
    /\ wire' = wire \o [i \in DOMAIN Bytes(raw, up) |-> Byte(Bytes(raw, up)[i], Configuring)]
    /\ UNCHANGED <<cpu, kernel, decoder, config, occupant, ps2, rtc, due, pic>>

RtcTick ==
    /\ periodic /\ ~rtc_flag /\ due
    /\ rtc_flag' = TRUE /\ due' = FALSE
    /\ RaiseLine(Rtc)
    /\ UNCHANGED <<cpu, kernel, decoder, config, occupant, ps2, periodic, isr, keyboard>>

Controller == Execute \/ Respond \/ SendByte

Next ==
    \/ Kmain \/ EndLua \/ Handler \/ Controller \/ RtcTick
    \/ \E raw \in Key, up \in BOOLEAN : TypeKey(raw, up)

(* The processor, the controller and the clock chip run.  Nothing makes the  *)
(* user type or bios.lua end.                                                *)
Spec ==
    /\ Init /\ [][Next]_vars
    /\ WF_vars(Kmain) /\ WF_vars(Handler) /\ WF_vars(Controller) /\ WF_vars(RtcTick)

-----------------------------------------------------------------------------
Booted == pc \in {"lua", "halted"}

(* What ps2_init writes back is the firmware's configuration with two bits   *)
(* changed, unless a key's byte lay in the buffer when it sent its command:  *)
(* one that came before init_idt, whose reset dropped its request, one the   *)
(* firmware had given no interrupt, or one that came between cli and the     *)
(* command.  Then that byte is the configuration, and nothing else ever is.  *)
ConfigKept == Booted => controller = Configured(occupant)

(* Each key event queues one signal at most, although the interrupt that the *)
(* polled configuration byte asked for finds a stale byte in the buffer, and *)
(* although a byte taken for the configuration leaves the true one to be     *)
(* decoded: together these make one signal too many, never more.             *)
OnePhantomKey == in_buffer <= presses + 1

(* Keys typed before translation is off are decoded as other keys, and their *)
(* releases as none, and a prefix of theirs may be left over.  When all is   *)
(* decoded, a flag that is on although the keys held down do not account for *)
(* it was set by one of those and has stayed on since: no key typed later    *)
(* leaves a modifier stuck, even if a prefix left over spoils it.            *)
StuckOnlyEarly ==
    wire = <<>> /\ ~full /\ Keyboard \notin irr => flags \ latched \subseteq early

(* The boot ends: no handler takes the answer that ps2_init waits for, and   *)
(* none runs before it has a table to be found in.                           *)
LuaStarts == <>(pc = IF archive = "bios" THEN "lua" ELSE "halted")

(* Every byte in the buffer is read, by the handler or by ps2_init, even one *)
(* whose request was dropped or that never asked for an interrupt; and the   *)
(* clock ticks on after the boot, also when a reset has caught it with a     *)
(* tick that nobody had acknowledged.                                        *)
DevicesServed ==
    /\ full ~> ~full \/ pc = "halted"
    /\ []<>(rtc_flag \/ pc = "halted") /\ []<>(~rtc_flag \/ pc = "halted")
=============================================================================
