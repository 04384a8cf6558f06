# TLA+ models of lua-bare-metal

lua-bare-metal is a kernel for i386 PCs that boots straight into a Lua
interpreter and gives the Lua code an OpenComputers-like environment: a
`computer` library with a signal queue, components (screen, GPU, EEPROM,
filesystem) with methods, a keyboard. This directory holds TLA+ models of its
core, the TLC configurations that check them on small instances, and TLAPS proofs
of what matters most for every size. Source paths below are relative to
`src/src/`.

Contents: [the system](#the-system), [the modules](#the-modules),
[the runs](#the-runs), [fairness](#fairness), [proofs](#proofs),
[where the code disagrees with itself](#where-the-code-disagrees-with-itself),
[assumptions and limits](#assumptions-and-limits), [plan](#plan).

## The system

The kernel is single-threaded C. Concurrency comes from three interrupt lines
(PIT 0, keyboard 1, RTC 8) whose handlers run above the Lua thread and may nest.
There is no paging, no process and no disk; the only failure handling is
`assert`, which prints and spins for ever, and `luaL_error`, which leaves a C
function by `longjmp`.

| Component | State it keeps | Operations | Status |
|---|---|---|---|
| Signal ring, `api/computer.c:29-69` | `signal_buffer`, `in_buffer`, `buffer_pos` | `queue_signal` (Lua and the keyboard handler), `dequeue_signal` (Lua) | modelled, proved |
| Keyboard driver, `ps2.c` | static `flags`, `keyboard_address`, the controller's configuration | `ps2_interrupt`, `queue_key_signal`, `ps2_init` | modelled, proved |
| Interrupts, `interrupts.c`, `isr.S` | the two 8259s, IF, the stack of handlers | `isr_handler`, the stubs, `init_idt` | modelled, but for the printout of a fatal exception; proved |
| Boot, `main.c` | the block for the heap, how far the initialisation is | `kmain` | the block and the order of initialisation modelled, proved; `check_arg`, `message_traceback` not |
| Clock, `rtc.c`, `api/computer.c:183-209` | `jiffies_frac`, `uptime`, `epoch_time`, the chip's registers | `rtc_init`, `timer_tick`, `delay`, `beep`, `get_time`, `mktime` | modelled, proved |
| computer API, `api/computer.c`, `uuid.c` | names and keys on the heap, tables in the Lua registry | `push_signal`, `pull_signal`, `free_signal` | modelled, proved |
| Initial ramdisk, `component/initrd.c` | the list of open files | `open`, `close`, `read`, `seek`, `list`, `exists`, `size`, `isDirectory`, `lastModified` | modelled, proved |
| Archive reader, `tar.c` | an iterator | `open_tar`, `next_file`, `tar_find`, `oct2bin` | modelled, proved |
| GPU, `component/gpu.c` | colours, the stored cells | `gpu_init`, `set`, `fill`, `copy`, `setBackground`, `setForeground`, `gpu_error_message`, getters | modelled except getters; proved |
| VGA text driver, `component/vgatext.c` | video memory | `set`, `copy` | modelled, proved |
| VGA graphics driver, `component/vgagraphics.c` | frame buffer, font | `set`, `copy`, `rect`, `setPixel`, font loader | modelled, proved |
| EEPROM, `component/eeprom.c` | data, contents | `getData`, `setData`, `get` | modelled, proved |
| Component registry, `api/component.c` | list of components, each with a list of methods | `new_component`, `add_method`, `add_component`, `list`, `type`, `methods`, `invoke`, `proxy` | modelled, proved |
| unicode, `api/unicode.c` | none | `len`, `sub`, `wtrunc`, `charWidth` | modelled, proved |
| Runtime stubs, `stubs.c` | none | `__udivmoddi4`, `__assert_fail`, what newlib asks for | the division modelled, proved |
| os, `api/os.c`; entry and linking, `init.S`, `kernel.ld` | none that later code tests | | not modelled |
| libc, libmemory, arith64, Lua | | | git submodules, empty here; external |

How they interact: `kmain` runs the initialisers in order and then Lua. Lua calls
the C functions of `api/` and, through `component.invoke`, those of `component/`.
The keyboard handler calls `queue_signal`, which Lua calls too: the ring is the
one structure that both sides write. The RTC handler writes the clock, which
`delay`, `realTime` and `uptime` read with interrupts on. `push_signal` and
`pull_signal` share the C heap and the Lua registry with everything else, the
eeprom's `setData` among them; the initrd shares the C heap. The drivers register
components at boot, which `component.invoke` and proxies look up later.

Which behaviours are hard, and what makes each component correct:

* **Signal ring.** `queue_signal` ends with an unconditional `sti`, also inside the
  keyboard handler, and `dequeue_signal` tests `in_buffer` before its `cli`. The
  ring is right if it is still a bounded FIFO queue under every interleaving, the
  decoder's static flag byte has one user at a time, and nothing returns to Lua
  with interrupts off.
* **Keyboard.** Prefix bytes set flags for one byte, modifiers for many. Right if
  each key event comes out once, in order, as its own signal, and the flag byte
  follows the keys held down.
* **Interrupts.** Non-specific ends of interrupt retire whatever line has the
  highest priority in service. Right if that is always the sender's.
* **Boot.** Unsigned subtractions and sums in a small address space. Right if the
  heap is memory and spares the kernel, the header and the initrd. Interrupts come
  on half way through the initialisation, as a side effect of reading the clock
  chip, and the keyboard controller is reprogrammed while the user types. Right if
  the boot ends, every device is served afterwards, and what was typed meanwhile
  does no lasting harm.
* **Clock.** Two counters are read one after the other while a tick may change
  both; the chip updates while it is sampled. Right if waits are not too short,
  not too long and end, and the sampled time is one the chip showed. 64-bit numbers
  are divided by shifts that go to the top bit and back.
* **computer API.** A Lua error or a failing allocation leaves a C function in the
  middle; a key interrupt may fill the queue in the middle. Right if every signal
  alive owns its memory alone, nothing else stays allocated, and what is pulled is
  what was pushed.
* **Initrd.** Handles are numbered from the newest open file and reused. Right if
  no two open files share a handle, other files' opens and closes do not disturb a
  file, and lookups land on headers and not in the middle of a file.
* **GPU and drivers.** The stored cells duplicate video memory, as characters or as
  the pixels of their glyphs; overlapping copies, clipping, a font that is read
  digit by digit. Right if the two agree and a copy is the copy that was asked for.
* **EEPROM.** `setData` frees before it allocates and fails by `longjmp`. Right if
  the string kept is the last one stored, and shares no memory with a signal.
* **Component registry.** Lists linked by hand in memory that is not cleared, and two
  calling conventions for one method. Right if a component is found with exactly its
  methods, and a method sees the same arguments either way.
* **unicode.** Positions clamped, decremented and converted between characters and
  bytes. Right if strings are cut where their characters are.

The list of hazards with their lines and properties is in `PROJECT.json`.

## The modules

A machine instruction or memory access is one step where an interrupt may fall
between two of them and the order matters; otherwise a whole C function is one
step. Variables and operators keep the source's names (`in_buffer`,
`QueueSignal`). Operators commented "Mutant" are plausible bugs: replacing a
definition by its mutant must make the named property fail (`PROJECT.json`,
`mutants`).

| Module | Models | Notes |
|---|---|---|
| `BoundedQueue` | abstract specification | what callers of the ring rely on: a FIFO queue that refuses when full |
| `SignalRing` | `queue_signal`, `dequeue_signal` as atomic steps | implements `BoundedQueue` with `queue <- Contents`, the slots from the oldest on |
| `Pic` | the two 8259s as `init_idt` programs them | external hardware except `EndOfInterrupt` |
| `Ps2Decode` | `queue_key_signal`'s tables and flags | an out-of-table read (F7, 0x83) yields any character |
| `SignalIrq` | the Lua thread in `push_signal`/`pull_signal`, the three handlers, IF, keyboard, timers | `stack` is the stack of activations, each with its `pc`; implements `SignalRing` with the counters as of the last completed `signal_buffer` access (`CommittedCount`, `CommittedPos`) |
| `Boot` | `kmain` from `init_idt` to Lua and its end, `ps2_init` port access by port access, `rtc_init`, the keyboard controller, the user, the clock's interrupts | composes `Pic` and `Ps2Decode`; a handler is one step, as `SignalIrq` shows that handlers do not interfere |
| `BootMemory` | `kmain`'s scan and three cuts | `UINTPTR_MAX` is a constant, sums wrap at it |
| `RtcRead` | `get_time` against a chip that carries from register to register | an update of the chip lasts any number of register reads: the empty loop of `rtc_read` may be gone at the Makefile's `-O2`; `under` and `halfway` are history variables that `NotTorn` speaks of |
| `Timer` | `timer_tick`, `delay`, `beep` | `READS` reads of the clock lie at least between two ticks; `fault` is the loop after the exception that a frequency of 0 raises |
| `RtcDate` | `rtc_init`'s mode flags, `convert_bcd`, the hours, `mktime` | the chip runs through every hour of some years |
| `Udivmod` | `__udivmoddi4`, one step an iteration | `Power` is the table of the powers of two up to the word's width |
| `Clock` | composes `RtcRead`, `RtcDate`, `Timer` and `Udivmod` | a behaviour is one call, since at boot nothing ticks and the others do not overlap |
| `Tar` | archives in blocks, `next_file`, `tar_find`, `oct2bin` | recursion as folds or recursive functions |
| `Initrd` | every method of the filesystem component that looks a name up or touches an open file | heap as a number of cells, of which iterators, open files and a path with its slash added take one each; `halted` is `__assert_fail`'s loop |
| `Eeprom` | `setData`, `getData` and the C heap they share with signals | `malloc` may fail at any time |
| `LuaSignals` | `push_signal`, `pull_signal`, `free_signal` step by step | registry tables; the ring is the FIFO queue `SignalRing` was shown to implement; composed with `Eeprom` |
| `Components` | the lists of components and methods, `list`, `type`, `methods`, `invoke`, `proxy` | the registration is step by step, the Lua functions are operators, as they only read; what a loop over a list meets is a set of nodes, as its order reaches nobody |
| `Unicode` | the `unicode` library on bytes | compared with its meaning on characters |
| `LuaApi` | composes `LuaSignals`, `Components` and `Unicode` | a behaviour is about one of the three, which share no state |
| `VgaGraphics` | the font loader, `rect`, `setPixel`, `set` | a pixel is a number modulo 2^32; the font file is a sequence of digits, colons and newlines, loaded line by line whatever it holds |
| `Gpu` | `gpu.c` on the text or the graphics driver | a call that draws is one step; `outside` stands for a copy that leaves the arrays, after which nothing is claimed; `disturbed` holds the cells of the graphics screen that a copy over its side has reached |
| `*MC` | constants for TLC | |
| `SignalRingProofs`, `SignalIrqProofs`, `BootProofs`, `BootMemoryProofs`, `ClockProofs`, `InitrdProofs`, `LuaApiProofs`, `GpuProofs` | proofs | each extends the module it is about |

Some correspondences that are not one to one:

* `SignalIrq.Interrupted`: an interrupt that is pending and enabled is taken before
  the next instruction. `Iret` stands for `sti; iret`, as `sti` takes effect after
  the following instruction.
* `SignalIrq.due`, `Boot.due`: a timer may tick again only after the interrupted code
  has made progress. Without it the timers alone could starve Lua, which at their
  rates they cannot.
* `SignalIrq` starts where `Boot` ends, after `ps2_init` and `rtc_init`.
* `Boot.GetTime`: the loader hands over with interrupts off, and no line turns them on
  to start the system. The `sti` at the end of `rtc_read` does, in `rtc_init`: with
  `init_idt` before it, as `kmain` has them, a handler finds its table.
* `Boot.InitIdt`: the first initialisation word makes an 8259 forget the requests it
  has latched. A key pressed before stays in the controller's buffer without a
  request.
* `Boot.ReadCommand`: `ps2_init` polls for any byte. If a key's byte lies in the buffer
  when the command is sent, that byte is taken for the configuration, changed in two
  bits and written back (`occupant`). With bit 4 set it switches the keyboard off.
* `Boot.ReadConfig`: the byte that is polled has asked for an interrupt too, which some
  8259s drop when the byte is read and others deliver. The handler then decodes
  whatever the buffer held last.
* `Boot.Bytes`: until translation is off, keys arrive in set 1 and are decoded as set 2. The
  prefix E0 is the same in both, and an extended key keeps it.
* `Initrd.ReadBounded`: `initrd_read` declares its count uninitialised; it is any
  value of `Counts`.
* `LuaSignals`: `NewUuidHalts` is the assertion in `new_uuid`.
* `RtcRead.Wait`: `get_time` polls bit 7 of register **B**, which nothing sets. The
  chip's update flag is bit 7 of register A, so the poll never waits.
* `SignalIrq.latched`: what the user means by the keys held down, said without the
  decoder: a modifier counts if one of its keys is down that was pressed after the last
  release of the other one (`lifted` holds those that were not). `Held` are the keys
  held when a behaviour begins, which is in the middle of a session.
* `Components.Invoke`: a method sees the Lua stack from `arguments_start`, 3 for `invoke`
  and 1 for a proxy. `FixedStart` holds the one method that reads index 3 whatever it
  is given.
* `Unicode.UnicodeSub`: negative indices are clamped and then converted by
  `offset_to_bytes`, for which everything up to 0 is the beginning. They do not count
  from the end, as in Lua's own `sub` (`NegativesFromEnd`, run `unicode_sub`).
* `Unicode.SizeT`: `wtrunc` stores a 64-bit `lua_Integer` in a 32-bit `size_t`, so a width
  of 2^32 is none and a negative one is large. `SizeMod` is 2^32, and 8 in the runs.
* `Initrd.SeekTo`: a whence that is none of the three is no error; the position stays.
* `Gpu.UnicodeToCp437`: a code below 256 (`ByteLimit`) is written as it is, whatever glyph
  code page 437 has there; the tables are asked for the others only.
* `Gpu`: the glyph of `Space` must be blank (`GpuAssumption`), since the graphics screen
  starts as plain background.
* `Gpu.Describes` says what a font file is, which is not in the repository: each line a
  code point, a colon and two digits for each row, code points that are too large in the
  last lines. `Glyphs` is what it describes; a row that the file does not give is blank.
  TLC evaluates it for every file of the run.
* `Gpu.Inside`: a copy is followed as long as its rows stay in the arrays, over the sides
  of the screen too. On the text screen such a copy moves the same cells in both arrays.
  On the graphics screen `stored` goes on in the next row of characters and the frame
  buffer in the next row of pixels, so that the two disagree. `Reached` are the cells that
  either of the two moves writes to; they are `disturbed` until they are drawn, or copied
  to from cells that are not (`Carried`). `Mirror` claims nothing of them, and holds of
  all others.

## The runs

| Run | Bounds | Question, and what the answer is |
|---|---|---|
| `ring` | 3 slots, 2 signals | Is the ring a bounded FIFO queue (`FifoQueue`), never exposing an empty slot (`TypeOK`)? Yes. |
| `signal_interrupts` | 2 slots, all three lines, 1 Lua signal, both shifts, the right one held from the start, and the right arrow, 2 key events | Does that survive interrupts (`AtomicRing`)? Is no line entered again before its end of interrupt (`NotReentered`)? Does each end of interrupt retire its own line (`InService`)? Are interrupts on whenever Lua is outside the ring (`InterruptsOn`)? Do the signals follow the key events (`KeysInOrder`)? Yes. Do the flags follow the keys (`FlagsFollowKeys`)? But for one case: of two keys of a modifier, the release of one takes it away from the other. |
| `signal_liveness` | as above, the letter A only, nothing held | Is every byte read and every RTC tick served (`InterruptsServed`), does every push and pull return (`CallsReturn`)? Yes, under the fairness below. |
| `boot` | the letter E, shift and the right ctrl, 3 key events, a ring of 4, firmware that leaves the keyboard's interrupt on or off, a clock tick pending or not | Is the configuration written back the one that was read (`ConfigKept`)? Yes, unless a key's byte lay in the buffer when it was asked for. How many signals do stray bytes cost (`OnePhantomKey`)? One at most. Which flags can be left on (`StuckOnlyEarly`)? Those that a byte of a key typed before `ps2_init` is done has set. Does the boot end in Lua (`LuaStarts`), and is every device served from then on (`DevicesServed`)? Yes. |
| `boot_memory` | 8 addresses; maps of 1 or 2 regions that may touch, cross or exceed the last address; objects of 1 or 2 bytes anywhere | Does the heap spare what was loaded (`HeapSparesLoaded`), is it memory (`HeapIsMemory`), and when exactly does `kmain` halt instead (`HaltsIffLoadedAbove`)? It halts when an object ends at or above the end of the largest region, in it or not. |
| `clock` | `get_time`: 3 registers of 4 values, 3 updates in a call, an update lasting any number of reads. `delay`: 4 jiffies a second, a 16-jiffy word, 3 reads between ticks, durations -6..11. Dates: every hour of 2002-2005, 12-hour binary and 24-hour BCD. Division: every pair of 5-bit words | Is the sampled time one the chip showed (`NotTorn`)? Yes, unless one update of the chip, which has already changed the seconds, lasts over the start of both samples; then it may be a time from the middle of that update. How far is a wait off (`WaitLength`)? Short by at most the second that starts between two reads, long by the one extra tick of each second and two more. How far is `epoch_time` off (`AtMostADayAhead`)? A day in leap years except in March, twelve hours in the afternoon in 24-hour mode; nowhere else. Is the division exact (`DividesExactly`)? Yes. Do `get_time` and `delay` return (`CallsEnd`)? Yes. |
| `rtc_leap` | 2003-2004 | violation, see below |
| `initrd` | 2 archives, 8 paths, blocks of 2 bytes, `size_t` modulo 8, 5 heap cells | Are handles unique (`HandlesUnique`) and stable (`HandlesKept`), do lookups land on whole files (`Aligned`), does `list` return the directory (`ListExact`), where may a read end (`ReadBounded`)? Yes; a read may end up to twice its start position behind the file. |
| `initrd_assertion` | as above, 4 heap cells | violation, see below |
| `lua_signals` | Signals: 5 blocks, 4 keys, queue of 2, signals with 0, 1 and 2 arguments, 2 strings for the eeprom. Components: four parts with 0 to 3 methods. Texts of up to 3 characters of 1 and 2 bytes, NULs and a character cut short; indices -5..9, `size_t` modulo 8 | Does each signal, and the eeprom, own its memory (`SignalsOwn`), is nothing left behind except when memory ran out (`LeaksOnlyOutOfMemory`), is what is pulled what was pushed (`PulledAsPushed`), and does `getData` return what was stored (`DataKept`)? Is each component found with its methods and does each method see its arguments (`CallsAgree`)? Are strings cut by character (`SlicesByCharacter`)? Yes, with the exceptions the properties name: `getPaletteColor` through a proxy, negative indices of `sub`, a leading NUL, widths of 2^32 and more. |
| `unicode_sub` | as above | violation, see below |
| `gpu` | 3 by 3 cells, 3 colours of 4 shades a channel, text or glyphs of 2 by 2 pixels on 7 by 6 pixels, font files with and without a final newline or none, copies on the screen and over each of its sides, 2 drawing calls and colour changes before the last | Do the stored cells and the screen agree (`Mirror`)? As text, yes; as graphics, but for the cells that a copy over a side has reached. Is a colour the nearest (`ClosestColor`), a copy exact whatever the overlap (`CopyExact`), a string confined to its line (`SetStaysInLine`)? Yes. |

Why the bounds are enough:

* Ring: three slots wrap several times, and the theorem covers every size.
* Interrupts: the nesting depth is three, one per line, whatever the number of
  keys. Two slots let the ring be empty, partly full, wrapped and full. Two key
  events fill a ring that Lua also fills and exercise a prefix followed by a code,
  a modifier followed by a key, and a release. Shift and the arrow are a plain
  modifier and an extended key that also has a character; with the right shift held,
  two events release one shift while the other is down and press it again.
* Boot: the controller's buffer holds one byte, and the keyboard's own queue can only
  delay others. Three events let one byte lie in the buffer, one follow on the wire,
  and one come after the configuration. E is the worst key: its set 1 code is shift
  in set 2, and as a configuration it has bit 4 set. The right ctrl is an extended key:
  its prefix is left over when its second byte is taken for the configuration, which
  again has bit 4 set. Four slots let the phantom signal be counted.
* Heap block: two regions suffice, since the scan compares only the best so far with
  the next. Every relative order of the ends of two regions and three objects occurs.
* Clock: torn samples need a carry chain of two registers that overtakes the reads;
  three registers read out of carry order have it, in one update or in several. With
  waits of up to almost three
  seconds the deadline wraps within a second and passes several. `mktime` depends on
  the year modulo 4 and modulo 400; 2000 and 2100 are not in the range, a chip with
  two digits counting 2000 to 2099. The division is proved for every width.
* Initrd: five cells give two or three open files besides leaked iterators, enough
  for opens and closes out of order, which the theorem then covers for any number.
* Lua signals: two queued signals, one in a call and one leaked exhaust the blocks,
  which makes every allocation fail in some behaviour.
* Components: no, one and three methods are the three cases of linking at a list's
  end, and four components those of the outer list.
* Texts: three characters put a NUL, a wide character or a cut one at the start, in the
  middle and at the end; the indices exceed the length on both sides, and
  the modulus of `size_t`.
* GPU: two drawing calls let the second (a copy) move what the first drew; three
  columns give overlap in every direction and an edge on every side. Of the copies over
  a side some stay inside the arrays and some leave them; the second call then draws on
  what the first disturbed, or copies it. The frame buffer
  has a column that no character covers. The font has a glyph with too many rows, one
  with too few, none, and a code point beyond its end.

Deadlock is checked for the ring and the interrupts, which never stop; the other
models end (a call returns, `kmain` halts, the heap is used up, the bounds of calls
or years are reached).

## Fairness

* `SignalIrq`: `WF(Cpu)`, the processor executes instructions; `WF(SendByte)`, the
  controller delivers what the keyboard has sent. Nothing obliges Lua to push, the
  user to type, or a timer to tick. Strong fairness is not needed: the processor
  always has a next instruction.
* `Boot`: `WF(Kmain)` and `WF(Handler)`, the processor executes; `WF(Controller)`, the
  keyboard controller answers commands and delivers bytes; `WF(RtcTick)`, the chip
  ticks once it was told to. Nothing obliges the user to type, nor `bios.lua` to end.
* `Clock`: `WF` of `GetTime` and `Delay`, the processor again; of `Carry`, an update
  that has begun ends; of `Tick`, the RTC keeps ticking because `timer_tick` reads
  register C each time, which `signal_liveness` shows (`InterruptsServed`).
  `MaxUpdates` stands for the chip updating once a second while a sample takes far
  less. Each is restricted to the call the behaviour is about.
* The other modules state safety only.

## Proofs

The theorems hold for every value of the constants that satisfies the named
assumptions in the modules.

* `SignalRingProofs`. Assumption: at least one slot, and the empty slot is not a
  signal. `TypeCorrect` and `RingIsFifo`. The type invariant without its last
  conjunct is not enough: that the slot `dequeue_signal` reads holds a signal
  needs all of the slots from `buffer_pos` on for `in_buffer` places, modulo the
  size, to hold one. That is the inductive invariant. For the refinement each
  action maps to its namesake on `Contents`: a queue appends, since the other
  positions are different residues; a dequeue drops the head, since position `i`
  of the new contents is position `i + 1` of the old.
* `SignalIrqProofs`. Assumptions: the lines are 0, 1 and 8 or fewer but with the
  keyboard's, the name of the Lua thread is none of theirs, and Lua's signals are not
  the empty slot. `NeverReentered`, `ServedIsOnStack`
  and `InterruptsComeBack`. The three depend on each other: a handler is not entered
  again because the controllers hold its line in service; they do because each end of
  interrupt retires its sender's line; that is so because of what can be on the stack.
  `IrqInv` says it all at once: below the running handler there are only Lua and
  keyboard handlers past the `sti` of `queue_signal`, all but one of them done except
  for their `iret`, that one under the PIT's; interrupts are off in each section; and
  the in-service register is what these frames have not ended.
* `SignalIrqProofs`, second part: the keyboard. Assumptions: besides those, a key is a number below 512 whose code
  is not a prefix byte, and no byte is the empty buffer. `FlagsAreHeldKeys`,
  `DecodedInOrder` and `RingIsAtomic`. `FlagsAreHeldKeys` has the exception that
  `FlagsFollowKeys` states: the decoder keeps one flag for the two keys of a modifier.
  - Between the user and the decoder a key event lies spread over a prefix in the flag
    byte, a byte in the controller's buffer and bytes on the wire. `KeyInv` reads them
    as one stream, which must be the scancodes of the events not yet decoded, with the
    modifiers that each of them will find. It asks for a set of such readings that is
    closed under taking the first event off (`Reads`), so that no induction over the
    stream is needed.
  - `RingIsAtomic` is the refinement. A call takes effect at its copy to or from
    `signal_buffer`, the counters follow later, and `CommittedCount` and `CommittedPos`
    are the counters as they would then be. `RingInv` says that only the running frame
    can be between the copy and the counting, and that room, or a signal, is still
    there at the copy: for `dequeue_signal`, which tests `in_buffer` before its `cli`,
    because interrupts only add signals. With `RingIsFifo`, which holds of every
    instance of `SignalRing`, the ring under interrupts is a FIFO queue.
* `BootProofs`. Assumptions (`BootAssumption`): keys are known ones, bytes are bytes.
  `ConfigIsKept`, `OnePhantomAtMost` and `OnlyEarlyStuck`, for any keyboard, firmware
  and amount of typing.
  - `ConfigInv` follows the byte that `ps2_init` takes for the configuration: from the
    `cli` before its command on, the byte in the buffer, if there is one, is the one
    that is read, and otherwise the controller's answer is on its way.
  - `CountInv` counts the signals that the bytes still under way can become, with one
    credit for the answer that is decoded or the key's byte that is not.
  - `FlagInv` compares the flags with those of a decoder that starts afresh at the first
    byte of a key typed after `ps2_init`: those it does not have were set early.
  The last two speak of a wire that grows and shrinks; they say that a function on its
  positions exists that is consistent from each position to the next.
* `BootMemoryProofs`. Assumptions: extents are non-empty and within the address
  space; map entries are natural numbers. `TypeCorrect`, `HeapInMemory`, `HeapSafe`
  and `HaltsIff`. The invariant follows the block: once the kernel is cut the block
  is the non-empty upper end of one available region that does not wrap, and lies
  past every object cut so far. `CutCases` shows that the unsigned subtraction does
  not wrap when the test before it passes.
* `InitrdProofs`. `HandlesDiffer` and `HandlesStay`, for every archive and any number
  of calls. Uniqueness is not inductive, as `initrd_open` compares with the newest file
  only. What is kept is that handles fall strictly from the head of the list on;
  `close` removes one element and keeps the order. So `find_open_file` finds the one
  place that has the handle. An open shifts every other file up by a place, a close
  those behind it down by one, and a read or a seek changes one position only; each
  file is found again under its handle (`HandlesStay`).
  - `FilesAreWhole`. Assumption: sizes fit the header's field (`Fits`). `OctalIsRead`
    says that `oct2bin` reads what `tar` wrote, `Places` where each header lies, and
    `GoesOn` that `next_file` steps from the header of one file to that of the next,
    whatever the contents in between look like. What a lookup's loop finds follows by
    induction over the blocks, from the end of the archive (`FindsHeader`). `AlignInv`
    is that every open file is one that was found so.
  - `ListsAreExact`. Hypothesis: archives are tidy (`Tidy`): names, which are sequences of
    parts and slashes, are whole without their prefix, distinct, without empty parts or a
    leading slash, and each directory comes
    before what is in it, as `tar` writes them. TLC evaluates it for the run's archives
    (`TidyAssumption`). `ListedIs` and `DirectlyBehind` relate the code's test, a prefix
    and a slash nowhere but at the end, to being directly in the directory.
  - `ReadStaysNear` bounds where a read ends, whatever `count` held and wherever Lua has
    sought to; the file's size is that of the archive by `FilesAreWhole`.
* `ClockProofs`. One part for each call of `Clock`, with an invariant of its own; a last
  part shows that the call that runs leaves the variables of the others alone.
  - `NeverTorn`. Assumptions: registers are read in some order without repetition that
    begins with the seconds, as `get_time_unchecked` does, and there are fewer updates in
    a call than values of a register. There is no assumption on how long an update lasts:
    `rtc_read` waits in an empty loop that the repository's `-O2` need not keep, and
    without it all registers may be read twice within one update. `SampleInv` counts
    how many updates each register is ahead of the first sample; equal samples of the
    seconds leave none, or the update that the first one lay in is not over, and then
    equal samples are what the registers held when the second one began (`halfway`).
  - `WaitsLongEnough`. Assumptions: two seconds' jiffies fit into `jiffies_frac`'s word,
    durations do not overflow 64 bits, and at least three reads of the clock fit between
    two ticks. `TimerInv` says what is left of a wait at each poll.
  - `DayAheadAtMost`, for all of 2000 to 2099, month by month. Hypothesis (`Understood`):
    register B has a value that the shifts in `rtc_init` tell apart, 2 to 7 among them.
    The others, with which BCD is taken for binary or the reverse, are not in the runs
    either.
  - `DivisionExact`. Assumption: `Power` is the table of the powers of two up to
    2^`BITS`. While the divisor is shifted up, `den` is the divisor times the bit, and
    one more doubling stays in the word as the top bit was clear. On the way down the
    quotient times the divisor plus what is left is the dividend, and less than twice
    `den` is left; when the bit falls out, less than the divisor.
* `LuaApiProofs`, the signals. Assumptions: `NULL` is not a block, and arguments are
  sequences. `SignalsOwnAlone`, `NothingLeaks`, `DataStaysKept` and `PulledIsPushed`, for
  any memory, strings and arguments and a queue of any length, whichever allocations fail and whenever a key interrupts. `SignalsOwn`
  is not inductive: it says nothing about the key that a signal holds between
  `new_uuid` and `strdup`, when the signal is of no kind yet, nor that two keys differ,
  without which freeing one signal would take another's table out of the registry.
  `OwnInv` adds both: what each signal holds is in use and apart from every other's and
  the eeprom's, keys are distinct, and a table is filed under each but between `strdup`
  and the loop that stores the arguments. For leaks the converse is kept too
  (`Accounted`): each block and each table has an owner. That holds in the middle of a
  call, where `LeaksOnlyOutOfMemory` claims nothing. `DataStaysKept` follows as no
  other call's free reaches the eeprom's block. For `PulledIsPushed`, which is about what
  a signal's blocks and table hold, `Carried` says for each signal alive how much of what
  it was pushed with they hold so far, and that ownership keeps everybody else away.
  `SignalsAreRun` maps the steps of the whole interface to steps of the signals or
  stutters, so that all four hold of it (`SignalsKept`).
* `LuaApiProofs`, the registry: `CallsReachMethods`. Assumptions (`ComponentsAssumption`):
  addresses are distinct, and so are the methods of one component; `NULL` is no node.
  `RegistryInv` says which nodes each list has at each moment of the registration and
  where each of them points. Each loop over a list is a recursive function on nodes;
  going back from the last node, it gives those that were registered (`NodesAre`).
* `LuaApiProofs`, texts: `SlicesAreByCharacter`. Assumptions (`UnicodeAssumption`): a
  character is a lead byte of its own and continuation bytes, no character starts with a
  continuation byte, and one that is cut short lacks a byte. The bytes of a text are its
  characters' bytes joined (`BytesJoined`), and `Start(text, k)` is where the `k`-th
  character ends. Each loop of `unicode.c` is at `Start` of its rounds, or at -1 once it
  has met a character cut short (`RoundsFollow`, `SkipsVisit`, `WalksFollow`); so every
  position at which `sub` and `wtrunc` cut is one between characters. Of negative indices
  of `sub` only the failure on invalid text is claimed; what they mean is not what the
  code computes (run `unicode_sub`).
* `GpuProofs`. Assumptions (`GpuAssumption`): a screen with at least one cell, a palette
  that is not empty and whose length an `int` holds, integers for arguments, a font file
  as `Describes` says. `VgaGraphicsAssumption` spells out two facts about powers of two
  up to the width of a glyph, since the provers know nothing of `^`; TLC evaluates them.
  - Rows are moved and colours compared by folds. A fold is a function on sets that is
    chosen to satisfy its equation, so it has to be shown that there is one. The provers
    cannot use the library's induction theorems, which take a predicate; `Induction`
    says the same of a set of numbers and follows from the well-foundedness of `<`.
    `MoveRowsSteps` and `FindClosestSteps` then give the fold's value after each step.
  - `CopiesExactly`: inside the screen every cell of the target ends with the old
    contents of its source, and the others keep theirs, however the two overlap. The
    induction is over the rows that are done; the order in which they are taken is what
    keeps a row from being overwritten before it is read.
  - `ScreenShowsStored`, which is `Mirror`, with its exception for the cells that are
    `disturbed`. On the text driver (`TextShowsStored`) each
    cell of a moved array is one and the same cell of the old array whatever the array
    holds (`MovedCells`), so `stored` and video memory stay images of each other.
  - On the graphics driver the invariant is `Graphics`: what is stored are characters,
    blank ones until the font is read; the font is the file's, or empty; and each pixel
    is that of its cell's glyph. Drawing is a fold over the addresses in an order that
    nobody knows; after each of its steps the pixels of the addresses taken so far are
    drawn and no other has changed (`DrawnPixels`), as glyphs do not overlap
    (`GlyphFits`). A copy of cells is one of pixels, scaled (`CopiedPixels`): both follow
    from `CopiedGrid`, which is about rows of any length. Where they lie on
    the screen, a copied cell's pixels come from the cell it was copied from, and are
    disturbed if that one was. Where they do not, `Unreached` shows that no pixel of a
    cell outside `Reached`, nor the cell itself, is written.
  - `FontsRead`: the font that the loader reads has the glyphs that the file describes.
    By induction over the file's lines from the last (`LinesLoad`): what they give is
    what they describe, and no row of theirs is missing, the last row of a file without
    a final newline included, whose last digit is its end.
  - `LinesKept`: each cell has one address (`Cells`), so a line meets no other.
  - `NearestIsFound`, and `ColorsAreIndices`, which is `TypeOK`: no index is past the
    palette, as drawing takes current colours, a copy brings old ones, and a negative
    index is too large for the comparison with a `size_t`.

Only model-checked: liveness (`InterruptsServed`, `CallsReturn`, `LuaStarts`,
`DevicesServed`, `CallsEnd`), as fairness and ENABLED are out of the prover's reach.
Every other property of a passing run is stated by a theorem. What a loop computes is
written as a fold or a recursive function on numbers; that this function exists, and its
values, are shown by the well-foundedness of `<` on a set of numbers (`Induction`), since
the provers cannot use induction theorems that take a predicate.

## Where the code disagrees with itself

Runs that end in a violation, each of one claim that the source makes:

* `rtc_leap`: `mktime`'s comments (`rtc.c:78`, `:83`) say leap years are accounted
  for. The leap day is counted from January, and again from April.
* `initrd_assertion`: `open_tar` asserts that there is memory for an iterator
  (`tar.c:9`). None of its callers frees one, so lookups alone halt the machine.
* `unicode_sub`: `sub` is "translated from OpenComputers' source code"
  (`api/unicode.c:98`), where a negative index counts from the end of the string. Here
  `offset_to_bytes` makes the beginning of it: `sub("a", -5, -1)` is empty.

More deviations are pinned down by properties that hold:

* `main.c:149`, `:157` and `:173` assert that a cut leaves something, without
  asking whether the object is in the block. An object loaded above the largest
  region costs it nothing and halts the kernel all the same (`HaltsIffLoadedAbove`).
* `rtc.c:17` and `:18` shift register B where a mask was meant. On a chip in
  24-hour mode, the firmware's default, afternoons come out twelve hours early
  (`AtMostADayAhead`). Bit 6, once set, defeats both flags, which `rtc_init` sets
  itself and a warm reset may leave on; that is not in a run.
* `rtc.c:118` and `:120` poll a bit that never changes, and the second sample that is
  to catch an update may lie in the same one: compiled with `-O2`, without the loop at
  `rtc.c:34`, the time may be one from the middle of an update (`NotTorn`).
* `component/gpu.c:325`, `:328`, `:331` and `:334` subtract a negative overhang: a copy
  over the right or lower edge gets longer instead of shorter. `gpu.c:294` declares such
  copies undefined behaviour and the documentation's fault, so this is not listed as a
  disagreement. Its consequence is that screen and `gpu_get` disagree on the graphics
  driver, in the cells that `Mirror` excepts.
* `component/gpu.c:465` compares a `char`, which is signed, with a blank: the bytes of a
  character beyond ASCII in an error message leave a gap each (`Message`).
* `ps2.c:278-300` keep one flag for the two keys of a modifier: with both shifts held,
  the release of one ends the capitals of the other (`FlagsFollowKeys`).
* `ps2.c:213-215` sends its command without emptying the controller's buffer. A key
  pressed early in the boot can become the configuration, and may leave the keyboard
  dead (`ConfigKept`, `StuckOnlyEarly`, `OnePhantomKey`).
* `component/gpu.c:160` reads index 3 whatever `arguments_start` is: through a proxy,
  `getPaletteColor` does not see its argument (`CallsAgree`).
* `api/unicode.c:58` takes the width of `wtrunc` modulo 2^32 (`SlicesByCharacter`).

## Assumptions and limits

* `initrd_init` never sets `open_files`; the model takes fresh memory to be zero.
* Live uuids are distinct, as a comment in `push_signal` relies on.
* The order of C's initialisers in `get_time_unchecked` is taken as written.
* Behaviour after memory outside an array was written is not followed. Pixels beside
  the cells of the graphics screen, which are never drawn, start as background.
* `int` overflow in `gpu_fill`'s far corner is taken to wrap.
* The types of arguments that Lua passes, and the checks on them, are left out; so
  are formatting, logging and the Lua stack's size. UTF-8 is decoded in `Unicode`; in
  `Gpu` a sequence is valid or not.
* The heap is counted in blocks or cells, not bytes: one-byte overruns in
  `initrd.c` are not visible. A path with a slash added takes a cell while the call
  lasts. It is large enough for what the boot allocates.
* A key is translated when it is typed, not when its byte is delivered, and the
  controller answers commands before it goes on with keys.
* The eeprom's `contents`, which only `kmain` sets, the wording of error messages, and
  the frame buffer's pitch and depth, which the driver ignores, are left out. Font
  files are as `Describes` has them; in one without a colon the loader would read on
  behind the file.

Not modelled, and why:

* `check_arg`, `message_traceback`: they build messages on the Lua stack.
* The printout of a fatal exception (`interrupts.c:186-226`), after which the machine
  spins for ever; serial output.
* `init.S`, `kernel.ld` and the GDT: straight-line setup without state that later code
  tests.
* `os.clock`: one read of `uptime`. The getters of the components: they return a field.
* The closure that `component.list` returns: Lua's `next`.
* What libmalloc, printf and Lua do inside is external; the models use what their
  callers rely on.

## Plan

The components that keep state are modelled, and their safety is proved. What is left,
in order of importance:

1. What `kmain` and the drivers read of the multiboot tables after the heap was given
   memory that may hold them (`main.c:180`).
2. `contents` of the eeprom as bytes of an archive block, without a terminator when the
   file fills its last block (`component/eeprom.c:13`).
3. The Lua stack's size in `pull_signal` (`api/computer.c:155`).
