----------------------------- MODULE BootMemory -----------------------------
(***************************************************************************)
(* How kmain (main.c) picks the one block of memory that malloc and with   *)
(* it all of Lua will live in: the largest available region of the         *)
(* multiboot memory map, cut from below until it lies past the kernel, the *)
(* multiboot header and the first module (the initrd).  The layout is the  *)
(* boot loader's and arbitrary.  Addresses have the width of uintptr_t;    *)
(* the memory map's fields are wider.                                      *)
(***************************************************************************)
EXTENDS Integers, Sequences

CONSTANTS
    UINTPTR_MAX,    \* the largest address
    MemoryMap,      \* memory maps a loader may pass: sequences of entries
    Extent          \* extents [start, end) the loaded objects may have

Address == 0 .. UINTPTR_MAX

ASSUME WidthAssumption == UINTPTR_MAX \in Nat

Entry == [base_addr : Nat, length : Nat, available : BOOLEAN]

ASSUME LayoutAssumption ==
    /\ \A map \in MemoryMap : map \in Seq(Entry)
    /\ \A x \in Extent :
         x \in [start : Address, end : Address] /\ x.start < x.end

VARIABLES
    mmap,           \* the memory map of this machine
    kernel,         \* where the kernel is loaded
    header,         \* where the multiboot header is
    modules,        \* the first module, if one is loaded: a set of extents
    i,              \* the entry the scan looks at
    largest_size, base_addr,
    pc

layout == <<mmap, kernel, header, modules>>
vars == <<layout, i, largest_size, base_addr, pc>>

Init ==
    /\ mmap \in MemoryMap
    /\ kernel \in Extent /\ header \in Extent
    /\ modules \in {{}} \cup {{x} : x \in Extent}
    /\ i = 1
    /\ largest_size = 0 /\ base_addr = 0
    /\ pc = "scan"

Wrap(n) == n % (UINTPTR_MAX + 1)

(* Mutants: the length may be any, or the region may cross the last address. *)
BetterAnyLength(e) ==
    /\ e.available
    /\ e.length > largest_size
    /\ e.base_addr <= UINTPTR_MAX

BetterOverflowing(e) ==
    /\ e.available
    /\ Wrap(e.length) > largest_size
    /\ e.base_addr <= UINTPTR_MAX
    /\ e.length <= UINTPTR_MAX

(* The tests an entry must pass to replace the best block so far; the size   *)
(* is compared after truncation, the overflow test comes last.               *)
Better(e) ==
    /\ e.available
    /\ Wrap(e.length) > largest_size
    /\ e.base_addr <= UINTPTR_MAX
    /\ e.length <= UINTPTR_MAX
    /\ e.base_addr + e.length <= UINTPTR_MAX

Scan ==
    /\ pc = "scan" /\ i \in DOMAIN mmap
    /\ i' = i + 1
    /\ IF Better(mmap[i])
       THEN largest_size' = mmap[i].length /\ base_addr' = mmap[i].base_addr
       ELSE UNCHANGED <<largest_size, base_addr>>
    /\ UNCHANGED <<layout, pc>>

ScanEnds ==
    /\ pc = "scan" /\ i \notin DOMAIN mmap
    /\ pc' = "kernel"
    /\ UNCHANGED <<layout, i, largest_size, base_addr>>

(* Mutant: an object is cut out only if it starts in the block. *)
CutIfStartsInside(x, next) ==
    LET reduction == Wrap(x.end - base_addr)
    IN  IF ~(x.start >= base_addr)
        THEN pc' = next /\ UNCHANGED <<largest_size, base_addr>>
        ELSE IF reduction < largest_size
        THEN /\ largest_size' = largest_size - reduction
             /\ base_addr' = x.end
             /\ pc' = next
        ELSE pc' = "assertion_failed" /\ UNCHANGED <<largest_size, base_addr>>

(* Cut the block from below so that it starts at x.end, if it starts below;  *)
(* the assertion fails when nothing would be left.                           *)
CutPast(x, next) ==
    LET reduction == Wrap(x.end - base_addr)
    IN  IF ~(x.start >= base_addr \/ base_addr < x.end)
        THEN pc' = next /\ UNCHANGED <<largest_size, base_addr>>
        ELSE IF reduction < largest_size
        THEN /\ largest_size' = largest_size - reduction
             /\ base_addr' = x.end
             /\ pc' = next
        ELSE pc' = "assertion_failed" /\ UNCHANGED <<largest_size, base_addr>>

ReserveKernel ==
    /\ pc = "kernel" /\ CutPast(kernel, "header") /\ UNCHANGED <<layout, i>>

ReserveHeader ==
    /\ pc = "header" /\ CutPast(header, "module") /\ UNCHANGED <<layout, i>>

ReserveModule ==
    /\ pc = "module"
    /\ \E m \in modules : CutPast(m, "add_block")
    /\ UNCHANGED <<layout, i>>

NoModule ==
    /\ pc = "module" /\ modules = {}
    /\ pc' = "add_block"
    /\ UNCHANGED <<layout, i, largest_size, base_addr>>

(* malloc_addblock(base_addr, largest_size) *)
AddBlock ==
    /\ pc = "add_block"
    /\ pc' = "running"
    /\ UNCHANGED <<layout, i, largest_size, base_addr>>

Next ==
    \/ Scan \/ ScanEnds
    \/ ReserveKernel \/ ReserveHeader \/ ReserveModule \/ NoModule
    \/ AddBlock

Spec == Init /\ [][Next]_vars

-----------------------------------------------------------------------------
TypeOK ==
    /\ largest_size \in Address /\ base_addr \in Address
    /\ i \in 1 .. Len(mmap) + 1
    /\ pc \in {"scan", "kernel", "header", "module", "add_block", "running",
               "assertion_failed"}

Block == base_addr .. base_addr + largest_size - 1
Bytes(x) == x.start .. x.end - 1
Reserved == UNION {Bytes(x) : x \in {kernel, header} \cup modules}

(* The heap never shares a byte with the kernel, the header or the initrd,   *)
(* whatever the layout and wherever the unsigned subtractions wrap.          *)
HeapSparesLoaded == pc = "running" => Block \cap Reserved = {}

(* The heap is not empty and is memory: inside one available region that     *)
(* does not reach past the last address.                                     *)
HeapIsMemory ==
    pc = "running" =>
        /\ largest_size > 0
        /\ \E k \in DOMAIN mmap :
             /\ mmap[k].available
             /\ mmap[k].base_addr <= base_addr
             /\ base_addr + largest_size <= mmap[k].base_addr + mmap[k].length
             /\ mmap[k].base_addr + mmap[k].length <= UINTPTR_MAX

(* The assertions of kmain (main.c:149, 157, 173) halt it just when one of   *)
(* the objects ends at or above the end of the largest region.  It need not  *)
(* lie in the region: an object loaded above it costs no byte of it and      *)
(* halts the kernel all the same.                                            *)
EndsAbove(x) == x.end >= base_addr + largest_size

HaltsIffLoadedAbove ==
    /\ pc = "assertion_failed" => \E x \in {kernel, header} \cup modules : EndsAbove(x)
    /\ pc = "running" => \A x \in {kernel, header} \cup modules : ~EndsAbove(x)
=============================================================================
