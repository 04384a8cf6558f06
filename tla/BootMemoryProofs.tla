-------------------------- MODULE BootMemoryProofs --------------------------
(***************************************************************************)
(* For every address width, memory map and layout: the block kmain gives   *)
(* to malloc is memory and spares the kernel, the header and the initrd.   *)
(* The invariant follows the block from cut to cut: it stays inside one    *)
(* available region, and what has been cut out lies below its start.       *)
(***************************************************************************)
EXTENDS BootMemory, SequenceTheorems, TLAPS

(* The block is the upper end of an available region of the map. *)
InRegion ==
    /\ largest_size > 0
    /\ \E k \in DOMAIN mmap :
         /\ mmap[k].available
         /\ mmap[k].base_addr <= base_addr
         /\ base_addr + largest_size <= mmap[k].base_addr + mmap[k].length
         /\ mmap[k].base_addr + mmap[k].length <= UINTPTR_MAX

Untouched == largest_size = 0 /\ base_addr = 0

CutOut ==
    /\ pc \in {"header", "module", "add_block", "running"} => base_addr >= kernel.end
    /\ pc \in {"module", "add_block", "running"} => base_addr >= header.end
    /\ pc \in {"add_block", "running"} => \A m \in modules : base_addr >= m.end

IInv ==
    /\ mmap \in MemoryMap /\ kernel \in Extent /\ header \in Extent
    /\ modules \subseteq Extent
    /\ \A m, n \in modules : m = n
    /\ i \in 1 .. Len(mmap) + 1
    /\ largest_size \in Address /\ base_addr \in Address
    /\ pc \in {"scan", "kernel", "header", "module", "add_block", "running",
               "assertion_failed"}
    /\ pc \in {"scan", "kernel"} => Untouched \/ InRegion
    /\ pc \in {"header", "module", "add_block", "running"} => InRegion
    /\ CutOut
    /\ pc = "assertion_failed" => \E x \in {kernel, header} \cup modules : EndsAbove(x)

-----------------------------------------------------------------------------
LEMMA ExtentFacts ==
    ASSUME NEW x \in Extent
    PROVE  x.start \in Nat /\ x.end \in Nat /\ x.start < x.end /\ x.end <= UINTPTR_MAX
  BY LayoutAssumption, WidthAssumption DEF Address

LEMMA EntryFacts ==
    ASSUME NEW map \in MemoryMap, NEW k \in DOMAIN map
    PROVE  /\ map[k].base_addr \in Nat /\ map[k].length \in Nat
           /\ map[k].available \in BOOLEAN /\ DOMAIN map = 1 .. Len(map)
           /\ Len(map) \in Nat
  <1>1. map \in Seq(Entry)
    BY LayoutAssumption
  <1>2. DOMAIN map = 1 .. Len(map) /\ Len(map) \in Nat
    BY <1>1
  <1>3. map[k] \in Entry
    BY <1>1, <1>2, ElementOfSeq
  <1> QED BY <1>2, <1>3 DEF Entry

LEMMA WrapSmall ==
    ASSUME NEW n \in Address
    PROVE  Wrap(n) = n
  BY WidthAssumption, Z3 DEF Wrap, Address

(* A cut leaves a block past the object, at the upper end of the same        *)
(* region, or the block was past it already, or the assertion fails.         *)
LEMMA CutCases ==
    ASSUME NEW x \in Extent, NEW next, largest_size \in Address, base_addr \in Address,
           CutPast(x, next)
    PROVE  \/ /\ pc' = next
              /\ x.end <= base_addr
              /\ UNCHANGED <<largest_size, base_addr>>
           \/ /\ pc' = next
              /\ base_addr < x.end /\ x.end - base_addr < largest_size
              /\ base_addr' = x.end
              /\ largest_size' = largest_size - (x.end - base_addr)
           \/ /\ pc' = "assertion_failed"
              /\ EndsAbove(x)
              /\ UNCHANGED <<largest_size, base_addr>>
  <1>1. x.start \in Nat /\ x.end \in Nat /\ x.start < x.end /\ x.end <= UINTPTR_MAX
    BY ExtentFacts
  <1>2. CASE base_addr < x.end
    <2>1. x.end - base_addr \in Address
      BY <1>1, <1>2, WidthAssumption DEF Address
    <2>2. Wrap(x.end - base_addr) = x.end - base_addr
      BY <2>1, WrapSmall
    <2>3. CASE x.end - base_addr < largest_size
      BY <1>1, <1>2, <2>2, <2>3 DEF CutPast
    <2>4. CASE ~(x.end - base_addr < largest_size)
      <3>1. EndsAbove(x)
        BY <1>1, <2>4, WidthAssumption DEF EndsAbove, Address
      <3> QED BY <1>1, <1>2, <2>2, <2>4, <3>1 DEF CutPast
    <2> QED BY <2>3, <2>4
  <1>3. CASE ~(base_addr < x.end)
    <2>1. x.end <= base_addr /\ ~(x.start >= base_addr \/ base_addr < x.end)
      BY <1>1, <1>3, WidthAssumption DEF Address
    <2>2. pc' = next /\ UNCHANGED <<largest_size, base_addr>>
      BY <2>1 DEF CutPast
    <2> QED BY <2>1, <2>2
  <1> QED BY <1>2, <1>3

(* What every cut needs: it preserves the block's bounds and its region, and *)
(* never moves the start down.                                               *)
LEMMA CutKeeps ==
    ASSUME IInv, InRegion \/ Untouched, NEW x \in Extent, NEW next,
           CutPast(x, next), pc' # "assertion_failed", UNCHANGED <<layout, i>>
    PROVE  /\ largest_size' \in Address /\ base_addr' \in Address
           /\ InRegion' /\ base_addr' >= x.end /\ base_addr' >= base_addr
  <1>1. x.start \in Nat /\ x.end \in Nat /\ x.start < x.end /\ x.end <= UINTPTR_MAX
    BY ExtentFacts
  <1>2. mmap' = mmap /\ largest_size \in Address /\ base_addr \in Address
        /\ mmap \in MemoryMap
    BY DEF layout, IInv
  <1>3. CASE x.end <= base_addr /\ UNCHANGED <<largest_size, base_addr>>
    <2>1. InRegion
      BY <1>1, <1>3 DEF Untouched
    <2> QED BY <1>1, <1>2, <1>3, <2>1, WidthAssumption DEF InRegion, Address
  <1>4. CASE /\ base_addr < x.end /\ x.end - base_addr < largest_size
             /\ base_addr' = x.end
             /\ largest_size' = largest_size - (x.end - base_addr)
    <2>1. InRegion
      BY <1>1, <1>2, <1>4, WidthAssumption DEF Untouched, Address
    <2>2. largest_size' > 0 /\ base_addr' + largest_size' = base_addr + largest_size
          /\ base_addr' >= base_addr /\ base_addr' \in Address /\ largest_size' \in Address
      BY <1>1, <1>2, <1>4, WidthAssumption DEF Address
    <2>3. PICK k \in DOMAIN mmap :
             /\ mmap[k].available
             /\ mmap[k].base_addr <= base_addr
             /\ base_addr + largest_size <= mmap[k].base_addr + mmap[k].length
             /\ mmap[k].base_addr + mmap[k].length <= UINTPTR_MAX
      BY <2>1 DEF InRegion
    <2>4. mmap[k].base_addr \in Nat
      BY <1>2, EntryFacts
    <2>5. InRegion'
      <3>1. mmap[k].base_addr <= base_addr'
        BY <1>2, <2>2, <2>3, <2>4, WidthAssumption DEF Address
      <3> QED BY <1>2, <2>2, <2>3, <3>1, Zenon DEF InRegion
    <2> QED BY <1>1, <1>2, <1>4, <2>2, <2>5, WidthAssumption DEF Address
  <1> QED BY <1>2, <1>3, <1>4, CutCases

LEMMA FailKeeps ==
    ASSUME IInv, NEW x \in {kernel, header} \cup modules, NEW next, CutPast(x, next),
           pc' = "assertion_failed", UNCHANGED <<layout, i>>,
           next \in {"header", "module", "add_block"}
    PROVE  IInv'
  <1>1. x \in Extent
    BY DEF IInv
  <1>2. UNCHANGED <<largest_size, base_addr>> /\ EndsAbove(x)
    BY <1>1, CutCases DEF IInv
  <1>3. EndsAbove(x)' /\ x \in ({kernel, header} \cup modules)'
    BY <1>2 DEF EndsAbove, layout
  <1> QED BY <1>2, <1>3 DEF IInv, CutOut, layout

-----------------------------------------------------------------------------
LEMMA InitEstablishes == Init => IInv
  <1> SUFFICES ASSUME Init PROVE IInv
    OBVIOUS
  <1>1. mmap \in Seq(Entry)
    BY LayoutAssumption DEF Init
  <1>2. 1 \in 1 .. Len(mmap) + 1 /\ 0 \in Address
    BY <1>1, WidthAssumption DEF Address
  <1>3. modules \subseteq Extent /\ \A m, n \in modules : m = n
    BY DEF Init
  <1> QED BY <1>2, <1>3 DEF Init, IInv, Untouched, CutOut

LEMMA ScanKeeps ==
    ASSUME IInv, Scan
    PROVE  IInv'
  <1> DEFINE e == mmap[i]
  <1>1. /\ mmap \in MemoryMap /\ i \in DOMAIN mmap
        /\ e.base_addr \in Nat /\ e.length \in Nat
        /\ DOMAIN mmap = 1 .. Len(mmap) /\ Len(mmap) \in Nat
    BY EntryFacts DEF IInv, Scan
  <1>2. i' \in 1 .. Len(mmap) + 1 /\ pc = "scan" /\ pc' = "scan" /\ UNCHANGED layout
    BY <1>1 DEF Scan
  <1>3. CASE Better(e)
    <2>1. /\ largest_size' = e.length /\ base_addr' = e.base_addr
          /\ e.length <= UINTPTR_MAX /\ e.base_addr <= UINTPTR_MAX
          /\ e.base_addr + e.length <= UINTPTR_MAX /\ e.available
      BY <1>3 DEF Scan, Better
    <2>2. largest_size' \in Address /\ base_addr' \in Address
      BY <1>1, <2>1, WidthAssumption DEF Address
    <2>3. largest_size' > 0
      <3>1. Wrap(e.length) = e.length
        BY <1>1, <2>1, <2>2, WrapSmall
      <3> QED BY <1>1, <1>3, <2>1, <3>1, WidthAssumption DEF Better, IInv, Address
    <2>4. InRegion'
      BY <1>1, <1>2, <2>1, <2>3 DEF InRegion, layout
    <2> QED BY <1>2, <2>2, <2>4 DEF IInv, CutOut, layout
  <1>4. CASE ~Better(e)
    BY <1>2, <1>4 DEF Scan, IInv, CutOut, layout, Untouched, InRegion
  <1> QED BY <1>3, <1>4

LEMMA KernelKeeps ==
    ASSUME IInv, ReserveKernel
    PROVE  IInv'
  <1>1. kernel \in Extent /\ CutPast(kernel, "header") /\ UNCHANGED <<layout, i>>
        /\ (InRegion \/ Untouched)
    BY DEF IInv, ReserveKernel
  <1>2. CASE pc' = "assertion_failed"
    BY <1>1, <1>2, FailKeeps
  <1>3. CASE pc' # "assertion_failed"
    <2>1. /\ largest_size' \in Address /\ base_addr' \in Address
          /\ InRegion' /\ base_addr' >= kernel.end
      BY <1>1, <1>3, CutKeeps
    <2>2. pc' = "header"
      BY <1>1, <1>3, CutCases DEF IInv
    <2> QED BY <1>1, <2>1, <2>2 DEF IInv, CutOut, layout
  <1> QED BY <1>2, <1>3

LEMMA HeaderKeeps ==
    ASSUME IInv, ReserveHeader
    PROVE  IInv'
  <1>1. /\ header \in Extent /\ CutPast(header, "module") /\ UNCHANGED <<layout, i>>
        /\ (InRegion \/ Untouched) /\ base_addr >= kernel.end /\ kernel \in Extent
        /\ base_addr \in Address
    BY DEF IInv, ReserveHeader, CutOut
  <1>2. CASE pc' = "assertion_failed"
    BY <1>1, <1>2, FailKeeps
  <1>3. CASE pc' # "assertion_failed"
    <2>1. /\ largest_size' \in Address /\ base_addr' \in Address
          /\ InRegion' /\ base_addr' >= header.end /\ base_addr' >= base_addr
      BY <1>1, <1>3, CutKeeps
    <2>2. pc' = "module"
      BY <1>1, <1>3, CutCases DEF IInv
    <2>3. base_addr' >= kernel.end
      BY <1>1, <2>1, ExtentFacts, WidthAssumption DEF Address
    <2> QED BY <1>1, <2>1, <2>2, <2>3 DEF IInv, CutOut, layout
  <1> QED BY <1>2, <1>3

LEMMA ModuleKeeps ==
    ASSUME IInv, NEW m \in modules, pc = "module", CutPast(m, "add_block"),
           UNCHANGED <<layout, i>>
    PROVE  IInv'
  <1>1. /\ m \in Extent /\ (InRegion \/ Untouched) /\ \A n \in modules : n = m
        /\ base_addr >= kernel.end /\ kernel \in Extent
        /\ base_addr >= header.end /\ header \in Extent /\ base_addr \in Address
    BY DEF IInv, CutOut
  <1>2. CASE pc' = "assertion_failed"
    BY <1>1, <1>2, FailKeeps
  <1>3. CASE pc' # "assertion_failed"
    <2>1. /\ largest_size' \in Address /\ base_addr' \in Address
          /\ InRegion' /\ base_addr' >= m.end /\ base_addr' >= base_addr
      BY <1>1, <1>3, CutKeeps
    <2>2. pc' = "add_block"
      BY <1>1, <1>3, CutCases DEF IInv
    <2>3. base_addr' >= kernel.end /\ base_addr' >= header.end
      BY <1>1, <2>1, ExtentFacts, WidthAssumption DEF Address
    <2>4. \A n \in modules' : base_addr' >= n.end
      BY <1>1, <2>1 DEF layout
    <2> QED BY <1>1, <2>1, <2>2, <2>3, <2>4 DEF IInv, CutOut, layout
  <1> QED BY <1>2, <1>3

LEMMA StepKeeps == IInv /\ [Next]_vars => IInv'
  <1> SUFFICES ASSUME IInv, [Next]_vars PROVE IInv'
    OBVIOUS
  <1>1. CASE Scan
    BY <1>1, ScanKeeps
  <1>2. CASE ScanEnds
    BY <1>2 DEF ScanEnds, IInv, CutOut, layout, Untouched, InRegion
  <1>3. CASE ReserveKernel
    BY <1>3, KernelKeeps
  <1>4. CASE ReserveHeader
    BY <1>4, HeaderKeeps
  <1>5. CASE ReserveModule
    BY <1>5, ModuleKeeps DEF ReserveModule
  <1>6. CASE NoModule
    BY <1>6 DEF NoModule, IInv, CutOut, layout, InRegion
  <1>7. CASE AddBlock
    BY <1>7 DEF AddBlock, IInv, CutOut, layout, InRegion
  <1>8. CASE UNCHANGED vars
    BY <1>8 DEF vars, IInv, CutOut, layout, Untouched, InRegion, EndsAbove
  <1> QED BY <1>1, <1>2, <1>3, <1>4, <1>5, <1>6, <1>7, <1>8 DEF Next

LEMMA InvariantHolds == Spec => []IInv
  BY InitEstablishes, StepKeeps, PTL DEF Spec

-----------------------------------------------------------------------------
(* The variables of the scan stay addresses. *)
THEOREM TypeCorrect == Spec => []TypeOK
  <1>1. IInv => TypeOK
    BY DEF IInv, TypeOK
  <1> QED BY <1>1, InvariantHolds, PTL

(* The heap is a non-empty part of one available region. *)
THEOREM HeapInMemory == Spec => []HeapIsMemory
  <1>1. IInv => HeapIsMemory
    BY DEF IInv, InRegion, HeapIsMemory
  <1> QED BY <1>1, InvariantHolds, PTL

(* The heap shares no byte with the kernel, the header or the initrd. *)
THEOREM HeapSafe == Spec => []HeapSparesLoaded
  <1>1. IInv => HeapSparesLoaded
    <2> SUFFICES ASSUME IInv, pc = "running", NEW b \in Block, b \in Reserved
                 PROVE  FALSE
      BY DEF HeapSparesLoaded
    <2>1. PICK x \in {kernel, header} \cup modules : b \in Bytes(x)
      BY DEF Reserved
    <2>2. base_addr >= x.end /\ x \in Extent
      BY <2>1 DEF IInv, CutOut
    <2>3. x.end \in Nat /\ x.start \in Nat
      BY <2>2, ExtentFacts
    <2>4. b < x.end
      BY <2>1, <2>3 DEF Bytes
    <2> QED BY <2>2, <2>3, <2>4, WidthAssumption DEF Block, IInv, Address
  <1> QED BY <1>1, InvariantHolds, PTL

(* The kernel halts in its assertions just when an object ends at or above   *)
(* the end of the largest region, wherever it is loaded.                     *)
THEOREM HaltsIff == Spec => []HaltsIffLoadedAbove
  <1>1. ASSUME IInv, pc = "running", NEW x \in {kernel, header} \cup modules
        PROVE  ~EndsAbove(x)
    <2>1. x.end <= base_addr /\ x \in Extent /\ largest_size > 0
      BY <1>1 DEF IInv, CutOut, InRegion
    <2>2. x.end \in Nat
      BY <2>1, ExtentFacts
    <2> QED BY <1>1, <2>1, <2>2, WidthAssumption DEF EndsAbove, IInv, Address
  <1>2. IInv => HaltsIffLoadedAbove
    BY <1>1 DEF IInv, HaltsIffLoadedAbove
  <1> QED BY <1>2, InvariantHolds, PTL
=============================================================================
