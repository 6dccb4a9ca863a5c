--------------------------------- MODULE Boot ---------------------------------
(***************************************************************************)
(* The bootloader's KernelLoader::load_segments, then the memory bring-up *)
(* of the kernel's lib.rs setup(): map_first_2mb, the memory map    *)
(* and frame allocator of MemoryMap, map_framebuffer, map_physical_memory, *)
(* kalloc::init_heap (paging::allocate_tables, then one frame per heap     *)
(* page), the ACPI reader (Acpi) that finds the MADT, map_apic_registers, *)
(* init_hardware_interrupts (init_apic, io_apic::init) and                  *)
(* remove_first_2mb_identity_mapping, on the four-level page tables of     *)
(* memory/paging.rs walked by memory/address.rs.  The firmware's ACPI      *)
(* tables are read through the physical-memory window, so they must be     *)
(* mapped by then.                                                         *)
(*                                                                         *)
(* The geometry is scaled: a table has 2^IndexBits entries (512 in the     *)
(* code), a frame is 2^FrameBits address units (4 KiB), a usize has        *)
(* WordBits bits (64) and the shifts of get_entry and get_offset keep      *)
(* their form.  PHYS_MEM_VIRT_ADDR keeps its PML4 entry, 2; HEAP_BASE's    *)
(* entry 34 becomes 3.                                                     *)
(*                                                                         *)
(* Page tables are pt: a table's physical frame -> its entries, each       *)
(* [addr, flags], plus the level it was made for (a ghost: the code knows  *)
(* a table's level only from the walk that reached it).                    *)
(***************************************************************************)
EXTENDS Integers, Sequences, SequencesExt, FiniteSets, TLC

CONSTANTS
    FourKb, FirmwareMaps, Starts,  \* as in MemoryMap
    Images,       \* the kernel ELFs: [base, len] as in MemoryMap (kernel_addr,
                  \* kernel_elf_size) and phdrs, their program headers
                  \* [type, flags, offset, vaddr, memsz]
    KernelTables, \* <<k_pdpt, k_pdt, k_pt>> of the kernel loader
    FrameBits,    \* log2 of FrameSize::FourKb
    IndexBits,    \* log2 of the entries of a table
    WordBits,     \* bits of a usize
    Cr3,          \* the bootloader's PML4 table
    BootTables,   \* <<PDPT, PDT, PT>> of the bootloader's identity map
    Framebuffer,  \* [base, len] of the VBE framebuffer
    Firmwares,    \* the ACPI tables the firmware may provide (Acpi)
    HeapLength    \* HEAP_LENGTH

ASSUME FourKb = 2^FrameBits

VARIABLES
    fw, image, map, phase, start, next, cur, frames, exhausted,  \* MemoryMap
    pt,      \* the page tables
    calls,   \* the map_physical_region and init_heap loops setup() has ahead
    call,    \* the one running
    it,      \* its MemoryRegionIterator (init_heap's inner 4 KiB one)
    outer,   \* init_heap's 2 MiB iterator
    va,      \* the virtual address the loop body is mapping
    tbl,     \* [table, level]: the loop's `table`
    stage,   \* "idle" at a loop head, "loop" in the while loop over levels
    acpiFw,  \* the firmware's ACPI tables
    acpi,    \* how far setup() is past init_heap: "none", "rsdt" (RSDP and
             \* root table validated), "madt", "mapping" (the APIC pages
             \* queued), "apic" (init_hardware_interrupts returned)
    err,     \* the Err setup() returned after the heap, or "none"
    ioapic   \* io_apic's statics: BASE_ADDR, the system timer's and the
             \* keyboard's redirection index and IsoFlags

allocVars == <<fw, image, map, start, next, cur, frames, exhausted>>
bootVars == <<pt, calls, call, it, outer, va, tbl, stage>>
apicVars == <<acpiFw, acpi, err, ioapic>>
vars == <<allocVars, phase, bootVars, apicVars>>

MM == INSTANCE MemoryMap
None == MM!None
AC == INSTANCE Acpi

Idx == 0 .. 2^IndexBits - 1
AddrBits == FrameBits + 4 * IndexBits

\* what one entry of a level-l table maps: 4 KiB, 2 MiB, 1 GiB, 512 GiB
Span(l) == 2^(FrameBits + (l - 1) * IndexBits)
TwoMb == Span(2)
PhysMemVirtAddr == 2 * Span(4)
HeapBase == 3 * Span(4)

\* io_apic::IRQ_INDEX_BASE: the redirection entry of interrupt g is
\* register IRQ_INDEX_BASE + 2 g
IrqIndexBase == 16

\* v << k and v >> k on a usize: the bits shifted out are lost
Shl(v, k) == (v % 2^(WordBits - k)) * 2^k
Shr(v, k) == v \div 2^k

\* VirtualAddress::get_entry: (a << 16) >> 55 at level Four, 25, 34, 43 below
EntryShift(l) == WordBits - AddrBits + (4 - l) * IndexBits
GetEntry(v, l) == Shr(Shl(v, EntryShift(l)), WordBits - IndexBits)

\* VirtualAddress::get_offset: the low 30 bits at level Three, 21 at Two, 12 else
OffsetShiftLowOnly(l) == WordBits - FrameBits - (IF l = 3 THEN 2 * IndexBits ELSE 0)

OffsetShift(l) == WordBits - FrameBits - (IF l \in {2, 3} THEN (l - 1) * IndexBits ELSE 0)
GetOffset(v, l) == Shr(Shl(v, OffsetShift(l)), OffsetShift(l))

\* Flags::PRESENT | WRITABLE, and | HUGE
PW == {"present", "writable"}
PWHuge == PW \cup {"huge"}

Pte(a, f) == [addr |-> a, flags |-> f]
Empty == Pte(0, {})
EmptyTable(l) == [level |-> l, e |-> [i \in Idx |-> Empty]]

\* Table::is_entry_mapped: a zero address with no flags is unmapped
IsMapped(e) == e.addr # 0 \/ e.flags # {}

\* Table::get_entry: at level Four always a table, at One always a frame,
\* at Three and Two a frame when HUGE is set
IsTableEntry(e, l) == IsMapped(e) /\ (l = 4 \/ (l \in {2, 3} /\ "huge" \notin e.flags))
IsFrameEntry(e, l) == IsMapped(e) /\ ~IsTableEntry(e, l)

\* Table::set_entry and Table::remove_entry
SetEntry(p, t, i, e) == [p EXCEPT ![t].e[i] = e]

\* the volatile_set_memory of a table frame
Clear(p, t, l) == (t :> EmptyTable(l)) @@ p

\* VirtualAddress::get_table: from the PML4 (Table::table4) down while the
\* entry is a table; the break at level One ends where the loop would
RECURSIVE Walk(_, _, _, _)
Walk(p, v, t, l) ==
    LET e == p[t].e[GetEntry(v, l)]
    IN  IF IsTableEntry(e, l) THEN Walk(p, v, e.addr, l - 1) ELSE [table |-> t, level |-> l]

GetTable(p, v) == Walk(p, v, Cr3, 4)

\* VirtualAddress::to_phys
ToPhys(p, v) ==
    LET w == GetTable(p, v)
        e == p[w.table].e[GetEntry(v, w.level)]
    IN  IF IsFrameEntry(e, w.level) THEN e.addr + GetOffset(v, w.level) ELSE None

\* MemoryRegionIterator::new: base aligned down and length aligned up,
\* each on its own
NewIter(base, len, s) ==
    [base |-> MM!AlignDown(base, s), length |-> MM!AlignUp(len, s), size |-> s, index |-> 0]

\* MemoryRegionIterator::next: the frame it yields, whether it is done,
\* and the iterator after it
IterAt(r) == r.base + r.size * r.index
IterDone(r) == IterAt(r) >= r.base + r.length

IterNextStuck(r) == r

IterNext(r) == [r EXCEPT !.index = @ + 1]

NoIter == NewIter(0, 0, FourKb)

\* init_heap: the last 2 MiB frame's inner region ends at the heap's end
InnerLength(t) ==
    IF t + TwoMb > HeapBase + HeapLength THEN HeapBase + HeapLength - t ELSE TwoMb

Call(who, f, base, len) == [who |-> who, fn |-> f, base |-> base, len |-> len]
NoCall == Call("none", "none", 0, 0)

\* the loops setup() runs once the frame allocator exists, in its order:
\* map_framebuffer, map_physical_memory (every entry, of any type),
\* init_heap (allocate_tables, then the pages); map_apic_registers follows
\* once the MADT is found
SetupCalls(m) ==
    << Call("fb", "phys", Framebuffer.base, Framebuffer.len) >>
    \o [k \in 1 .. Len(m) |-> Call("mem", "phys", m[k].base, m[k].length)]
    \o << Call("heap", "tables", HeapBase, HeapLength),
          Call("heap", "pages", HeapBase, HeapLength) >>

\* the iterator a call's loop runs on: 2 MiB physical frames for
\* map_physical_region, 4 KiB virtual frames for allocate_tables; the
\* pages loop of init_heap starts with its 2 MiB iterator
CallIter(c) == IF c.fn = "phys" THEN NewIter(c.base, c.len, TwoMb) ELSE NewIter(c.base, c.len, FourKb)

\* the level the while loop stops at: Two for the huge entries of
\* map_physical_region, One for allocate_tables
Target(c) == IF c.fn = "phys" THEN 2 ELSE 1
\* bootloader setup_paging: PML4[0] -> PDPT[0] -> PDT[0] -> PT, and the PT
\* maps every 4 KiB frame of the first 2 MiB to itself but frame 0
BootloaderTables ==
    [t \in {Cr3} \cup ToSet(BootTables) |->
        CASE t = Cr3           -> [EmptyTable(4) EXCEPT !.e[0] = Pte(BootTables[1], PW)]
          [] t = BootTables[1] -> [EmptyTable(3) EXCEPT !.e[0] = Pte(BootTables[2], PW)]
          [] t = BootTables[2] -> [EmptyTable(2) EXCEPT !.e[0] = Pte(BootTables[3], PW)]
          [] t = BootTables[3] -> [level |-> 1, e |-> [i \in Idx |->
                                       IF i = 0 THEN Empty ELSE Pte(i * FourKb, PW)]]]

\* the kernel loader's three tables, k_pdpt_address and on, in the
\* bootloader's image (their level is the one load_segments uses them at)
KernelTablesUncleared ==
    [t \in ToSet(KernelTables) |-> EmptyTable(4 - CHOOSE k \in 1 .. 3 : KernelTables[k] = t)]

\* load_segments: (phdr_vaddr << 16) >> 55 for the PML4, 25, 34 and 43
\* below; the same shifts as VirtualAddress::get_entry
LoaderEntry(v, l) == Shr(Shl(v, EntryShift(l)), WordBits - IndexBits)

\* the first LOAD segment hangs the kernel tables: k_pdpt at its PML4
\* entry if that is not 0, k_pdt at its PDPT entry if the PDPT is k_pdpt
\* or the entry is not 0, and k_pt at its PDT entry, always
InitKernelTables(p, v) ==
    LET useK3 == LoaderEntry(v, 4) > 0
        pdpt  == IF useK3 THEN KernelTables[1] ELSE BootTables[1]
        useK2 == pdpt = KernelTables[1] \/ LoaderEntry(v, 3) > 0
        pdt   == IF useK2 THEN KernelTables[2] ELSE BootTables[2]
        p1    == IF useK3 THEN SetEntry(p, Cr3, LoaderEntry(v, 4), Pte(KernelTables[1], PW)) ELSE p
        p2    == IF useK2 THEN SetEntry(p1, pdpt, LoaderEntry(v, 3), Pte(KernelTables[2], PW)) ELSE p1
    IN  SetEntry(p2, pdt, LoaderEntry(v, 2), Pte(KernelTables[3], PW))

\* a page's flags: present and no-execute; PF_X (1) clears NX, PF_W (2)
\* sets WRITABLE
PageFlags(h) ==
    {"present"} \cup (IF h.flags % 2 = 1 THEN {} ELSE {"nx"})
                \cup (IF (h.flags \div 2) % 2 = 1 THEN {"writable"} ELSE {})

\* the frame of page i of a segment: kernel_addr + 0x1000 * (offset /
\* 0x1000) + 0x1000 * i
LoaderFrameUnaligned(k, h, i) == k.base + h.offset + FourKb * i

LoaderFrame(k, h, i) == k.base + FourKb * (h.offset \div FourKb) + FourKb * i

\* the pages a segment covers: (memsz + addr_offset + 0xfff) / 0x1000 from
\* its pt_entry
SegmentPages(h) ==
    LET n == (h.memsz + (h.vaddr % FourKb) + FourKb - 1) \div FourKb
    IN  LoaderEntry(h.vaddr, 1) .. LoaderEntry(h.vaddr, 1) + n - 1

\* a segment's page loop: an entry is written only while it is still 0,
\* so a page two segments share keeps the first one's frame and flags
MapSegment(p, k, h) ==
    LET pages == SegmentPages(h)
        pt0   == LoaderEntry(h.vaddr, 1)
    IN  [p EXCEPT ![KernelTables[3]].e =
            [j \in Idx |-> IF j \in pages /\ ~IsMapped(@[j])
                           THEN Pte(LoaderFrame(k, h, j - pt0), PageFlags(h)) ELSE @[j]]]

\* the loop over the program headers: other types than PT_LOAD (1) are
\* skipped; are_tables_initialized is set by the first LOAD one
RECURSIVE LoadFrom(_, _, _, _)
LoadFrom(p, k, j, init) ==
    IF j > Len(k.phdrs) THEN p
    ELSE IF k.phdrs[j].type # 1 THEN LoadFrom(p, k, j + 1, init)
    ELSE LET h  == k.phdrs[j]
             p1 == IF init THEN p ELSE InitKernelTables(p, h.vaddr)
         IN  LoadFrom(MapSegment(p1, k, h), k, j + 1, TRUE)

\* a page past the 512 entries of k_pt ("would need to be updated if
\* kernel loadable segments size > 2MB") is written beyond the table
OverrunsKPt(k) ==
    \E j \in 1 .. Len(k.phdrs) :
        k.phdrs[j].type = 1 /\ ~(SegmentPages(k.phdrs[j]) \subseteq Idx)

\* stage3_start: KernelLoader::load_segments, after setup_paging; the
\* three kernel tables (0x3000 bytes from k_pdpt) are cleared first.  The
\* code writes an entry past k_pt without a check, into whatever follows
\* the tables; the model does not hold that memory, so it stops there in
\* phase "fault" (the outcome is undefined, not a CPU fault).
LoadSegments ==
    /\ phase = "loader"
    /\ IF OverrunsKPt(image)
       THEN phase' = "fault" /\ UNCHANGED pt
       ELSE LET p0 == [t \in ToSet(KernelTables) |-> EmptyTable(pt[t].level)] @@ pt
            IN  pt' = LoadFrom(p0, image, 1, FALSE) /\ phase' = "boot"
    /\ UNCHANGED <<allocVars, calls, call, it, outer, va, tbl, stage, apicVars>>

Init ==
    /\ fw \in FirmwareMaps
    /\ image \in Images
    /\ map = fw
    /\ phase = "loader"
    /\ start \in Starts
    /\ next = start
    /\ cur = 1
    /\ frames = <<>>
    /\ exhausted = FALSE
    /\ pt = BootloaderTables @@ KernelTablesUncleared
    /\ calls = <<>>
    /\ call = NoCall
    /\ it = NoIter
    /\ outer = NoIter
    /\ va = 0
    /\ tbl = [table |-> Cr3, level |-> 4]
    /\ stage = "idle"
    /\ acpiFw \in Firmwares
    /\ acpi = "none"
    /\ err = "none"
    /\ ioapic = [base |-> None, timer |-> IrqIndexBase, timerFlags |-> 0,
                 kbd |-> IrqIndexBase + 2, kbdFlags |-> 0]

\* map_first_2mb: two frames from conventional_mem_addr, written through
\* the identity map, become the window's PDPT and PDT; PDT[0] maps the
\* first 2 MiB with a huge page; conventional_mem_addr moves past them
MapFirst2mbTablesNoHuge(p, t3, t2) ==
    LET p1 == SetEntry(Clear(p, t3, 3), Cr3, GetEntry(PhysMemVirtAddr, 4), Pte(t3, PW))
    IN  SetEntry(Clear(p1, t2, 2), t3, GetEntry(PhysMemVirtAddr, 3), Pte(t2, PW))

MapFirst2mbTables(p, t3, t2) ==
    LET p1 == SetEntry(Clear(p, t3, 3), Cr3, GetEntry(PhysMemVirtAddr, 4), Pte(t3, PW))
        p2 == SetEntry(Clear(p1, t2, 2), t3, GetEntry(PhysMemVirtAddr, 3), Pte(t2, PW))
    IN  SetEntry(p2, t2, 0, Pte(0, PWHuge))

MapFirst2mbNoBump ==
    /\ phase = "boot"
    /\ pt' = MapFirst2mbTables(pt, start, start + FourKb)
    /\ phase' = "fw"
    /\ UNCHANGED <<fw, image, map, start, next, cur, frames, exhausted, calls, call, it, outer, va, tbl, stage>>
    /\ UNCHANGED apicVars

MapFirst2mb ==
    /\ phase = "boot"
    /\ pt' = MapFirst2mbTables(pt, start, start + FourKb)
    /\ start' = start + 2 * FourKb
    /\ next' = start + 2 * FourKb
    /\ phase' = "fw"
    /\ UNCHANGED <<fw, image, map, cur, frames, exhausted, calls, call, it, outer, va, tbl, stage>>
    /\ UNCHANGED apicVars

\* e820_memory_map::init; an Err ends setup()
E820Init == MM!E820Init /\ UNCHANGED <<bootVars, apicVars>>

\* FrameAllocator::new; what setup() then calls is fixed by the map
NewFrameAllocator ==
    /\ MM!NewFrameAllocator
    /\ calls' = SetupCalls(map)
    /\ UNCHANGED <<pt, call, it, outer, va, tbl, stage>>
    /\ UNCHANGED apicVars

AtLoopHead == phase = "alloc" /\ stage = "idle"

\* the next map_physical_region or init_heap loop starts
StartCall ==
    /\ AtLoopHead
    /\ IterDone(it) /\ IterDone(outer)
    /\ calls # <<>>
    /\ call' = Head(calls)
    /\ calls' = Tail(calls)
    /\ IF Head(calls).fn = "pages"
       THEN outer' = NewIter(Head(calls).base, Head(calls).len, TwoMb) /\ UNCHANGED it
       ELSE it' = CallIter(Head(calls)) /\ UNCHANGED outer
    /\ UNCHANGED <<allocVars, phase, pt, va, tbl, stage>>
    /\ UNCHANGED apicVars

\* map_physical_region's loop body: the window address of the next 2 MiB
\* frame and its deepest table
PhysFrame ==
    /\ AtLoopHead
    /\ call.fn = "phys"
    /\ ~IterDone(it)
    /\ va' = PhysMemVirtAddr + IterAt(it)
    /\ tbl' = GetTable(pt, PhysMemVirtAddr + IterAt(it))
    /\ it' = IterNext(it)
    /\ stage' = "loop"
    /\ UNCHANGED <<allocVars, phase, pt, calls, call, outer>>
    /\ UNCHANGED apicVars

\* allocate_tables' loop body: a heap page already mapped is an Err
TablesFrame ==
    /\ AtLoopHead
    /\ call.fn = "tables"
    /\ ~IterDone(it)
    /\ it' = IterNext(it)
    /\ IF ToPhys(pt, IterAt(it)) # None
       THEN phase' = "failed" /\ UNCHANGED <<va, tbl, stage>>
       ELSE /\ va' = IterAt(it)
            /\ tbl' = GetTable(pt, IterAt(it))
            /\ stage' = "loop"
            /\ UNCHANGED phase
    /\ UNCHANGED <<allocVars, pt, calls, call, outer>>
    /\ UNCHANGED apicVars

\* Table::map_table_at(frame, PRESENT | WRITABLE, i) on table t of level l:
\* the frame is cleared and its address found through the window
MapTableAt(p, t, l, a, i) == SetEntry(Clear(p, a, l - 1), t, i, Pte(a, PW))

\* one turn of the while loop over levels: a frame from get_next_frame
\* becomes the next table.  None is an Err; map_table_at does nothing at
\* level One and get_next_level().unwrap() then panics; a frame outside
\* the window faults when cleared (to_phys().unwrap() would panic).
NewTable ==
    /\ phase = "alloc"
    /\ stage = "loop"
    /\ tbl.level # Target(call)
    /\ LET r == MM!ScanFrom(MM!Usable(map), cur, [next |-> next, cur |-> cur])
           a == ToPhys(pt, PhysMemVirtAddr + r.res)
       IN  /\ MM!FrameDone(r)
           /\ CASE r.res = None -> phase' = "failed" /\ UNCHANGED <<pt, tbl>>
                [] r.res # None /\ (tbl.level = 1 \/ a = None) ->
                       phase' = "fault" /\ UNCHANGED <<pt, tbl>>
                [] OTHER ->
                       /\ pt' = MapTableAt(pt, tbl.table, tbl.level, a, GetEntry(va, tbl.level))
                       /\ tbl' = [table |-> a, level |-> tbl.level - 1]
                       /\ UNCHANGED phase
    /\ UNCHANGED <<fw, image, map, start, calls, call, it, outer, va, stage>>
    /\ UNCHANGED apicVars

\* the while loop is over: map_physical_region sets the huge entry
LevelsDone ==
    /\ phase = "alloc"
    /\ stage = "loop"
    /\ tbl.level = Target(call)
    /\ pt' = IF call.fn = "phys"
             THEN SetEntry(pt, tbl.table, GetEntry(va, 2), Pte(va - PhysMemVirtAddr, PWHuge))
             ELSE pt
    /\ stage' = "idle"
    /\ UNCHANGED <<allocVars, phase, calls, call, it, outer, va, tbl>>
    /\ UNCHANGED apicVars

\* init_heap's outer loop body: the table of the next 2 MiB frame, and
\* the inner iterator over its 4 KiB frames
HeapTwoMb ==
    /\ AtLoopHead
    /\ call.fn = "pages"
    /\ IterDone(it)
    /\ ~IterDone(outer)
    /\ tbl' = GetTable(pt, IterAt(outer))
    /\ it' = NewIter(IterAt(outer), InnerLength(IterAt(outer)), FourKb)
    /\ outer' = IterNext(outer)
    /\ UNCHANGED <<allocVars, phase, pt, calls, call, va, stage>>
    /\ UNCHANGED apicVars

\* the to_virtual() address whose level-One entry a heap page is set at
HeapEntryAddrOf2Mb(page) == PhysMemVirtAddr + MM!AlignDown(page, TwoMb)

HeapEntryAddr(page) == PhysMemVirtAddr + page

\* init_heap's inner loop body: a frame for the page, set in the table
HeapPage ==
    /\ AtLoopHead
    /\ call.fn = "pages"
    /\ ~IterDone(it)
    /\ LET r == MM!ScanFrom(MM!Usable(map), cur, [next |-> next, cur |-> cur])
       IN  /\ MM!FrameDone(r)
           /\ IF r.res = None
              THEN phase' = "failed" /\ UNCHANGED pt
              ELSE /\ pt' = SetEntry(pt, tbl.table, GetEntry(HeapEntryAddr(IterAt(it)), tbl.level),
                                     Pte(r.res, PW))
                   /\ UNCHANGED phase
    /\ it' = IterNext(it)
    /\ UNCHANGED <<fw, image, map, start, calls, call, outer, va, tbl, stage>>
    /\ UNCHANGED apicVars

\* a read of physical address a through to_virtual(): it faults unless
\* the window maps a
Readable(a) == ToPhys(pt, PhysMemVirtAddr + a) # None

\* what a `?` on a result does to setup(): on "ok" it goes on to stage s,
\* a fault stops it, an Err returns
Outcome(o, s) ==
    CASE o = "ok"    -> acpi' = s /\ UNCHANGED <<phase, err>>
      [] o = "fault" -> phase' = "fault" /\ UNCHANGED <<acpi, err>>
      [] OTHER       -> phase' = "failed" /\ err' = o /\ UNCHANGED acpi

\* setup() is past every loop that maps pages, at the ACPI stage s
AtAcpi(s) ==
    /\ AtLoopHead
    /\ calls = <<>>
    /\ IterDone(it) /\ IterDone(outer)
    /\ acpi = s

\* the root table RSDP::get_table picks, its entry size, and the MADT
RootTable == acpiFw.tables[AC!RootAddr(acpiFw.rsdp)]
RootSize == AC!EntrySize(acpiFw.rsdp)
MadtAddr == AC!FindTable(acpiFw.tables, RootTable, RootSize, "APIC")
Madt == acpiFw.tables[MadtAddr]

\* acpi::init_rsdp_and_rsdt(rsdp_addr)?: RSDP.validate()?, then the
\* RSDT or XSDT it points to, validate()?
RsdtResult ==
    LET r == acpiFw.rsdp
    IN  IF ~Readable(r.addr) THEN "fault"
        ELSE IF ~AC!RsdpValid(r) THEN "rsdp"
        ELSE IF ~Readable(AC!RootAddr(r)) THEN "fault"
        ELSE IF ~AC!RootValid(RootTable, RootSize) THEN "root"
        ELSE "ok"

InitRsdpAndRsdt ==
    /\ AtAcpi("none")
    /\ Outcome(RsdtResult, "rsdt")
    /\ UNCHANGED <<allocVars, bootVars, acpiFw, ioapic>>

\* acpi::init_madt()?: find_table("APIC") reads the signature of each
\* table the root table lists, up to the MADT
MadtResult ==
    IF \E a \in AC!Probed(acpiFw.tables, RootTable, RootSize, "APIC") : ~Readable(a) THEN "fault"
    ELSE IF MadtAddr = None THEN "madt"
    ELSE "ok"

InitMadt ==
    /\ AtAcpi("rsdt")
    /\ Outcome(MadtResult, "madt")
    /\ UNCHANGED <<allocVars, bootVars, acpiFw, ioapic>>

\* map_apic_registers(madt.get_lapic_addr(), madt.get_io_apic_addr_base_0()?):
\* the arguments are read from the MADT, then its two map_physical_region
\* calls run as the loops before them
MapApicRegisters ==
    /\ AtAcpi("madt")
    /\ LET o == IF ~Readable(MadtAddr) THEN "fault"
                ELSE IF AC!IoApicBase0(Madt) = None THEN "ioapic"
                ELSE "ok"
       IN  /\ Outcome(o, "mapping")
           /\ calls' = IF o = "ok"
                       THEN << Call("apic", "phys", Madt.lapic, FourKb),
                              Call("apic", "phys", AC!IoApicBase0(Madt), FourKb) >>
                       ELSE calls
    /\ UNCHANGED <<allocVars, pt, call, it, outer, va, tbl, stage, acpiFw, ioapic>>

\* the redirection index and flags io_apic::init keeps for an ISA irq:
\* the override's global_system_interrupt and flags, if the MADT has one
Redirect(idx, flags, irq) ==
    LET iso == AC!SourceOverride(Madt, irq)
    IN  IF iso = <<>> THEN [idx |-> idx, flags |-> flags]
        ELSE [idx |-> IrqIndexBase + iso[1].gsi * 2, flags |-> iso[1].flags]

\* interrupts::init_hardware_interrupts: init_apic returns Err when cpuid
\* lacks the APIC bit; else the PIC is masked (port I/O), the LAPIC base
\* kept, and io_apic::init sets BASE_ADDR and applies the overrides of
\* the system timer (irq 0) and the keyboard (irq 1)
InitHardwareInterrupts ==
    /\ AtAcpi("mapping")
    /\ \E supportsApic \in BOOLEAN :
          IF ~supportsApic
          THEN Outcome("cpu", "apic") /\ UNCHANGED ioapic
          ELSE LET t == Redirect(ioapic.timer, ioapic.timerFlags, 0)
                   k == Redirect(ioapic.kbd, ioapic.kbdFlags, 1)
               IN  /\ Outcome("ok", "apic")
                   /\ ioapic' = [base |-> AC!IoApicBase0(Madt), timer |-> t.idx,
                                 timerFlags |-> t.flags, kbd |-> k.idx, kbdFlags |-> k.flags]
    /\ UNCHANGED <<allocVars, bootVars, acpiFw>>

\* remove_first_2mb_identity_mapping, the last step of setup(): the
\* identity PT keeps entries 0..7 (the stack at 0x1000-0x8000)
IdentityKept == 8

RemoveFirst2mbIdentity ==
    /\ AtLoopHead
    /\ calls = <<>>
    /\ IterDone(it) /\ IterDone(outer)
    /\ acpi = "apic"
    /\ LET t3 == pt[Cr3].e[0]
           t2 == pt[t3.addr].e[0]
           t1 == pt[t2.addr].e[0]
       IN  IF IsTableEntry(t3, 4) /\ IsTableEntry(t2, 3) /\ IsTableEntry(t1, 2)
           THEN /\ pt' = [pt EXCEPT ![t1.addr].e =
                             [i \in Idx |-> IF i >= IdentityKept THEN Empty ELSE @[i]]]
                /\ phase' = "done"
           ELSE phase' = "fault" /\ UNCHANGED pt
    /\ UNCHANGED <<allocVars, calls, call, it, outer, va, tbl, stage, apicVars>>

\* setup() has returned Ok, or an Err or a fault has stopped it
Halted ==
    /\ phase \in {"done", "failed", "fault"}
    /\ UNCHANGED vars

Next ==
    \/ LoadSegments \/ MapFirst2mb \/ E820Init \/ NewFrameAllocator
    \/ StartCall \/ PhysFrame \/ TablesFrame \/ NewTable \/ LevelsDone
    \/ HeapTwoMb \/ HeapPage
    \/ InitRsdpAndRsdt \/ InitMadt \/ MapApicRegisters \/ InitHardwareInterrupts
    \/ RemoveFirst2mbIdentity
    \/ Halted

Spec == Init /\ [][Next]_vars

\* setup() runs on the BSP alone with interrupts off: every enabled step
\* is eventually taken
FairSpec == Spec /\ WF_vars(Next)


-----------------------------------------------------------------------------
(* Properties *)

TypeOK ==
    /\ phase \in {"loader", "boot", "fw", "map", "alloc", "done", "failed", "fault"}
    /\ stage \in {"idle", "loop"}
    /\ tbl.level \in 1..4
    /\ \A t \in DOMAIN pt : pt[t].level \in 1..4 /\ DOMAIN pt[t].e = Idx
    /\ frames \in Seq(Nat)
    /\ acpi \in {"none", "rsdt", "madt", "mapping", "apic"}
    /\ err \in {"none", "rsdp", "root", "madt", "ioapic", "cpu"}

\* the physical addresses of the instances: 4 GiB
MaxPhys == 4 * Span(3)
FrameSet == {k * FourKb : k \in 0 .. MaxPhys \div FourKb - 1}

\* The window maps every physical address to itself: wherever
\* PHYS_MEM_VIRT_ADDR + a translates, get_table and to_phys find a.  It
\* rests on get_entry's and get_offset's shifts, on the PDT index of the
\* huge entries map_physical_region sets, and on the tables it allocates
\* being hung at the right entries.
PhysWindowIdentity == \A a \in FrameSet : ToPhys(pt, PhysMemVirtAddr + a) \in {None, a}

\* the loops of caller `who` are over, without an Err
Returned(who) ==
    /\ phase \in {"alloc", "done"}
    /\ \A k \in 1 .. Len(calls) : calls[k].who # who
    /\ call.who = who => IterDone(it) /\ IterDone(outer) /\ stage = "idle"

RegionProbes(base, len) == {a \in base .. base + len - 1 : a = base \/ a % FourKb = 0}

\* Once map_framebuffer, map_physical_memory or map_apic_registers has
\* returned Ok, every address of the regions it was given is reachable
\* through the window (the doc comment: "maps entire physical memory
\* reported by the BIOS"): MemoryRegionIterator's rounding, the tables
\* allocated on the way and the huge entries cover each region.
PhysicalMemoryMapped ==
    LET regions ==
            (IF Returned("fb") THEN {[base |-> Framebuffer.base, len |-> Framebuffer.len]} ELSE {})
            \cup (IF Returned("mem") THEN {[base |-> map[k].base, len |-> map[k].length] : k \in 1 .. Len(map)} ELSE {})
            \cup (IF acpi \in {"mapping", "apic"} /\ Returned("apic")
                  THEN {[base |-> Madt.lapic, len |-> FourKb],
                        [base |-> AC!IoApicBase0(Madt), len |-> FourKb]} ELSE {})
    IN  \A r \in regions : \A a \in RegionProbes(r.base, r.len) : ToPhys(pt, PhysMemVirtAddr + a) = a

\* entries that point at a table, and the heap's page entries
Pointers == {p \in (DOMAIN pt) \X Idx : IsTableEntry(pt[p[1]].e[p[2]], pt[p[1]].level)}
HeapEntries == {p \in (DOMAIN pt \ {BootTables[3], KernelTables[3]}) \X Idx :
                    pt[p[1]].level = 1 /\ IsMapped(pt[p[1]].e[p[2]])}
PointsTo(p) == pt[p[1]].e[p[2]].addr

\* Every frame has one use: a table is hung at one entry only (never at
\* the PML4's place), and a heap page is neither a table nor another heap
\* page.  It rests on map_first_2mb moving conventional_mem_addr past its
\* two tables and on the allocator never handing a frame out twice.
FramesExclusive ==
    LET uses == Pointers \cup HeapEntries
    IN  /\ \A p, q \in uses : p # q => PointsTo(p) # PointsTo(q)
        /\ \A p \in HeapEntries : PointsTo(p) \notin DOMAIN pt
        /\ \A p \in Pointers : PointsTo(p) # Cr3

\* Once init_heap has returned Ok, each page of [HEAP_BASE, HEAP_BASE +
\* HEAP_LENGTH) is mapped, to a frame of its own, before
\* ALLOCATOR.lock().init hands the region to the heap allocator.
HeapMapped ==
    Returned("heap") =>
        LET pages == {HeapBase + k * FourKb : k \in 0 .. HeapLength \div FourKb - 1}
            phys == {ToPhys(pt, v) : v \in pages}
        IN  None \notin phys /\ Cardinality(phys) = Cardinality(pages)

\* setup() never faults: every frame map_table_at clears is already
\* reachable through the window (only the first 2 MiB is, until
\* map_physical_memory), and the identity tables are still there for
\* remove_first_2mb_identity_mapping.
NoFault == phase # "fault"

\* The reference reading of the firmware's tables (the ACPI
\* specification): every byte of the RSDP's first 20 sums to 0 modulo
\* 256, and from revision 2 on every byte of all 36 does; every byte of
\* the root table, header and entry array, sums to 0; the root table
\* lists a table signed "APIC"; the MADT lists an IO APIC whose
\* interrupts start at 0.
RefRsdpOk == LET r == acpiFw.rsdp IN
    /\ FoldLeft(+, 0, AC!RsdpImage1(r)) % 256 = 0
    /\ r.revision >= 2 => FoldLeft(+, 0, AC!RsdpImage1(r) \o AC!RsdpImage2(r)) % 256 = 0
RefRootOk ==
    LET es == RootTable.entries
    IN  FoldLeft(+, 0, AC!HeaderImage(RootTable)
                       \o FlattenSeq([k \in 1 .. Len(es) |-> AC!LeBytes(es[k], RootSize)])) % 256 = 0
RefMadtListed == \E a \in ToSet(RootTable.entries) : acpiFw.tables[a].sig = "APIC"
RefIoApics == {e \in ToSet(Madt.list) : e.type = AC!IoApicType /\ e.gsiBase = 0}

\* setup() turns the firmware's tables down for the reason they are
\* wrong and only then: RSDP::validate's two remainders, the root
\* table's per-entry remainders summed and taken modulo 256, find_table's
\* walk of the root entries and get_io_apic_addr_base_0's walk of the
\* MADT by entry lengths each agree with the reference reading, and
\* whatever setup() gets past was right.
AcpiVerdict ==
    /\ err = "rsdp" => ~RefRsdpOk
    /\ err = "root" => RefRsdpOk /\ ~RefRootOk
    /\ err = "madt" => RefRsdpOk /\ RefRootOk /\ ~RefMadtListed
    /\ err = "ioapic" => RefMadtListed /\ RefIoApics = {}
    /\ acpi # "none" => RefRsdpOk /\ RefRootOk
    /\ acpi \in {"madt", "mapping", "apic"} => RefMadtListed
    /\ acpi \in {"mapping", "apic"} => RefIoApics # {}

\* the redirection register and flags the ISA interrupt irq is wired to:
\* the MADT's override of it, if any, else the identity
RefRoute(irq) ==
    LET isos == {e \in ToSet(Madt.list) : e.type = AC!IsoType /\ e.irq = irq}
    IN  IF isos = {} THEN [idx |-> IrqIndexBase + 2 * irq, flags |-> 0]
        ELSE LET e == CHOOSE e \in isos : TRUE
             IN  [idx |-> IrqIndexBase + 2 * e.gsi, flags |-> e.flags]

\* Once init_hardware_interrupts has returned Ok, io_apic's statics name
\* the IO APIC at interrupt base 0 and the redirection entries (and
\* IsoFlags) the MADT's source overrides give the system timer and the
\* keyboard: the entries io_apic::init finds by walking the MADT are the
\* ones the firmware listed for those ISA interrupts.
IoApicRouting ==
    acpi = "apic" =>
        /\ ioapic.base \in {e.addr : e \in RefIoApics}
        /\ [idx |-> ioapic.timer, flags |-> ioapic.timerFlags] = RefRoute(0)
        /\ [idx |-> ioapic.kbd, flags |-> ioapic.kbdFlags] = RefRoute(1)

\* the entry the walk of v ends at
LeafEntry(p, v) == LET w == GetTable(p, v) IN p[w.table].e[GetEntry(v, w.level)]

\* the LOAD segments of the kernel ELF
LoadSegs(k) == {k.phdrs[j] : j \in {j \in 1 .. Len(k.phdrs) : k.phdrs[j].type = 1}}

\* From load_segments on, every LOAD segment is reachable at its virtual
\* address (probed at its start and at each page) and translates to its
\* own byte of the ELF image
\* (kernel_addr + p_offset + the distance from p_vaddr), through all of
\* setup(): the shifts and rounding of load_segments, the tables it hangs
\* into the bootloader's and the entries setup() adds and removes must all
\* agree.  Its pages are writable if the segment is PF_W and executable if
\* it is PF_X.  Nor is a frame of the kernel ever handed out by the frame
\* allocator or made a page table.
KernelMapped ==
    phase \notin {"loader", "fault"} =>
        \A h \in LoadSegs(image) : \A v \in RegionProbes(h.vaddr, h.memsz) :
            LET a == ToPhys(pt, v)
            IN  /\ a = image.base + h.offset + (v - h.vaddr)
                /\ a - (a % FourKb) \notin ToSet(frames) \cup DOMAIN pt
                /\ (h.flags \div 2) % 2 = 1 => "writable" \in LeafEntry(pt, v).flags
                /\ h.flags % 2 = 1 => "nx" \notin LeafEntry(pt, v).flags

\* The kernel image is never handed out as a frame (MemoryMap).
FramesAvoidImage == MM!FramesAvoidImage

\* The frame allocator implements FramePool: from FrameAllocator::new on,
\* every get_next_frame of setup() returns a free Ram frame at or above
\* conventional_mem_addr that it has not returned before, and None only
\* once all of them are out.
FP == INSTANCE FramePool WITH
          pool <- IF phase \in {"loader", "boot", "fw", "map"} THEN {} ELSE MM!FreeFrames,
          handed <- frames,
          dry <- exhausted

FrameAllocatorRefinement == FP!Spec

\* setup()'s memory bring-up ends: Ok, an Err, or a fault; no loop of
\* it runs forever.
BootTerminates == <>(phase \in {"done", "failed", "fault"})

=============================================================================
