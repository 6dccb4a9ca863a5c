------------------------------- MODULE MemoryMap -------------------------------
(***************************************************************************)
(* The boot-time memory map of memory/e820_memory_map.rs and the frame     *)
(* allocator of memory/mod.rs.                                             *)
(*                                                                         *)
(* e820_memory_map::init runs once on the firmware's map: it finds the     *)
(* entry holding the kernel image, splits it so that the image has a       *)
(* Reserved entry of its own, sorts the map and aligns every Ram entry to  *)
(* a frame.  FrameAllocator::new then places a cursor, and every           *)
(* get_next_frame hands out the frame under it and advances it.            *)
(*                                                                         *)
(* Addresses are in units of 1 KiB, so a 4 KiB frame is FourKb = 4 units;  *)
(* the arithmetic of the code is unchanged by the scale.  An entry is a    *)
(* record [base, length, type]; type is the MemoryMapRegionType            *)
(* discriminant (the extended attributes, 1 everywhere, never decide the   *)
(* order).                                                                 *)
(***************************************************************************)
EXTENDS Integers, Sequences, SequencesExt, TLC

CONSTANTS
    FourKb,        \* FrameSize::FourKb.to_bytes(), in address units
    FirmwareMaps,  \* the e820 maps the firmware may hand over
    Images,        \* [base, len] of the kernel image the loader reports
    Starts         \* conventional_mem_addr: where the frame cursor starts

Ram == 1
Reserved == 2

\* Option::None of get_next_frame
None == -1

VARIABLES
    fw,         \* the firmware's map as the bootloader left it
    image,      \* [base, len] of the kernel image
    map,        \* MemoryMap.entries[0..size]
    phase,      \* "fw", "map" (normalised), "alloc" (allocator built), "failed"
    start,      \* the conventional_mem_addr the allocator was given
    next,       \* FrameAllocator.next_frame_addr
    cur,        \* FrameAllocator.cur_entry, 1-based
    frames,     \* the frames get_next_frame returned, in order
    exhausted   \* get_next_frame returned None

vars == <<fw, image, map, phase, start, next, cur, frames, exhausted>>

\* memory::align_down and memory::align_up
AlignDown(v, b) == v - (v % b)
AlignUp(v, b) == IF v % b = 0 THEN v ELSE v + (b - (v % b))

\* MemoryRegion::is_within: [base, base+len) lies inside the entry
IsWithin(e, base, len) == base >= e.base /\ base + len <= e.base + e.length

Entry(base, len, type) == [base |-> base, length |-> len, type |-> type]

\* init's search for the entry that holds the image; 0 when there is none
KernelEntryIndex(m, img) ==
    LET hits == {i \in 1..Len(m) : IsWithin(m[i], img.base, img.len)}
    IN  IF hits = {} THEN 0 ELSE CHOOSE i \in hits : \A j \in hits : i <= j

\* MemoryMap::add_entry: insert e at index i, shifting the rest up
AddEntry(m, e, i) == InsertAt(m, i, e)

SplitBeforeNoShift(m, img, i) ==
    IF m[i].base < img.base
    THEN [map |-> AddEntry(m, Entry(m[i].base, img.base - m[i].base, Ram), i), idx |-> i]
    ELSE [map |-> m, idx |-> i]

\* the Ram entry before the image, if the entry starts below it; the
\* image's entry moves up by one
SplitBefore(m, img, i) ==
    IF m[i].base < img.base
    THEN [map |-> AddEntry(m, Entry(m[i].base, img.base - m[i].base, Ram), i), idx |-> i + 1]
    ELSE [map |-> m, idx |-> i]

\* the Ram entry after the image, if the entry ends beyond it
SplitAfter(s, img) ==
    LET e == s.map[s.idx]
    IN  IF e.base + e.length > img.base + img.len
        THEN [s EXCEPT !.map = AddEntry(@, Entry(img.base + img.len,
                                                  e.base + e.length - (img.base + img.len), Ram),
                                         s.idx + 1)]
        ELSE s

\* the image's own entry becomes exactly the image, Reserved
MarkReserved(s, img) == [s.map EXCEPT ![s.idx] = Entry(img.base, img.len, Reserved)]

\* the derived Ord of MemoryMapEntry: base, then length, then type
EntryLess(a, b) ==
    \/ a.base < b.base
    \/ a.base = b.base /\ a.length < b.length
    \/ a.base = b.base /\ a.length = b.length /\ a.type < b.type

\* MemoryMap::sort
SortMap(m) == SortSeq(m, EntryLess)

\* init's last loop: every Ram entry's base aligned up and, separately,
\* its length aligned down
AlignUsable(m) ==
    [i \in 1..Len(m) |->
        IF m[i].type = Ram
        THEN [m[i] EXCEPT !.base = AlignUp(@, FourKb), !.length = AlignDown(@, FourKb)]
        ELSE m[i]]

\* e820_memory_map::init after the search found entry i
SplitAndNormalise(m, img, i) ==
    AlignUsable(SortMap(MarkReserved(SplitAfter(SplitBefore(m, img, i), img), img)))

\* MemoryMap::iter_usable
Usable(m) == SelectSeq(m, LAMBDA e : e.type = Ram)

\* FrameAllocator::new: the first usable entry holding the frame at addr,
\* else the first usable entry
NewCur(u, addr) ==
    LET hits == {i \in 1..Len(u) : IsWithin(u[i], addr, FourKb)}
    IN  IF hits = {} THEN 1 ELSE CHOOSE i \in hits : \A j \in hits : i <= j

\* get_next_frame: a cursor below usable entry i jumps to its base
Jump(e, i, s) == IF s.next < e.base THEN [next |-> e.base, cur |-> i] ELSE s

TakeNoAdvance(s) == [res |-> s.next, next |-> s.next, cur |-> s.cur]

\* get_next_frame: hand out the frame under the cursor and advance
Take(s) == [res |-> s.next, next |-> s.next + FourKb, cur |-> s.cur]

\* get_next_frame's loop over the usable entries from index i on, with
\* the cursor s = [next, cur]; res is the frame returned or None
RECURSIVE ScanFrom(_, _, _), TakeOrSkip(_, _, _)
ScanFrom(u, i, s) ==
    IF i > Len(u) THEN [res |-> None, next |-> s.next, cur |-> s.cur]
    ELSE TakeOrSkip(u, i, Jump(u[i], i, s))

TakeOrSkip(u, i, s) ==
    IF IsWithin(u[i], s.next, FourKb) THEN Take(s) ELSE ScanFrom(u, i + 1, s)

Init ==
    /\ fw \in FirmwareMaps
    /\ image \in Images
    /\ map = fw
    /\ phase = "fw"
    /\ start \in Starts
    /\ next = start
    /\ cur = 1
    /\ frames = <<>>
    /\ exhausted = FALSE

\* e820_memory_map::init; no entry holding the image is an Err, and
\* kernel_main returns it: the boot stops
E820Init ==
    /\ phase = "fw"
    /\ LET i == KernelEntryIndex(map, image)
       IN  IF i = 0
           THEN phase' = "failed" /\ UNCHANGED map
           ELSE phase' = "map" /\ map' = SplitAndNormalise(map, image, i)
    /\ UNCHANGED <<fw, image, start, next, cur, frames, exhausted>>

\* FrameAllocator::new(memory_map, start_conventional_addr, FourKb)
NewFrameAllocator ==
    /\ phase = "map"
    /\ phase' = "alloc"
    /\ cur' = NewCur(Usable(map), next)
    /\ UNCHANGED <<fw, image, start, map, next, frames, exhausted>>

\* the frame allocator's state after a get_next_frame returned r; a None
\* makes its caller (map_framebuffer, map_physical_region, init_heap) fail
FrameDoneAppendNone(r) ==
    /\ next' = r.next
    /\ cur' = r.cur
    /\ frames' = Append(frames, r.res)
    /\ exhausted' = (r.res = None)

FrameDone(r) ==
    /\ next' = r.next
    /\ cur' = r.cur
    /\ frames' = IF r.res = None THEN frames ELSE Append(frames, r.res)
    /\ exhausted' = (r.res = None)

GetNextFrame ==
    /\ phase = "alloc"
    /\ ~exhausted
    /\ FrameDone(ScanFrom(Usable(map), cur, [next |-> next, cur |-> cur]))
    /\ UNCHANGED <<fw, image, start, map, phase>>

Next == E820Init \/ NewFrameAllocator \/ GetNextFrame

Spec == Init /\ [][Next]_vars

-----------------------------------------------------------------------------
(* Properties.  The boot run checks FramesAvoidImage and, through      *)
(* FramePool, the allocator's freshness and exhaustion in Boot.         *)

\* No frame overlaps the kernel image: the split and the Reserved entry
\* of init keep the allocator out of the loaded kernel.
FramesAvoidImage ==
    \A i \in 1..Len(frames) :
        frames[i] + FourKb <= image.base \/ image.base + image.len <= frames[i]

MapEnd == LET ends == {map[k].base + map[k].length : k \in 1..Len(map)}
          IN  CHOOSE x \in ends : \A y \in ends : x >= y

\* The frames of the normalised Ram entries at or above the cursor's start:
\* the pool of the abstract allocator (FramePool) in Boot.
FreeFrames ==
    {f \in start..MapEnd :
        f % FourKb = 0 /\ \E k \in 1..Len(map) : map[k].type = Ram /\ IsWithin(map[k], f, FourKb)}

\* Frames come only from Ram (spec section 8, property 2: "never within
\* a non-Ram region"): every frame lies inside a Ram entry of the map the
\* firmware reported.
FramesInRam ==
    \A i \in 1..Len(frames) :
        \E k \in 1..Len(fw) : fw[k].type = Ram /\ IsWithin(fw[k], frames[i], FourKb)

=============================================================================
