-------------------------------- MODULE KAlloc --------------------------------
(***************************************************************************)
(* The kernel heap allocator of memory/kalloc.rs: a FixedSizeBlockAllocator *)
(* (one free list of blocks per size class) in front of a                  *)
(* LinkedListAllocator (a first-fit list of free regions that never        *)
(* coalesces).  Both sit behind one Spinlock, so alloc and dealloc are     *)
(* atomic here; every one of them is a single action.                      *)
(*                                                                         *)
(* Addresses are byte offsets from HEAP_BASE.  HEAP_BASE is aligned far    *)
(* beyond any alignment a request uses, so an offset is aligned exactly    *)
(* when the address is.  A layout is a record [size, align] in bytes.      *)
(***************************************************************************)
EXTENDS Integers, Sequences, SequencesExt, FiniteSetsExt, TLC

CONSTANTS
    BlockSizes,   \* BLOCK_SIZES, a prefix of the size classes
    HeapLength,   \* HEAP_LENGTH in bytes
    Layouts,      \* the layouts the kernel's clients request
    MaxLive       \* bound on live allocations held at once

\* size_of::<ListNode>() and align_of::<ListNode>() on x86_64
NodeSize == 16
NodeAlign == 8

\* ptr::null_mut(): address 0, an offset below the heap
Null == -1024

Region == [start : Nat, len : Nat]

VARIABLES
    free,    \* LinkedListAllocator: head.next, ..., as a sequence of regions
    heads,   \* FixedSizeBlockAllocator.heads: class -> stack of block offsets
    live,    \* the allocations the kernel holds: [ptr, size, align]
    last     \* the pointer the last alloc returned

vars == <<free, heads, live, last>>

Classes == 1..Len(BlockSizes)

IsAligned(v, b) == v % b = 0

AlignUp(v, b) == IF IsAligned(v, b) THEN v ELSE v + (b - (v % b))

\* get_index: the smallest class holding max(size, align), 0 for none
GetIndex(l) ==
    LET fits == {i \in Classes : BlockSizes[i] >= Max({l.size, l.align})}
    IN  IF fits = {} THEN 0 ELSE Min(fits)

\* adjust_layout: align to the node, pad the size to the alignment, and
\* make room for a node
AdjustLayout(l) ==
    LET al == Max({l.align, NodeAlign})
    IN  [size |-> Max({AlignUp(l.size, al), NodeSize}), align |-> al]

\* add_free_region: push a region on the front of the list
AddFreeRegion(fl, addr, len) ==
    IF Assert(IsAligned(addr, NodeAlign) /\ len >= NodeSize,
              "add_free_region: misaligned or short region")
    THEN Cons([start |-> addr, len |-> len], fl)
    ELSE fl

\* alloc_from_region's two tests on an allocation at start s: it ends
\* inside the region, and leaves either nothing or room for a node
FitsAt(r, s, len) ==
    /\ s + len <= r.start + r.len
    /\ \/ r.start + r.len = s + len
       \/ r.start + r.len >= s + len + NodeSize

\* alloc_from_region: the aligned start if the region fits, else an error
AllocFromRegion(r, len, al) ==
    IF FitsAt(r, AlignUp(r.start, al), len) THEN AlignUp(r.start, al) ELSE Null

\* find_region: the first region of the list that fits
FindRegion(fl, len, al) ==
    LET ok == {i \in 1..Len(fl) : AllocFromRegion(fl[i], len, al) # Null}
    IN  IF ok = {} THEN 0 ELSE Min(ok)

\* LinkedListAllocator::alloc after the region r is unlinked (rest is the
\* list without it): the excess past the allocation at s is given back;
\* the bytes skipped to align s are not
SplitRegion(rest, r, size, s) ==
    [ptr |-> s,
     free |-> IF r.start + r.len > s + size
              THEN AddFreeRegion(rest, s + size, r.start + r.len - (s + size))
              ELSE rest]

TakeRegionNoUnlink(fl, l, i) ==
    IF i = 0 THEN [ptr |-> Null, free |-> fl]
    ELSE SplitRegion(fl, fl[i], l.size, AllocFromRegion(fl[i], l.size, l.align))

\* find_region's unlink of the i-th region (none when i = 0)
TakeRegion(fl, l, i) ==
    IF i = 0 THEN [ptr |-> Null, free |-> fl]
    ELSE SplitRegion(RemoveAt(fl, i), fl[i], l.size, AllocFromRegion(fl[i], l.size, l.align))

\* LinkedListAllocator::alloc for an adjusted layout
CarveAdjusted(fl, l) == TakeRegion(fl, l, FindRegion(fl, l.size, l.align))

\* LinkedListAllocator::alloc: [ptr, free] after the call
FallbackAlloc(fl, layout) == CarveAdjusted(fl, AdjustLayout(layout))

ScrapBlockNoAdd(st, j) ==
    [st EXCEPT !.ok = TRUE, !.heads[j] = Tail(@)]

\* scrap_free_blocks' move of the first block of class j to the fallback
ScrapBlock(st, j) ==
    [st EXCEPT !.ok = TRUE, !.heads[j] = Tail(@),
               !.free = AddFreeRegion(st.free, Head(st.heads[j]), BlockSizes[j])]

\* scrap_free_blocks: scrap from the first non-empty class above the
\* request's class, if the request has a class
ScrapFreeBlocks(st, l) ==
    LET full == {j \in Classes : GetIndex(l) # 0 /\ j > GetIndex(l) /\ st.heads[j] # <<>>}
    IN  IF full = {} THEN [st EXCEPT !.ok = FALSE] ELSE ScrapBlock(st, Min(full))

CarveResultNoNullCheck(hd, idx, r) ==
    [ptr |-> r.ptr, free |-> r.free, ok |-> TRUE,
     heads |-> IF idx # 0 /\ BlockSizes[idx] = 8
               THEN [hd EXCEPT ![idx] = Cons(r.ptr + 8, @)] ELSE hd]

\* alloc's first try after a fallback call returned r: a 16-byte slice
\* carved for class 8 gives its second half to the 8-byte list
CarveResult(hd, idx, r) ==
    [ptr |-> r.ptr, free |-> r.free, ok |-> TRUE,
     heads |-> IF idx # 0 /\ r.ptr # Null /\ BlockSizes[idx] = 8
               THEN [hd EXCEPT ![idx] = Cons(r.ptr + 8, @)] ELSE hd]

\* alloc before its retry: pop the class, or carve a class-sized block
\* (alignment 1) from the fallback; requests above every class go to the
\* fallback as they are
FirstTryAt(fl, hd, l, idx) ==
    IF idx # 0 /\ hd[idx] # <<>>
    THEN [ptr |-> Head(hd[idx]), free |-> fl, heads |-> [hd EXCEPT ![idx] = Tail(@)], ok |-> TRUE]
    ELSE CarveResult(hd, idx,
           FallbackAlloc(fl, IF idx = 0 THEN l ELSE [size |-> BlockSizes[idx], align |-> 1]))

FirstTry(fl, hd, l) == FirstTryAt(fl, hd, l, GetIndex(l))

\* the state after the retry's fallback call returned r
WithRetry(sc, r) == [sc EXCEPT !.ptr = r.ptr, !.free = r.free]

\* the retry after a successful scrap uses the caller's own layout
RetryAfterScrap(sc, l) == IF ~sc.ok THEN sc ELSE WithRetry(sc, FallbackAlloc(sc.free, l))

\* GlobalAlloc::alloc: on a null result scrap one block and retry
Retry(st, l) == IF st.ptr # Null THEN st ELSE RetryAfterScrap(ScrapFreeBlocks(st, l), l)

AllocResult(fl, hd, l) == Retry(FirstTry(fl, hd, l), l)

Init ==
    /\ free = <<[start |-> 0, len |-> HeapLength]>>
    /\ heads = [i \in Classes |-> <<>>]
    /\ live = <<>>
    /\ last = Null

\* a client allocates with layout l; a null result leaves it without memory
AllocDone(l, r) ==
    /\ free' = r.free
    /\ heads' = r.heads
    /\ last' = r.ptr
    /\ live' = IF r.ptr = Null THEN live
               ELSE Append(live, [ptr |-> r.ptr, size |-> l.size, align |-> l.align])

Alloc(l) ==
    /\ Len(live) < MaxLive
    /\ AllocDone(l, AllocResult(free, heads, l))

\* GlobalAlloc::dealloc of the k-th live allocation with its own layout
Dealloc(k) ==
    LET a == live[k]
        l == [size |-> a.size, align |-> a.align]
        idx == GetIndex(l)
    IN  /\ heads' = IF idx # 0 THEN [heads EXCEPT ![idx] = Cons(a.ptr, @)] ELSE heads
        /\ free' = IF idx # 0 THEN free ELSE AddFreeRegion(free, a.ptr, AdjustLayout(l).size)
        /\ live' = RemoveAt(live, k)
        /\ UNCHANGED last

Next ==
    \/ \E l \in Layouts : Alloc(l)
    \/ \E k \in 1..Len(live) : Dealloc(k)

Spec == Init /\ [][Next]_vars

-----------------------------------------------------------------------------
(* Properties *)

TypeOK ==
    /\ free \in Seq(Region)
    /\ heads \in [Classes -> Seq(Nat)]
    /\ live \in Seq([ptr : Nat, size : Nat, align : Nat])
    /\ last \in Nat \cup {Null}

\* The byte ranges every piece of the heap covers: live allocations (their
\* requested size), free regions of the fallback list, and free blocks.
Pieces ==
    [i \in 1..Len(live) |-> [start |-> live[i].ptr, len |-> live[i].size]]
    \o free
    \o FlattenSeq([c \in Classes |->
          [k \in 1..Len(heads[c]) |-> [start |-> heads[c][k], len |-> BlockSizes[c]]]])

Disjoint(a, b) == a.start + a.len <= b.start \/ b.start + b.len <= a.start

\* Memory safety of alloc and dealloc together: no byte is handed out twice
\* or is both handed out and free, and every piece lies inside the heap.
\* Breaking it takes an alloc, a scrap, a dealloc and a re-alloc in a row.
NoOverlap ==
    LET P == Pieces
    IN  /\ \A i \in 1..Len(P) : P[i].start + P[i].len <= HeapLength
        /\ \A i, j \in 1..Len(P) : i < j => Disjoint(P[i], P[j])

\* Every pointer alloc returns is aligned to the request's alignment
\* (spec 4.4: "aligned to the larger of the request's alignment and the
\* back-end node alignment").
AllocAligned == \A i \in 1..Len(live) : IsAligned(live[i].ptr, live[i].align)

\* Scrap correctness (spec, heap invariant 5): when the request has a class
\* and a larger class holds a free block, alloc does not return null.
ScrapSucceeds ==
    [][\A l \in Layouts :
         (/\ GetIndex(l) # 0
          /\ \E j \in Classes : j > GetIndex(l) /\ heads[j] # <<>>
          /\ Alloc(l))
         => last' # Null]_vars

=============================================================================
