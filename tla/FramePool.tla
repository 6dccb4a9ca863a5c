------------------------------- MODULE FramePool -------------------------------
(***************************************************************************)
(* What the frame allocator of memory/mod.rs promises its callers, without *)
(* how it finds a frame: once it is opened on a pool of free frames, each  *)
(* call hands out one frame of the pool that it has not handed out before, *)
(* and it says "none left" only when every frame of the pool is handed     *)
(* out.  Nothing is ever given back (the kernel has no free_frame).        *)
(***************************************************************************)
EXTENDS Sequences, SequencesExt

CONSTANT FrameSet   \* every frame address there is

VARIABLES
    pool,    \* the free frames the allocator was opened on; {} before
    handed,  \* the frames handed out, in order
    dry      \* a call answered "none left"

poolVars == <<pool, handed, dry>>

Init ==
    /\ pool = {}
    /\ handed = <<>>
    /\ dry = FALSE

\* the allocator is built over some set of free frames
Open ==
    /\ pool = {} /\ handed = <<>>
    /\ pool' \in SUBSET FrameSet
    /\ UNCHANGED <<handed, dry>>

\* a call returns a free frame not returned before
Give ==
    /\ ~dry
    /\ \E f \in pool \ ToSet(handed) : handed' = Append(handed, f)
    /\ UNCHANGED <<pool, dry>>

\* a call returns nothing: the pool is used up
Dry ==
    /\ ~dry
    /\ pool \subseteq ToSet(handed)
    /\ dry' = TRUE
    /\ UNCHANGED <<pool, handed>>

Next == Open \/ Give \/ Dry

Spec == Init /\ [][Next]_poolVars

=============================================================================
