------------------------------- MODULE MCKAlloc -------------------------------
(* Small heaps for KAlloc: four size classes and a heap of a few blocks.   *)
EXTENDS KAlloc

\* BLOCK_SIZES cut after its fourth class
MCBlockSizes == <<8, 16, 32, 64>>

\* BLOCK_SIZES cut after its third class
MCSmallClasses == <<8, 16, 32>>

\* Requests whose size is a class, and requests above every class at the
\* node alignment and at twice it
MCClassLayouts ==
    {[size |-> 8, align |-> 8], [size |-> 32, align |-> 8],
     [size |-> 40, align |-> 8], [size |-> 40, align |-> 16]}

\* A request of 24 bytes, served by class 32
MCOddLayouts ==
    {[size |-> 24, align |-> 8], [size |-> 64, align |-> 8]}

\* A small request with a large alignment, served by class 32
MCAlignedLayouts ==
    {[size |-> 16, align |-> 8], [size |-> 8, align |-> 32]}
=============================================================================
