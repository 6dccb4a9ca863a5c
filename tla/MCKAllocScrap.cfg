CONSTANTS
    BlockSizes <- MCBlockSizes
    Layouts <- MCOddLayouts
    HeapLength = 96
    MaxLive = 2
SPECIFICATION Spec
INVARIANTS
    NoOverlap
