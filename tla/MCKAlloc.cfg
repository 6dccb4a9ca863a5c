CONSTANTS
    BlockSizes <- MCSmallClasses
    Layouts <- MCClassLayouts
    HeapLength = 128
    MaxLive = 3
SPECIFICATION Spec
INVARIANTS
    TypeOK
    NoOverlap
PROPERTIES
    ScrapSucceeds
