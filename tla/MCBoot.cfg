CONSTANTS
    FourKb = 4
    FirmwareMaps <- MCBootMaps
    Images <- MCBootImages
    Starts = {32}
    FrameBits = 2
    IndexBits = 4
    WordBits = 20
    Cr3 = 4
    BootTables <- MCBootTables
    KernelTables <- MCKernelTables
    Framebuffer <- MCFramebuffer
    Firmwares <- MCFirmwares
    HeapLength = 128

SPECIFICATION FairSpec

INVARIANT TypeOK
INVARIANT PhysWindowIdentity
INVARIANT FramesExclusive
INVARIANT HeapMapped
INVARIANT NoFault
INVARIANT FramesAvoidImage
INVARIANT KernelMapped
INVARIANT AcpiVerdict
INVARIANT IoApicRouting
PROPERTY FrameAllocatorRefinement
PROPERTY BootTerminates
