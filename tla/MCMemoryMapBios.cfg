CONSTANTS
    FourKb = 4
    FirmwareMaps <- MCFirmwareMaps
    Images <- MCImages
    Starts = {0, 16}

SPECIFICATION Spec

CHECK_DEADLOCK FALSE

INVARIANT FramesInRam
