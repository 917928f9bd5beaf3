SPECIFICATION FairSpec

CONSTANTS
    d1 = d1
    d2 = d2
    Threads = {d1}
    MaxRuns = 2
    MaxWords = 1
    Urls <- MCNoPath
    Exits <- MCExits
    Faults <- MCNoFaults
    Reaped = {FALSE}

PROPERTIES
    InvalidAddressRefused

CHECK_DEADLOCK FALSE
