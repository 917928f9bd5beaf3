SPECIFICATION Spec

CONSTANTS
    d1 = d1
    d2 = d2
    Threads = {d1}
    MaxRuns = 2
    MaxWords = 1
    Urls <- MCUrls
    Exits <- MCExits
    Faults <- MCNoFaults
    Reaped = {FALSE}

INVARIANTS
    DocumentedError

CHECK_DEADLOCK FALSE
