SPECIFICATION FairSpec

CONSTANTS
    d1 = d1
    d2 = d2
    Threads = {d1, d2}
    MaxRuns = 2
    MaxWords = 1
    Urls <- MCAllUrls
    Exits <- MCAnyExits
    Faults <- MCAllFaults
    Reaped = {TRUE, FALSE}

INVARIANTS
    TypeOK
    Tracked
    RunningWasStarted
PROPERTIES
    DownloadSettles
    EndIsNoticed

CHECK_DEADLOCK FALSE
