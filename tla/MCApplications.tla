--------------------------- MODULE MCApplications ---------------------------
(* The applications entry with two or three processes and at most two        *)
(* downloads in progress.                                                    *)
EXTENDS Applications

CONSTANTS d1, d2    \* download threads (model values)

MCUrls == {"tftp", "other"}
MCAllUrls == {"tftp", "tftp without a path", "other"}
MCNoPath == {"tftp without a path", "other"}
MCExits == {0, 1, 256}
MCAnyExits == {0, 1, 256, -1}
MCNoFaults == {}
MCAllFaults == {"memory", "threads", "forks"}

=============================================================================
