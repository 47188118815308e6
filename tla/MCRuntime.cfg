SPECIFICATION Spec
CONSTANTS
    a1 = a1  a2 = a2  a3 = a3
    c1 = c1
    k1 = k1  k2 = k2
    r1 = r1  r2 = r2
    LcAddrs <- MCAddrs
    LcEmpty <- MCEmpty
    LcCalls <- MCCalls
    LcPosts = TRUE
    LcStarts = 2
    HubConsoles <- MCConsoles
    HubCap = 1
    HubEntries = 2
    StFiles <- MCFiles
    StReaders <- MCReaders
    StAsked <- MCAsked
INVARIANTS ReportReachesLinks IdMapWindow LogSeenOnce SettingsWhole
PROPERTIES AlwaysSettles GoneIsForgotten
\* The last start may be over, and every console gone.
CHECK_DEADLOCK FALSE
