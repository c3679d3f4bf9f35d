\* The state file when a write is cut short.
CONSTANTS
    s1 = s1
    s2 = s2
    Secrets = {s1, s2}
    Bootstrap <- MCBootstrap
    Legacy <- MCLegacy
    Caps <- MCCaps
    MaxId = 3
    MaxTime = 0
    MaxCount = 0
    MaxCrashes = 1
    MayOOM = FALSE
    ShortWrites = TRUE
    StateFile = TRUE
SPECIFICATION StoreSpec
INVARIANTS
    AckedSurvive
