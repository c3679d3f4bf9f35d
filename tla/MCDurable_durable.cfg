\* Acknowledged changes, ids and totals over crashes and failed writes.
CONSTANTS
    s1 = s1
    s2 = s2
    Secrets = {s1, s2}
    NoSecret = NoSecret
    Conns = {1}
    TlsModes = {TRUE}
    Bootstrap <- MCBootstrap
    Legacy <- MCLegacy
    Caps <- MCCaps
    MaxId = 4
    MaxTime = 1
    MaxCount = 2
    MaxCrashes = 2
    MayOOM = FALSE
    ShortWrites = FALSE
    StateFile = TRUE
    CountIds = 2
    CountCrashes = 1
    FaultIds = 3
    FaultCrashes = 1
SPECIFICATION DurableSpec
INVARIANTS
    IdsUnique
    AckedKept
    TotalsMatch
