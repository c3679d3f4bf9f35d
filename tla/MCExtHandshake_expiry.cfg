\* New handshakes when every secret has expired.
CONSTANTS
    s1 = s1
    s2 = s2
    Secrets = {s1, s2}
    NoSecret = NoSecret
    Conns = {1}
    TlsModes = {FALSE}
    Bootstrap <- MCBootstrap
    Legacy = {}
    Caps <- MCCaps
    MaxId = 2
    MaxTime = 1
    MaxCount = 1
    MaxCrashes = 0
    MayOOM = FALSE
    ShortWrites = FALSE
    StateFile = FALSE
SPECIFICATION Spec
PROPERTIES
    ExpiryBlocks
