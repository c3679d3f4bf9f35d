\* Handshakes, with and without a TLS domain, against the admin thread; an
\* entry of the cache lives for 3 seconds, a request is recent for 2.
CONSTANTS
    s1 = s1
    s2 = s2
    ra = ra
    rb = rb
    rc = rc
    Secrets = {s1, s2}
    NoSecret = NoSecret
    Conns = {1}
    TlsModes = {TRUE, FALSE}
    Bootstrap <- MCBootstrap
    Legacy = {}
    Caps <- MCCaps
    MaxId = 3
    MaxTime = 1
    MaxCount = 2
    MaxCrashes = 0
    MayOOM = TRUE
    ShortWrites = FALSE
    StateFile = FALSE
    Randoms = {ra, rb, rc}
    Buckets = {1, 2}
    BucketOf <- MCBucketOf
    CacheTime = 3
    StampError = 2
    Slack = 1
    LastTime = 4
    MaxAdds = 4
SPECIFICATION DoorSpec
INVARIANTS
    DoorInv
    RevokedStaysOut
    ChargedToAdmitting
    
