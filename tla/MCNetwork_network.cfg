\* A connection and its socket over two threads; two targets of one address
\* that share two connection slots.
CONSTANTS
    MaxOut = 2
    MaxIn = 1
    MaxBoth = 2
    MaxRoom = 1
    MaxEagain = 1
    Multithread = TRUE
    Targets = {t1, t2}
    Conns = {c1, c2}
    NoTarget = NoTarget
    MinConnections = 1
    MaxConnections = 2
    MaxUses = 2
    MaxNew = 2
    Threaded = FALSE
SPECIFICATION NetworkSpec
INVARIANTS
    NetworkInv
    NoLostEdge
    UsedTargetLives
    
PROPERTIES
    StreamSpec
    
    UnusedTargetFreed
CHECK_DEADLOCK FALSE
