\* One job, a thread of each class, two references; two producers and
\* two consumers, blocks of two values; fair threads.
CONSTANTS
    m = m
    p = p
    r1 = r1
    r2 = r2
    r3 = r3
    NoRef = NoRef
    p1 = p1
    p2 = p2
    c1 = c1
    c2 = c2
    Threads = {m, p}
    Main = m
    ClassOf <- MCClassOf
    Refs = {r1, r2}
    Signals = {0, 5, 7}
    Allowed = {0, 5, 7}
    Fast = {7}
    SigClass <- MCSigClass
    MaxSends = 2
    Producers = {p1, p2}
    Consumers = {c1, c2}
    Script <- MCScript
    Blocks = {1, 2, 3}
    NoBlock = 0
    NoValue = 0
    Size = 2
    MaxIterations = 1
SPECIFICATION JobsSpec
INVARIANTS
    JobsInv
    RefsCounted
    FinishLast
    NoLostSignal
PROPERTIES
    FirstInFirstOut
    SignalsDelivered
    PushedIsPopped
CHECK_DEADLOCK FALSE
