\* Clients and middle-ends over two descriptors, with reuse.
CONSTANTS
    Fds = {3, 4}
    MaxGen = 3
    MaxQueries = 2
    MaxReplies = 1
SPECIFICATION FairSpec
INVARIANTS
    RoutesInv
    RoutesLive
    OneMiddleEndPerFd
    AnswerToAsker
PROPERTIES
    FailedIsReleased
CHECK_DEADLOCK FALSE
