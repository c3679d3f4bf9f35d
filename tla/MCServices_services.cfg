\* Nine small instances; their constants are explained in the README.
CONSTANTS
    f1 = f1
    f2 = f2
    f3 = f3
    j1 = j1
    j2 = j2
    j3 = j3
    l1 = l1
    l2 = l2
    RpcConfigs <- MCConfigs
    MaxSends = 1
    AdminClients = {c1, c2}
    AdminRequests <- MCRequests
    AdminToken = TRUE
    AdminBuf = 7
    AdminSecrets = 1
    Tries = {1, 2}
    HelloSizes = {10, 11, 13, 20}
    DefaultSizes = {25, 36}
    Fds = {f1, f2, f3}
    Priority <- MCPriority
    MaxRaised <- MCMaxRaised
    MaxReruns = 1
    Getters = {g1, g2}
    MaxGen = 3
    TimerJobs = {j1, j2, j3}
    ManagerOf <- MCManagerOf
    NoManager = 0
    MainThread = 1
    MaxTime = 2
    MaxSets <- MCMaxSets
    ListenFds = {l1, l2}
    Closers = {u1}
    MaxSpecial = 1
    MaxArrivals <- MCArrivals
    MaxFailures = 1
    HttpStreams <- MCStreams
    HttpPieces = {1, 6}
    MaxHeader = 40
    MaxWord = 4
    IntLimit = 50
    CfgFiles <- MCFiles
    CfgHosts = {"a", "b"}
    Missing = Missing
    MaxTargets = 3
    MaxClusters = 3
    DefaultMin = 1
    DefaultMax = 4
    MaxReloads = 2
SPECIFICATION ServiceSpec
INVARIANTS
    ServicesInv
    
    ProbeExact
    HttpAsSent
    ConfigCoherent
    RpcAgreed
PROPERTIES
    AdminAnswers
    TimersFire
    EventsRun
    ClientsAccepted
    RpcSettles
CHECK_DEADLOCK FALSE
