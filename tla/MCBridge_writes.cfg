SPECIFICATION FairSpec
CONSTANTS
    Session = {s1, s2}
    Tab = {t1}
    Recorder = recorder
    NoTab = noTab
    Mode = "enforce"
    ClientOf <- AgentPerSession
    Key = {k1}
    Action = {"click"}
    Leasable = {t1}
    MaxLease = 3
    MaxRequests = 2
    Reply = {"ok"}
    SendFailure = {}
    Ttl = {1, 2}
    QuarantineTtl = 1
    RecordingTtl = 1
    CacheTtl = 1
    MaxCompleted = 0
    IdentityBound = FALSE
    Hellos = {TRUE, FALSE}
    MayRestart = TRUE
    MaxHistory = 1
    Nobody = nobody
INVARIANTS TypeOK EnforceExclusive OverlapOnlyAfterUnknown OnlyYoungerLeases
PROPERTIES LeasesKept UnknownOutcomeQuarantines EveryRequestSettles
