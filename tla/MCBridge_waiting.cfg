SPECIFICATION Spec
CONSTANTS
    Session = {s1, s2}
    Tab = {t1}
    Recorder = recorder
    NoTab = noTab
    Mode = "enforce"
    ClientOf <- AgentPerSession
    Key = {k1, k2}
    Action = {"click"}
    Leasable = {}
    MaxLease = 2
    MaxRequests = 3
    Reply = {"ok"}
    SendFailure = {}
    Ttl = {1}
    QuarantineTtl = 1
    RecordingTtl = 1
    CacheTtl = 1
    MaxCompleted = 0
    IdentityBound = TRUE
    Hellos = {TRUE}
    MayRestart = FALSE
    MaxHistory = 1
    Nobody = nobody
SYMMETRY Symmetry
PROPERTIES QuarantineBlocksOthers
