SPECIFICATION Spec
CONSTANTS
    Session = {s1, s2}
    Tab = {t1}
    Recorder = recorder
    NoTab = noTab
    Mode = "enforce"
    ClientOf <- OneAgent
    Key = {k1}
    Action = {"record_start", "record_stop"}
    Leasable = {}
    MaxLease = 2
    MaxRequests = 3
    Reply = {"ok"}
    SendFailure = {"CONNECTION_CLOSED"}
    Ttl = {1}
    QuarantineTtl = 1
    RecordingTtl = 1
    CacheTtl = 2
    MaxCompleted = 1
    IdentityBound = TRUE
    Hellos = {TRUE}
    MayRestart = FALSE
    MaxHistory = 1
    Nobody = nobody
SYMMETRY Symmetry
INVARIANTS OneExecutionPerKey RecorderLeaseAccounted
PROPERTIES AnswerIsFinal
