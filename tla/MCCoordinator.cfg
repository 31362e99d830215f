SPECIFICATION Spec
CONSTANTS
    Session = {s1, s2, s3}
    Tab = {t1}
    Recorder = recorder
    NoTab = noTab
    Mode = "observe"
    Ttl = {1, 2}
    QuarantineTtl = 2
    Nobody = nobody
    MaxHistory = 1
    MaxLease = 3
SYMMETRY Symmetry
INVARIANTS TypeOK ActiveOwnerConnected OneLeasePerOwner QuarantineAlone
PROPERTIES DisconnectKeepsQuarantine OthersKeepTheirLeases QuarantineNeverLifted ObservedOverlapIsReported
