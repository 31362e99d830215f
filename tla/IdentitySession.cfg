SPECIFICATION FairSpec
CONSTANTS
    Starter = {s1, s2}
    Stopper = {k1}
    Old = old
    NoFile = noFile
INVARIANTS TypeOK OneBrowserWhileChecksHold
PROPERTY EveryCallReturns
CHECK_DEADLOCK FALSE
