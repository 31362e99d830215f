SPECIFICATION FairSpec
CONSTANTS
    Tab = {t1, t2}
    MaxWrites = 5
INVARIANTS TypeOK EntryWhileBusy
PROPERTIES OneAtATimeInOrder EveryWriteRuns
CHECK_DEADLOCK FALSE
