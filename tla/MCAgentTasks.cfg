SPECIFICATION FairSpec
CONSTANTS
    t1 = t1
    t2 = t2
    c1 = c1
    c2 = c2
    NoTask = noTask
    Task <- TwoTasks
    Client <- TwoClients
    Placements <- OneOrTwoPages
    TranscriptsLate = TRUE
    MaxSends = 3
    MaxUpsets = 1
    MaxLag = 0
INVARIANTS TypeOK OneAgentPerSession OneTaskPerSession
PROPERTY RunningTasksRest
CHECK_DEADLOCK FALSE
