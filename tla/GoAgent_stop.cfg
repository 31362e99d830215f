SPECIFICATION Spec
CONSTANTS
    MaxRounds = 1
    MaxCalls = 2
    MaxEngines = 2
    MaxRuns = 1
    MaxNudges = 1
    MaxAnswers = 0
    MaxText = 0
    MaxFaults = 0
INVARIANT StopMeansStopped
CHECK_DEADLOCK FALSE
