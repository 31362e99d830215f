SPECIFICATION Spec
CONSTANTS
    MaxRounds = 2
    MaxCalls = 2
    MaxEngines = 1
    MaxRuns = 2
    MaxNudges = 2
    MaxAnswers = 1
    MaxText = 1
    MaxFaults = 1
INVARIANTS TypeOK RoundsAreAnswers
PROPERTY NudgesApart
CHECK_DEADLOCK FALSE
