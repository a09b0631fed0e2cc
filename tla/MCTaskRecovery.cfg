\* Two commands, two ids, two restarts.
SPECIFICATION FairSpec
CONSTANTS
    k1 = k1
    k2 = k2
    r1 = r1
    r2 = r2
    NoCall = NoCall
    Calls <- MCCalls
    Timed <- MCTimed
    RunIds <- MCRunIds
    Phases <- MCPhases
    MaxRestarts = 2
INVARIANTS RoundsAreEvidence
PROPERTIES MadeReadyByAPass OnlyOutputsAreAwaited InterruptedIsExplained
