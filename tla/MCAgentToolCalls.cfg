\* Three dispatches of two calls with two sets of parameters, one stop; three commands.
SPECIFICATION MCSpec
CONSTANTS
    d1 = d1
    d2 = d2
    d3 = d3
    c1 = c1
    c2 = c2
    v1 = v1
    v2 = v2
    k1 = k1
    k2 = k2
    k3 = k3
    Dispatches <- MCDispatches
    CallIds <- MCCallIds
    Values <- MCValues
    MaxCrashes = 1
    Commands <- MCCommands
    RunIds <- MCRunIds
    Stem <- MCStem
SYMMETRY MCSymmetry
INVARIANTS EditsAppliedOnce SuccessIsOnRecord LogIsFound
PROPERTIES SettledIsFinal
\* The dispatches are over, which is where the model ends.
CHECK_DEADLOCK FALSE
