\* Two requests on different files, any operation of which may fail, before or after its effect.
SPECIFICATION EditsSpec
CONSTANTS
    r1 = r1
    r2 = r2
    a = a
    b = b
    c = c
    x = x
    y = y
    Missing = Missing
    Requests <- TwoRequests
    Paths <- ThreePaths
    Contents <- MCContents
    Proposed <- MCProposed
    MaxCrashes = 0
PROPERTIES AllRolledBack
CHECK_DEADLOCK FALSE
