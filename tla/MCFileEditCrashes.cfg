\* Two requests on different files, any operation of which may fail, and two crashes at any point.
SPECIFICATION FairEditsSpec
CONSTANTS
    r1 = r1
    r2 = r2
    a = a
    b = b
    c = c
    x = x
    y = y
    Missing = Missing
    Requests <- TwoRequests
    Paths <- ThreePaths
    Contents <- MCContents
    Proposed <- MCProposed
    MaxCrashes = 2
PROPERTIES ImplementsAtomicEdits EverySettles
CHECK_DEADLOCK FALSE
