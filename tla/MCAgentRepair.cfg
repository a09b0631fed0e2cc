SPECIFICATION Spec
CONSTANTS
    k1 = k1
    k2 = k2
    Clients = {k1, k2}
    MaxRepairs = 1
    MaxRuns = 1
    MaxCommits = 2
    MaxCrashes = 1
SYMMETRY Symmetry
INVARIANTS
    AppliedWereCommitted
    DeletesWereApproved
    RepairsBounded
