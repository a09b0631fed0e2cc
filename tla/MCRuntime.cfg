\* Two calls and two approvals; two threads, two processes and two configurations;
\* two tasks; two profiles, one candidate, one memory item.
SPECIFICATION MCSpec
CONSTANTS
    c1 = c1
    c2 = c2
    run = run
    edit = edit
    x = x
    y = y
    k1 = k1
    k2 = k2
    u1 = u1
    u2 = u2
    t1 = t1
    t2 = t2
    default = default
    other = other
    p1 = p1
    NoCall = NoCall
    Calls <- MCCalls
    Commands <- MCCommands
    Edits <- MCEdits
    Contents <- MCContents
    Contracts <- MCContracts
    Statuses <- MCStatuses
    Terminal <- MCTerminal
    MaxApprovals = 2
    Callers <- MCCallers
    MaxSpawns = 2
    MaxSaves = 2
    MaxRestarts = 1
    Tasks <- MCTasks
    Profiles <- MCProfiles
    Default <- default
    Candidates <- MCCandidates
    MaxMemories = 1
SYMMETRY MCSymmetry
INVARIANTS
    OneCallPerApproval
    AskedOnce
    OneInstance
    AtMostOneActive
    AcceptedIsRemembered
    ListedHasFiles
    NoSilentOrphans
PROPERTIES
    NeverRevived
    ServedAsConfigured
    WorkKept
