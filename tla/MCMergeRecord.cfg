\* Two contents, one of which git may merge and nothing record.
SPECIFICATION Spec
CONSTANTS
    base = base
    fix = fix
    source = source
    test = test
    wipe = wipe
    root = root
    crate = crate
    a1 = a1
    h1 = h1
    NoApproval = NoApproval
    Contents <- MCContents
    ChangedFiles <- MCChangedFiles
    Sensitive = {}
    Commands <- MCCommands
    Dangerous <- MCDangerous
    Directories <- MCDirectories
    Asked <- MCAsked
    HookAsked <- MCHookAsked
    Estimates = {3}
    BudgetLimit = 2
    Uuids = {1}
    MaxEvidence = 1
    Base <- base
    AgentStatuses <- MCAgentStatuses
    MaxRuns = 1
    MaxArtifacts = 1
INVARIANTS EveryMergeIsRecorded
