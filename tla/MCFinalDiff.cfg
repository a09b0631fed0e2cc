\* Two diffs, one validation, no evidence.
SPECIFICATION Spec
CONSTANTS
    base = base
    fix = fix
    source = source
    test = test
    wipe = wipe
    root = root
    crate = crate
    a1 = a1
    h1 = h1
    NoApproval = NoApproval
    Contents <- MCContents
    ChangedFiles <- MCChangedFiles
    Sensitive = {}
    Commands <- MCTest
    Dangerous = {}
    Directories <- MCDirectories
    Asked = {}
    HookAsked = {}
    Estimates = {3}
    BudgetLimit = 2
    Uuids = {1, 2}
    MaxEvidence = 0
    Base <- base
    AgentStatuses <- MCAgentStatuses
    MaxRuns = 1
    MaxArtifacts = 2
PROPERTIES FinalDiffNotEmpty
