\* Two rounds of up to two calls; the loop against its abstract specification.
SPECIFICATION FairSpec
CONSTANTS
    c1 = c1
    c2 = c2
    c3 = c3
    a1 = a1
    NoId = NoId
    UnknownTool = UnknownTool
    CallIds <- MCCallIds
    Tools <- MCTools
    Arguments <- OneArgument
    MaxBatch = 2
    MaxUsage = 2
    MaxRounds = 2
    MaxDuplicates = 2
    TokenBudget = 2
INVARIANTS SerialInOrder AnsweredOnce
PROPERTIES EventuallySettled ImplementsTaskPhases
