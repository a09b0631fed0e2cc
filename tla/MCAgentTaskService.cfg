\* Two tasks, one slot, up to three requests per task, two faults.
SPECIFICATION FairSpec
CONSTANTS
    t1 = t1
    t2 = t2
    h1 = h1
    h2 = h2
    TaskIds <- MCTaskIds
    Threads <- MCThreads
    MaxConcurrent = 1
    MaxRequests = 3
    MaxFaults = 2
INVARIANTS SettledHoldsNoSlot LeaseNeverBroken
PROPERTIES ReleasedAfterCheckpoint CheckpointsFollowTheLoop QueuedEventuallyAdmitted
