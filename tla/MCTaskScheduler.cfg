\* Four tasks, two slots; the service may be restarted at any time.
SPECIFICATION FairSpec
CONSTANTS
    t1 = t1
    t2 = t2
    t3 = t3
    t4 = t4
    TaskIds <- MCTaskIds
    MaxConcurrent = 2
INVARIANTS SlotsRespected QueuedHasOneEntry NoIdleSlotWhileQueued
PROPERTIES NoOvertaking EventuallyAdmitted
