SPECIFICATION FairSpec
CONSTANTS
    None = None
    Jobs = {j1, j2, j3}
    MaxJobs = 2
CHECK_DEADLOCK FALSE
INVARIANTS
    QueueIsConsistent
    AcceptedIsTracked
PROPERTIES
    ImplementsService
    JobsFinish
