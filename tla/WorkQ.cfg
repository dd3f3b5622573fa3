SPECIFICATION WorkQFairSpec

CONSTANTS
    MAX_WORK_Q_JOBS = 3
    MaxNest = 2
    MaxJobs = 5

INVARIANTS
    WorkQTypeOK
    KernelMutex
    NoStrandedWork
    CallsPostedJob

PROPERTIES
    KeepsPromise
    JobsAreCalled
