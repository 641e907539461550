SPECIFICATION FairSpec
CONSTANTS
    MaxMessages = 3
    ReplayBatch = 2
    CommitEvery = 3
    MaxArrivals = 4
    MaxConnects = 2
    MaxRestarts = 1
    MaxFaults = 1
INVARIANT TypeOK
PROPERTY OnlyPublishedIsDeleted
PROPERTY IsAnOutbox
PROPERTY BacklogIsReplayed
CHECK_DEADLOCK FALSE
