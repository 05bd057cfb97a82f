CONSTANTS
    Queues = {q1, q2}
    Data = {d}
    None = none
    MaxTasks = 2
    MaxReceives = 1
    VisibilityTimeout = 5
    BackoffInterval = 1
SPECIFICATION FairSpec
INVARIANT
    TypeOK
    CopyIsCurrent
    DeletedOnlyAfterSuccess
    DeliveriesBounded
PROPERTY
    RetriesAreSpaced
    ImplementsLedger
    EveryTaskSettles
