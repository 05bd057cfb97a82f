CONSTANTS
    Episodes = {e1, e2}
    Drivers = {"local", "awss3"}
    BoundedFaults = TRUE
    MaxFaults = 2
    DownloadQueue = "downloadWorker"
    None = none
    MaxTasks = 2
    MaxReceives = 2
    VisibilityTimeout = 1
    BackoffInterval = 0
SPECIFICATION FairSpec
INVARIANT
    TypeOK
    UnfinishedHasTask
    FeedServesWholeFiles
    SettledSizeIsRight
    GivenUpOnlyAfterFaults
PROPERTY
    CopiesChangeOnlyByRedelivery
    EveryEpisodeIsArchived
