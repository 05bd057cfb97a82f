CONSTANTS
    Episodes = {e1}
    Drivers = {"local"}
    BoundedFaults = FALSE
    MaxFaults = 0
    DownloadQueue = "downloadWorker"
    None = none
    MaxTasks = 1
    MaxReceives = 1
    VisibilityTimeout = 1
    BackoffInterval = 0
SPECIFICATION Spec
PROPERTY
    ArchivedCopySurvives
