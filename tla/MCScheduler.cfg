CONSTANTS
    Tasks <- MCTasks
    Interval <- MCInterval
    PollFrequency = 3
    MaxLag = 2
    MaxRestarts = 2
SPECIFICATION FairSpec
INVARIANT
    RunsOnTime
PROPERTY
    NeverTooEarly
    RunsForever
