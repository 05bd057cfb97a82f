CONSTANTS
    Podcasts = {"p", "q"}
    Reliable = {"p"}
    Stable = {"p"}
    Items <- MCItems
    PodcastOf <- MCPodcastOf
    GuidOf <- MCGuidOf
    RankOf <- MCRankOf
    Parseable <- MCParseable
    Valid <- MCValid
    MaxInt = 1000000
    None = none
    Unsubscribed = unsubscribed
    MinCheckInterval = 1
    MaxRestarts = 1
SPECIFICATION FairSpec
INVARIANT
    TypeOK
    CheckedMeansComplete
    NoGaps
PROPERTY
    UnobstructedItemsArrive
