CONSTANTS
    Ids = {s1}
    Users = {u}
    Requests = {r1, r2}
    None = none
    SessionExpiry = 3
    SessionLastSeenExpiry = 1
    TimeBuffer = 1
    MaxLag = 1
SPECIFICATION FairSpec
INVARIANT
    HandlersHaveUsers
PROPERTY
    EndedStaysEnded
    ActiveSessionsKept
    EverySessionEnds
