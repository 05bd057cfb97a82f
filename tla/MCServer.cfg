CONSTANTS
    Keys = {k1, k2}
    Secrets = {s1, s2}
    Podcasts = {p1}
    None = none
    Workers = {"feedWorker", "downloadWorker"}
    MaxRequests = 1
    MaxCrashes = 2
SPECIFICATION FairSpec
INVARIANT
    CredentialsSurvive
    AtMostOneLatePop
PROPERTY
    RequestsDrained
    KeyIsFound
    PartsEndTogether
