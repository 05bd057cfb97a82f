CONSTANTS
    Processes = {"server", "command"}
    Users = {old, new}
    OldUsers = {old}
    Releases = {"beforeCredentials"}
    GivenLevels = {1, 3}
    MaxCrashes = 2
SPECIFICATION FairSpec
PROPERTY
    DatabaseOpens
