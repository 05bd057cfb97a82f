CONSTANTS
    Processes = {"server", "command"}
    Users = {old, new}
    OldUsers = {old}
    Releases = {"none", "beforeLevels", "current"}
    GivenLevels = {1, 3}
    MaxCrashes = 2
SPECIFICATION FairSpec
INVARIANT
    SchemaIsCurrent
    LevelsAsAssigned
PROPERTY
    DatabaseOpens
