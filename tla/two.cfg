SPECIFICATION FairSpec
CONSTANTS
    Handles = {h1, h2}
    Keys = {k1}
    Values = {v1}
    AppEmail = "app"
    UserEmails = {"user"}
    Faults = {}
    MaxCommits = 4
    MaxCrashes = 0
    NoValue = NoValue
    NoHandle = NoHandle
    NotLoaded = NotLoaded
INVARIANTS
    HeadDurable
    BlobLookupDefined
PROPERTIES
    LockReleased
CHECK_DEADLOCK FALSE
