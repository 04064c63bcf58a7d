SPECIFICATION FairSpec
CONSTANTS
    Handles = {h1}
    Keys = {k1}
    Values = {v1}
    AppEmail = "app"
    UserEmails = {"user"}
    Faults = {"update"}
    MaxCommits = 4
    MaxCrashes = 0
    NoValue = NoValue
    NoHandle = NoHandle
    NotLoaded = NotLoaded
PROPERTY
    SaveReturns
CHECK_DEADLOCK FALSE
