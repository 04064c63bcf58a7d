SPECIFICATION Spec
CONSTANTS
    Handles = {h1, h2}
    Keys = {k1}
    Values = {v1}
    AppEmail = "app"
    UserEmails = {"user"}
    Faults = {}
    MaxCommits = 4
    MaxCrashes = 0
    NoValue = NoValue
    NoHandle = NoHandle
    NotLoaded = NotLoaded
PROPERTY
    SavesKeepUserCommits
CHECK_DEADLOCK FALSE
