SPECIFICATION Spec
CONSTANTS
    Handles = {h1}
    Keys = {k1, k2}
    Values = {v1}
    AppEmail = "app"
    UserEmails = {"user"}
    Faults = {}
    MaxCommits = 4
    MaxCrashes = 1
    NoValue = NoValue
    NoHandle = NoHandle
    NotLoaded = NotLoaded
PROPERTY
    SavesOnlyItsChanges
CHECK_DEADLOCK FALSE
