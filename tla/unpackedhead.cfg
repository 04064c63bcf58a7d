SPECIFICATION Spec
CONSTANTS
    Handles = {h1}
    Keys = {k1}
    Values = {v1}
    AppEmail = "app"
    UserEmails = {"user"}
    Faults = {}
    MaxCommits = 4
    MaxCrashes = 1
    NoValue = NoValue
    NoHandle = NoHandle
    NotLoaded = NotLoaded
INVARIANT
    HeadReadable
CHECK_DEADLOCK FALSE
