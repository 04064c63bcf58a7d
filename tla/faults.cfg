SPECIFICATION Spec
CONSTANTS
    Handles = {h1}
    Keys = {k1, k2}
    Values = {v1}
    AppEmail = "app"
    UserEmails = {"user"}
    Faults = {"loadIndex", "begin", "update", "writeTree", "writeIndex", "commit", "pack"}
    MaxCommits = 4
    MaxCrashes = 2
    NoValue = NoValue
    NoHandle = NoHandle
    NotLoaded = NotLoaded
INVARIANTS
    AckedDurable
    HistoryDurable
    OnlyUserCommitsBelow
    UserCommitsKept
CHECK_DEADLOCK FALSE
