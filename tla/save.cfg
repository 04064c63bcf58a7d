SPECIFICATION FairSpec
CONSTANTS
    Handles = {h1}
    Keys = {k1, k2}
    Values = {v1, v2}
    AppEmail = "app"
    UserEmails = {"user"}
    Faults = {}
    MaxCommits = 4
    MaxCrashes = 0
    NoValue = NoValue
    NoHandle = NoHandle
    NotLoaded = NotLoaded
INVARIANTS
    IndexAgreesWithHead
PROPERTIES
    KeepsPromise
    SaveReturns
