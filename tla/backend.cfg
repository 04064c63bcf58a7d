\* Two handles: all faults on one, failing writes on the other.
SPECIFICATION Spec
CONSTANTS
    h1 = h1
    h2 = h2
    Handles = {h1, h2}
    Oids = {o1, o2}
    Faults <- MCFaults
    NoHandle = NoHandle
    NoOid = NoOid
INVARIANTS
    NothingLeaks
PROPERTIES
    ReadsSucceed
    AnswersAreTrue
    KeepsTransactions
