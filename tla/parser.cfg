\* Everything that was packed, in every form and every cutting of the bytes.
SPECIFICATION FairSpec
CONSTANTS
    StackSize = 2
    Sent <- MCSent
    Packings <- MCPackings
    Streams <- MCStreams
    Apis = {"unpacker_next", "unpack", "unpack_next"}
INVARIANTS TypeOK DeliversWhatWasPacked WholeCells ConvertsExactly
PROPERTIES SameAsWhole AllDelivered
CHECK_DEADLOCK FALSE
