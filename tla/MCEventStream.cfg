\* Every cut of every stream.  Nothing follows Finish, so deadlock is not checked.
SPECIFICATION Spec
CONSTANTS
    MaxLine = 4
    Streams <- MCStreams
INVARIANTS
    WithinLimits
    AsFed
PROPERTIES
    ReadsByLines
CHECK_DEADLOCK FALSE
