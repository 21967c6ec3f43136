\* The verdict of the server span on a stream with an error event.
SPECIFICATION Spec
CONSTANTS
    Outputs <- MCOneOutput
    o1 = o1
    o2 = o2
    MaxReads = 3
INVARIANT
    StreamErrorIsRecorded
CHECK_DEADLOCK FALSE
