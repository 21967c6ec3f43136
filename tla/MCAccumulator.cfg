\* Three parts, two outputs, three bytes.  Nothing follows Finish, so deadlock is
\* not checked.
SPECIFICATION Spec
CONSTANTS
    Limit = 3
    MaxParts = 3
    MaxGroups = 2
    Commands = {"ls", "cd"}
    Quoting = 1
    Events <- MCEvents
    MaxEvents = 4
INVARIANTS
    WithinLimits
    ReportedOnce
    WholeOrMarked
    CompleteIsEarned

    
CHECK_DEADLOCK FALSE
