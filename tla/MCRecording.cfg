\* Every way the response goes out, and every body on either side of the exchange.
SPECIFICATION Spec
CONSTANTS
    NameOrder <- MCNameOrder
    MaxFields = 3
    MaxDepth = 2
    MaxPaths = 2
    MaxValues = 2
    Headers <- MCHeaders
    Nothing = Nothing
    MaxBody = 2
    MaxResponse = 3
    Bodies <- MCBodies
    MaxHeaders = 2
    MaxHeaderValues = 2
    FixedCount = 37
    SpanLimit = 55
INVARIANTS
    RecordedIsSent
    LossIsMarked
    SpanFits
CHECK_DEADLOCK FALSE
