SPECIFICATION FairSpec
CONSTANTS
    e1 = e1
    o1 = o1
    o2 = o2
    None = None
    Events = {e1}
    Operators = {o1, o2}
    Splits = 2
    Attempts = 2
    MaxRetries = 2
    MaxFaults = 4
INVARIANTS
    NothingLost
    BilledPerFault
    ResolvedIsDone
PROPERTIES
    EventsSettle
\* Every event comes to rest.
CHECK_DEADLOCK FALSE
