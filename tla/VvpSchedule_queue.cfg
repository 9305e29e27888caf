SPECIFICATION FairSpec
CONSTANTS
    MaxEvents = 3
    MaxTime = 2
    MaxStops = 1
    Queues = {"start", "active", "nbassign", "rwsync", "rosync", "del_thr"}
    MaxStarts = 1
INVARIANTS
    OneStepPerTime
PROPERTIES
    OrderKept
    ImplementsEventQueue
    Ends
