SPECIFICATION FairSpec
CONSTANTS
    Programs <- MCPrograms
    MaxThreads = 5
    Roots = 2
    Module = module
    block = block
    task = task
    function = function
    event = event
    FORK_COUNTS = 256
CHECK_DEADLOCK FALSE
INVARIANTS
    AssertsHold
    DeletedIsUnused
    NoThreadLost
    NothingLeaks
    StackInOrder
PROPERTIES
    DisableEndsScope
    DisableReturns
