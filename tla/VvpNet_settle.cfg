SPECIFICATION FairSpec
CONSTANTS
    Designs <- MCDesigns
    Rebinding = FALSE
    MaxStatements = 4
INVARIANTS FanoutExact NetSettled
PROPERTY Quiets
CHECK_DEADLOCK FALSE
