SPECIFICATION FairSpec
CONSTANTS
    Width = 2
    Inputs <- MCInputs
    Delays <- MCDelays
    Settings <- MCSettings
    Types = {"vec4", "real"}
    Paths <- MCPaths
    MaxTime = 4
    MaxInputs = 4
    MaxSettings = 1
INVARIANTS NewestIsInput
PROPERTIES PulsesRejected Settles
CHECK_DEADLOCK FALSE
