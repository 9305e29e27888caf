SPECIFICATION Spec
CONSTANTS
    Designs <- Twice
INVARIANT FlowsRecorded
