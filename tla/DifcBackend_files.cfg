SPECIFICATION FairSpec
CONSTANTS
    Names <- MCNames
    Labels = {1, 2}
    Public = 1
    Malformed = Malformed
    NodeFiles <- MCNodeFiles
    StepFiles <- MCStepFiles
    MaxSteps = 3
INVARIANTS
    InferenceExact
    TaintExact
    ClosedAtEnd
    VerdictExact
    ExcessReported
    CapabilitiesDeclared
    ReportedPathsFlow
PROPERTIES
    Terminates
