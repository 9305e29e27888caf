SPECIFICATION PipelineSpec
CONSTANTS
    Designs <- MCDesigns
    FlatNames <- MCFlatNames
    Malformed = Malformed
INVARIANTS
    NodesListed
    FlowsRecorded
    StepsJustified
    ExplicitFlowsTaint
    VerdictOnDesign
PROPERTY Completes
