SPECIFICATION Spec
CONSTANTS
    Formats = {"vcd", "fst", "lxt", "lxt2"}
    Roots <- MCRoots
    Contents <- MCContents
    Net <- MCNet
    Scalar <- MCScalar
    Automatic <- MCAutomatic
    Arguments <- MCArguments
    Files = {"f"}
    Default = "dump"
    TimeWrap = 8
    MaxTime = 2
    MaxChanges = 3
    MaxCalls = 4
INVARIANTS DumpTells VarsDeclared
CHECK_DEADLOCK FALSE
