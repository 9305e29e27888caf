SPECIFICATION FairSpec
CONSTANTS
    Objects <- MCObjects
    Words <- MCWords
    Reasons = {"ValueChange", "EndOfCompile", "StartOfSimulation", "NextSimTime", "EndOfSimulation", "StartOfSimTime", "AfterDelay", "ReadWriteSynch", "ReadOnlySynch"}
    MaxCallbacks = 3
    MaxChanges = 2
    MaxRemovals = 1
    MaxTime = 1
INVARIANTS AssertsHold HeldOnce ChangesSeen
PROPERTY Served
CHECK_DEADLOCK FALSE
