SPECIFICATION Spec
CHECK_DEADLOCK FALSE
CONSTANTS
    None = None
    Step <- MCStep
    Named <- MCNamed
    Top <- MCTop
    Kind <- MCKind
    Kids <- MCKids
    Catch <- MCCatch
    Then <- MCThen
    Finally <- MCFinally
    OnError <- MCOnError
    Goto <- MCGoto
    MaxConcurrent = 1
    MaxIterations = 2
    MaxJumps = 1
    MaxRuns = 2
INVARIANTS OnlyWaitsLeaveOrphans SuccessIsEarned CheckpointAtCursor
PROPERTY FlowEnds
