CONSTANTS
    sA = sA
    sB = sB
    c1 = c1
    c2 = c2
    NoStage = NoStage
    Stages = {sA, sB}
    Calls = {c1, c2}
    StagesOf <- MCStagesOf
    Awaiting = {c1}
    Asking = {sA}
SPECIFICATION FairSpec
INVARIANT NobodyLeftBehind
PROPERTY RetryReturns
PROPERTY AcceptedRuns
CHECK_DEADLOCK FALSE
