CONSTANTS
    t1 = t1
    t2 = t2
    g1 = g1
    g2 = g2
    p1 = p1
    p2 = p2
    None = None
    Turns = {t1, t2}
    Opener = t1
    Tools = {g1}
    Payloads = {p1, p2}
    MaxCalls = 2
    MaxApprovals = 2
    MaxCrashes = 1
    MaxSwitches = 1
SPECIFICATION FairSpec
INVARIANT ToolWasApproved
INVARIANT PendingIsAwaited
INVARIANT ApprovedStaysApproved
PROPERTY FinalStaysFinal
PROPERTY TurnEnds
CHECK_DEADLOCK FALSE
