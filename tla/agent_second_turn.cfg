CONSTANTS
    t1 = t1
    t2 = t2
    g1 = g1
    g2 = g2
    p1 = p1
    p2 = p2
    None = None
    Turns = {t1, t2}
    Opener = t1
    Tools = {g1, g2}
    Payloads = {p1, p2}
    MaxCalls = 2
    MaxApprovals = 2
    MaxCrashes = 1
SPECIFICATION Spec
CHECK_DEADLOCK FALSE
CONSTANT MaxSwitches = 1
INVARIANT OneActiveTurn
