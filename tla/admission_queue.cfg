CONSTANTS
    r1 = r1
    r2 = r2
    r3 = r3
    r4 = r4
    pA = pA
    pB = pB
    pC = pC
    c1 = c1
    c2 = c2
    NoRun = NoRun
    NoCaller = NoCaller
    Runs <- MCRuns
    Roots <- MCRoots
    Callers <- MCCallers
    RootOf <- MCRootOf
    CallerOf <- MCCallerOf
SPECIFICATION DrainSpec
INVARIANT QueueWellFormed
INVARIANT EachArrivalOnce
INVARIANT PositionIsTurn
INVARIANT HeadServedWithinOneRound
