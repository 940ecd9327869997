CONSTANTS
    r1 = r1
    r2 = r2
    r3 = r3
    r4 = r4
    pA = pA
    pB = pB
    pC = pC
    c1 = c1
    k1 = k1
    NoRun = NoRun
    NoCaller = NoCaller
    NoCheckout = NoCheckout
    NoId = NoId
    Runs = {r1, r2, r4}
    Roots <- MCRoots
    Callers <- MCCallers
    RootOf <- MCRootOf
    CallerOf <- MCCallerOf
    Checkouts <- MCCheckouts
    CheckoutOf <- MCCheckoutOf
    CallerQuota <- MCCallerQuota
    SlotCounts = {1, 2}
    MaxQueued = 1
    ProjectCap = 1
    Starters = {r4}
    Persisted = {r1, r2}
    Asking = {r1}
    Cancellable = {r4}
    Faults = FALSE
    MaxCrashes = 1
    Executions = 2
SPECIFICATION Spec
INVARIANT QueuedRunNotLost
PROPERTY LeasesImplemented
PROPERTY QueuedRunLeavesQueue
PROPERTY QueuedDoneSettles
CHECK_DEADLOCK FALSE
