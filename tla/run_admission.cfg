CONSTANTS
    r1 = r1
    r2 = r2
    r3 = r3
    r4 = r4
    pA = pA
    pB = pB
    pC = pC
    c1 = c1
    k1 = k1
    NoRun = NoRun
    NoCaller = NoCaller
    NoCheckout = NoCheckout
    NoId = NoId
    Runs = {r1, r2, r3, r4}
    Roots <- MCRoots
    Callers <- MCCallers
    RootOf <- MCRootOf
    CallerOf <- MCCallerOf
    Checkouts <- MCCheckouts
    CheckoutOf <- MCCheckoutOf
    CallerQuota <- MCCallerQuota
    SlotCounts = {2}
    MaxQueued = 1
    ProjectCap = 1
    Starters = {r1, r2, r3, r4}
    Persisted = {}
    Asking = {}
    Cancellable = {r3}
    Faults = TRUE
    MaxCrashes = 0
    Executions = 1
SPECIFICATION FairSpec
INVARIANT LeasesMatchEntries
INVARIANT ProvisionalEntriesOwned
INVARIANT LimitsRespected
INVARIANT QueuedRunNotLost
PROPERTY CancelledNotActivated
PROPERTY DrainPassEnds
CHECK_DEADLOCK FALSE
