CONSTANTS
    r1 = r1
    r2 = r2
    s1 = s1
    s2 = s2
    Replies = {r1, r2}
    Sweeps = {s1, s2}
    Backoffs = 2
    MaxManual = 1
    MaxCrashes = 1
SPECIFICATION FairSpec
INVARIANT SingleFlight
INVARIANT MarkerAgrees
PROPERTY NeverResentUnasked
PROPERTY DeliverySettles
CHECK_DEADLOCK FALSE
