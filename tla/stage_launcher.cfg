CONSTANTS
    l1 = l1
    l2 = l2
    l3 = l3
    l4 = l4
    l5 = l5
    ra = ra
    rb = rb
    c1 = c1
    c2 = c2
    Launches = {l1, l2, l3, l4, l5}
    Runs = {ra, rb}
    RunOf <- MCRunOf
    KeyOf <- MCKeyOf
    MaxActive = 2
    Cancels = {c1, c2}
    CancelOf <- MCCancelOf
SPECIFICATION FairSpec
INVARIANT SlotsConserved
INVARIANT CancelCoversWorkers
PROPERTY LaunchReturns
CHECK_DEADLOCK FALSE
