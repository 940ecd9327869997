CONSTANTS
    ra = ra
    rb = rb
    rc = rc
    xa = xa
    host = host
    None = None
    Runs = {ra, rb, rc}
    Cancels = {xa}
    RunOf <- MCRunOf
    Processes = {host}
    ProcOf <- MCOneProcess
    Checkers = {ra}
    MaxRetries = 1
    Leaving = {ra}
    Retryable = {ra}
SPECIFICATION FairSpec
INVARIANT EntitledExclusive
INVARIANT EntitledKeepsFile
PROPERTY WaiterServed
CHECK_DEADLOCK FALSE
