CONSTANTS
    a1 = a1
    a2 = a2
    a3 = a3
    b1 = b1
    c1 = c1
    kc = kc
    ka = ka
    kb = kb
    ha = ha
    hb = hb
    None = None
    Callers = {a1, a2, a3, b1, c1}
    Keys = {ka, kb, kc}
    KeyOf <- MCKeyOf
    HashOf <- MCHashOf
    MaxRecords = 2
    MaxRestarts = 1
SPECIFICATION LedgerSpec
INVARIANT AtMostOnce
INVARIANT AnswersAreTrue
SYMMETRY MCSymmetry
CHECK_DEADLOCK FALSE
