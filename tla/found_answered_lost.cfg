SPECIFICATION Spec
CONSTANTS
    p1 = p1
    p2 = p2
    Slots = {s1, s2}
    Purchases = {p1, p2}
    Pack = 3
    Gross = 2
    Histories <- Small
    MaxPrices = 1
    Faults = 2
SYMMETRY Symmetry
INVARIANTS AnsweredIsGranted
CHECK_DEADLOCK FALSE
