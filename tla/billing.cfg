SPECIFICATION Spec
CONSTANTS
    p1 = p1
    p2 = p2
    Slots = {s1, s2}
    Purchases = {p1, p2}
    Pack = 3
    Gross = 2
    Histories <- Full
    MaxPrices = 1
    Faults = 1
SYMMETRY Symmetry
INVARIANTS BillingTypeOK GrantedOnceForPayment RevokedAgreesWithPayPal ProcessedIsEffective
CHECK_DEADLOCK FALSE
