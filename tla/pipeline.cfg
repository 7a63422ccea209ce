SPECIFICATION SafeSpec
CONSTANTS
    Jobs = {j1}
    Requests = {r1}
    Tickers = {t1}
    Slots = {w1, w2}
    Sweepers = {s1}
    Nobody = Nobody
    Attempts = 2
    MaxStalled = 1
    RequeuePaths = {"admin", "salvage"}
    Scenarios <- Everyone
SYMMETRY Symmetry
INVARIANTS TypeOK RefundedAtMostOnce RefundFollowsExhaustion ObligationOnFailedJob
PROPERTIES KeepsPromise
CHECK_DEADLOCK FALSE
