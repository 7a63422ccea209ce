SPECIFICATION Spec
CONSTANTS
    Jobs = {j1}
    Requests = {r1}
    Tickers = {t1}
    Slots = {w1}
    Sweepers = {s1}
    Nobody = Nobody
    Attempts = 1
    MaxStalled = 1
    RequeuePaths = {"admin"}
    Scenarios <- OneRequeue
PROPERTIES EveryJobSettles
CHECK_DEADLOCK FALSE
