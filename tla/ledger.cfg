SPECIFICATION LedgerSpec
CONSTANTS
    Keys <- MCKeys
    Media <- MCMedia
    Free <- MCFree
    Cost <- MCCost
    Units <- MCUnits
    Deployments <- AnyBeginning
    Start = 4
    GrantSize = 3
    DailyCap = 2
    MonthlyCap = 3
    SpendCeiling = 4
    PlanCap = 2
    DaysPerMonth = 2
    MaxDay = 2
    Grants = 1
INVARIANTS LedgerTypeOK AgreeingRefundsMakeNoCredits CapsHold BalanceMatchesLedger NeverOverdrawn
PROPERTIES SweepSparesJobs
CHECK_DEADLOCK FALSE
