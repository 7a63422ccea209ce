SPECIFICATION LedgerSpec
CONSTANTS
    Keys <- MCKeys
    Media <- MCMedia
    Free <- MCFree
    Cost <- MCCost
    Units <- MCUnits
    Deployments <- HouseOnly
    Start = 4
    GrantSize = 3
    DailyCap = 3
    MonthlyCap = 3
    SpendCeiling = 4
    PlanCap = 3
    DaysPerMonth = 2
    MaxDay = 1
    Grants = 1
INVARIANTS CreditsOnlyWhatWasDebited
CHECK_DEADLOCK FALSE
