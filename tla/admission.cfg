SPECIFICATION Spec
CONSTANTS
    Keys <- MCKeys
    Media <- MCKeys
    Free = {}
    Cost <- MCCost
    Units <- MCUnits
    Deployments <- Paying
    Start = 4
    GrantSize = 2
    DailyCap = 0
    MonthlyCap = 0
    SpendCeiling = 0
    PlanCap = 4
    DaysPerMonth = 2
    MaxDay = 0
    Grants = 1
    Requests = {"first", "again", "other"}
    KeyOf <- MCKeyOf
    Faults = 2
INVARIANTS AdmissionTypeOK AnswerNamesJob NoStrandedDebit
PROPERTIES EveryDebitSettles
CHECK_DEADLOCK FALSE
