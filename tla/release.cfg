SPECIFICATION Spec
CONSTANTS
    Slots = {s1, s2}
    MaxRevision = 6
    MaxMoves = 3
    MaxTime = 2
    Faults = 1
SYMMETRY Symmetry
INVARIANTS ReleaseTypeOK PartnerHoldsWhatHeadSays PublicIsLive
PROPERTIES LiveOnlyTakenDown PartnerStatusAdvances
CHECK_DEADLOCK FALSE
