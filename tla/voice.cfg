SPECIFICATION Spec
CONSTANTS
    Makers = {m1, m2}
    Revokers = {d1}
    Slots = {w1, w2}
    Keys = {s1, t1}
    Trainings = {t1}
    Artefacts = {x1, x2}
    None = None
    Scenarios <- Everyone
SYMMETRY Symmetry
INVARIANTS VoiceTypeOK RevocationIsComplete NothingForgotten CalledOffIsRefunded DeliveredIsCharged
PROPERTIES NothingAfterRevocation
CHECK_DEADLOCK FALSE
