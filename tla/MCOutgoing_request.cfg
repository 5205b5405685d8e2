SPECIFICATION Spec
CONSTANTS
    Sanitized <- MCSanitized
    Clamped <- MCClamped
    Models <- MCModels
    Inputs <- MCInputs
    MaxItems = 4
    Requests = {r1, r2}
    Texts = {t1, t2, t3}
    MaxTexts = 2
    TTL = 1
    MaxClock = 2
    MaxIds = 4
    MaxRelease = 3
SYMMETRY Alike
INVARIANTS ToolTurnsAnswered AnswersKeepTheirCall UserTurnsSurvive IdIsStable TripleNeverMixed
PROPERTIES NeverRegresses
CHECK_DEADLOCK FALSE
