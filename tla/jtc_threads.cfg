SPECIFICATION Spec
CONSTANTS
    Default = Default
    Hold = Hold
    Stop = Stop
    None = None
    g1 = g1
    g2 = g2
    t1 = t1
    Goals = {g1, g2}
    Topics = {t1}
    Stamped = {g1}
    GoalTimed = {g1, g2, Default}
    AllowReplacement = TRUE
    DecelerateOnCancel = FALSE
    CmdTimeout = FALSE
    Concurrent = TRUE
    MaxDeactivations = 0
INVARIANTS
    NoStuckPending
    TolerancesChecked
    EndedGoalIsReplaced
