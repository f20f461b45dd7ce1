SPECIFICATION Spec
CONSTANTS
    g2 = g2
    t1 = t1
    Default = Default
    Hold = Hold
    Stop = Stop
    None = None
    g1 = g1
    Goals = {g1}
    Topics = {}
    Stamped = {}
    GoalTimed = {}
    AllowReplacement = TRUE
    DecelerateOnCancel = FALSE
    CmdTimeout = TRUE
    Concurrent = FALSE
    MaxDeactivations = 0
INVARIANTS
    SuccessIsMeasured
