SPECIFICATION Spec
CONSTANTS
    Default = Default
    Hold = Hold
    Stop = Stop
    None = None
    g1 = g1
    g2 = g2
    t1 = t1
    Goals = {g1, g2}
    Topics = {}
    Stamped = {g1}
    GoalTimed = {g1, g2, Default}
    AllowReplacement = TRUE
    DecelerateOnCancel = TRUE
    CmdTimeout = FALSE
    Concurrent = FALSE
    MaxDeactivations = 0
PROPERTIES
    DeferredNotJudged
