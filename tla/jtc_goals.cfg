SPECIFICATION FairSpec
CONSTANTS
    Default = Default
    Hold = Hold
    Stop = Stop
    None = None
    g1 = g1
    g2 = g2
    t1 = t1
    Goals = {g1, g2}
    Topics = {t1}
    Stamped = {g1}
    GoalTimed = {g1, g2, Default}
    AllowReplacement = TRUE
    DecelerateOnCancel = TRUE
    CmdTimeout = FALSE
    Concurrent = FALSE
    MaxDeactivations = 1
INVARIANTS
    TypeOK
    LiveGoalIsActive
    SuccessIsMeasured
    CanceledGoalNotPending
PROPERTIES
    SuccessIsEarned
    ActionGoalsSpec
    GoalsAreJudged
    DeferredIsResolved
    ResultsAreDelivered
