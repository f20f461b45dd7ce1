SPECIFICATION FairSpec
CONSTANTS
    None = None
    g1 = g1
    g2 = g2
    g3 = g3
    Goals = {g1, g2, g3}
    Motions <- MCMotions
    Capacity = 4
    Prompt = TRUE
    Concurrent = FALSE
    MaxDeactivations = 1
INVARIANTS
    TypeOK
    SequencesAreWhole
    SuccessIsExecuted
PROPERTIES
    GoalGetsResult
    CancelIsAnswered
