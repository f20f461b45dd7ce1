SPECIFICATION FairSpec
CONSTANTS
    None = None
    Uninitialized = Uninitialized
    g1 = g1
    g2 = g2
    Goals <- TwoGoals
    Positions <- OpenClosed
    Overlap = FALSE
    StallTimeout = 1
    AllowStalling = FALSE
INVARIANTS
    TypeOK
    CanceledIsHeld
PROPERTIES
    EndIsEarned
    GripperGoals
    GoalEnds
