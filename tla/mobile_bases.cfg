SPECIFICATION FairSpec
CONSTANTS
    NaN = NaN
    None = None
    Bases <- EveryBase
    Velocities = {1, 3}
    Timeouts = {0, 1}
    Reach = 1
    MaxMissed = 2
    Unreadable = {"diff_drive", "omni_wheel", "tricycle"}
    Overlap = FALSE
INVARIANTS
    TypeOK
    CommandsNewest
    CommandsFresh
    UsedOnce
PROPERTIES
    DiffDriveLimited
    AcceptedIsServed
