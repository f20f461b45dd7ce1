SPECIFICATION FairSpec
CONSTANTS
    NaN = NaN
    None = None
    Bases <- EveryBase
    Velocities = {2}
    Timeouts = {1}
    Reach = 1
    MaxMissed = 0
    Unreadable = {"diff_drive", "omni_wheel", "tricycle"}
    Overlap = TRUE
INVARIANTS
    ReferenceTimesOut
PROPERTIES
    BrakesOnTimeout
