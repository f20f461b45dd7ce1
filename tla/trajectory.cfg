SPECIFICATION Spec
CONSTANTS
    MaxStep = 3
    Past = 2
    Ahead = 1
    Trajectories <- DeducibleTrajectories
    Steps <- MCSteps
    QueryTimes <- MCQueryTimes
    UpdatePeriod = 1
    MaxTime = 8
INVARIANTS
    TypeOK
    PlaysOutInTime
    InterpolatesFromPositions
PROPERTIES
    TrajectoryEnds
