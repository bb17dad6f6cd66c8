\* The desktop's copy of the structure while operations run, lags and Quit.
CONSTANTS
    Start <- TwoSessions
    Sides = {1}
    Capacity = 1
    Scenarios <- AnyThenMany
SPECIFICATION ProjectionSpec
INVARIANTS FollowsStream
PROPERTIES CatchesUp
CHECK_DEADLOCK FALSE
