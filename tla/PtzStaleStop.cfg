SPECIFICATION Spec
CONSTANTS
    Moves = {m1}
    Stops = {}
    NoOne = NoOne
    MaxRequests = 1
PROPERTIES StopReachesCamera
CHECK_DEADLOCK FALSE
