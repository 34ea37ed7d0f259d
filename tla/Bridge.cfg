SPECIFICATION FairSpec
CONSTANTS
    Continuous = {c1}
    Relative = {r1}
    Stops = {s1}
    Presets = {p1}
    NoOne = NoOne
    MaxCalls = 3
INVARIANTS TypeOK NoOrphanMover MovingHasOwner
PROPERTIES CallsReturn ComesToRest
CHECK_DEADLOCK FALSE
