SPECIFICATION Spec
CONSTANTS
    Consumers = {c1, c2}
    Lookups = {l1}
    MaxConns = 2
PROPERTIES StopSparesViewers
CHECK_DEADLOCK FALSE
