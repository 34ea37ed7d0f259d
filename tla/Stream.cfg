SPECIFICATION FairSpec
CONSTANTS
    Consumers = {c1, c2}
    Lookups = {l1}
    MaxConns = 3
INVARIANTS TypeOK ConnectionOwned SweepsOwed
PROPERTIES NoResurrection CallsReturn
CHECK_DEADLOCK FALSE
