SPECIFICATION FairSpec
CONSTANTS
    Moves = {m1, m2}
    Stops = {s1}
    NoOne = NoOne
    MaxRequests = 2
INVARIANTS TypeOK LeaseDiscipline DialDiscipline StopIsFinal 
PROPERTIES KeepaliveHonoured RequestsFinish KeepsPromise
CHECK_DEADLOCK FALSE
