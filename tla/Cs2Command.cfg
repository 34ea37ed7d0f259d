SPECIFICATION CommandFairSpec
CONSTANTS
    Commands = {c1, c2}
    Attempts = 2
    NoOne = NoOne
INVARIANTS CommandTypeOK AttemptsRespected 
PROPERTIES CallsReturn
CHECK_DEADLOCK FALSE
