SPECIFICATION FairSpec
CONSTANTS
    c1 = c1
    c2 = c2
    b1 = b1
    b2 = b2
    u1 = u1
    u2 = u2
    Calls = {c1, c2}
    Browsers = {b1, b2}
    Accounts = {u1, u2}
    AccountOf <- MCAccountOf
    NoOne = NoOne
    MaxSessions = 3
    MaxPosts = 2
    MaxActors = 2
INVARIANTS TypeOK RetryIsFresh
PROPERTIES   CallsReturn
CHECK_DEADLOCK FALSE
