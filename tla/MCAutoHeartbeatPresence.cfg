SPECIFICATION FairSpec
CONSTANTS
    c1 = c1
    c2 = c2
    c3 = c3
    NULL = NULL
    Contexts = {c1}
    MaxThumpers = 1
    KeysOf <- MCKeysOf
    Periods = {2}
    MinPeriod = 1
    Calls = {"enable", "disable", "subscribe"}
    MaxCalls = 4
PROPERTIES
    KeepsPresence
CHECK_DEADLOCK FALSE
