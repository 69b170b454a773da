SPECIFICATION Spec
CONSTANTS
    c1 = c1
    c2 = c2
    c3 = c3
    NULL = NULL
    Contexts = {c1, c2, c3}
    MaxThumpers = 2
    KeysOf <- MCKeysOf
    Periods = {2}
    MinPeriod = 1
    Calls = {"enable", "set_period", "disable", "subscribe", "leave", "smart"}
    MaxCalls = 4
INVARIANTS
    TypeOK
    SlotsAgree
    TimersRun
    AssertionsHold
    IdleHoldsNothing
CHECK_DEADLOCK FALSE
