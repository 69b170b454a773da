SPECIFICATION FairSpec
CONSTANTS
    s1 = s1
    s2 = s2
    a = a
    b = b
    Subscriptions = {s1, s2}
    Channels = {a, b}
    ChannelsOf <- MCChannelsOf
    MaxToken = 2
    MaxInvocations = 2
    MaxRestoring = 1
    Calls = {"subscribe", "disconnect", "reconnect"}
    Cursors = {0}
    Cached = TRUE
    Windows = {"heartbeat"}
INVARIANT
    CatchesUp
CHECK_DEADLOCK FALSE
