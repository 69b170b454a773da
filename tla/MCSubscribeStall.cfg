SPECIFICATION Spec
CONSTANTS
    s1 = s1
    s2 = s2
    a = a
    b = b
    Subscriptions = {s1, s2}
    Channels = {a, b}
    ChannelsOf <- MCChannelsOf
    MaxToken = 1
    MaxInvocations = 2
    MaxRestoring = 1
    Calls = {"subscribe", "unsubscribe"}
    Cursors = {0}
    Cached = FALSE
    Windows = {}
INVARIANT
    LoopGoesOn
CHECK_DEADLOCK FALSE
