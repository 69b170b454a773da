SPECIFICATION FairSpec
CONSTANTS
    s1 = s1
    s2 = s2
    a = a
    b = b
    Subscriptions = {s1, s2}
    Channels = {a, b}
    ChannelsOf <- MCChannelsOf
    MaxToken = 2
    MaxInvocations = 2
    MaxRestoring = 1
    Calls = {"subscribe", "unsubscribe", "unsubscribe_all", "disconnect", "reconnect"}
    Cursors = {0, 1}
    Cached = FALSE
    Windows = {"heartbeat"}
INVARIANTS
    TypeOK
    NeverStalls
    LoopIsCurrent
    NothingSkippedWhileReceiving
    StatusIsCurrent
    LeavesAreKept
PROPERTIES
    LeaveIsSent
CHECK_DEADLOCK FALSE
