SPECIFICATION Spec
CONSTANTS
    NULL = NULL
    Calls <- MCCalls
    Configurations <- MCConfigurations
    Replies <- MCReplies
    Jitters = {536}
    MaxCalls = 2
    MaxAttempts = 2
INVARIANTS
    TypeOK
    RequestIsTheCalls
    ReadsItsReply
    OneOutcome
    CancelHolds
    RetryIsTimed
CHECK_DEADLOCK FALSE
