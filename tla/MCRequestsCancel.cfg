SPECIFICATION FairSpec
CONSTANTS
    NULL = NULL
    Calls <- MCFewCalls
    Configurations <- MCOnce
    Replies <- MCFewReplies
    Jitters = {0}
    MaxCalls = 1
    MaxAttempts = 1
PROPERTIES
    CalledBack
CHECK_DEADLOCK FALSE
