SPECIFICATION Spec
CONSTANTS
    NULL = NULL
    a = a
    b = b
    c = c
    single = single
    set = set
    message = message
    signal = signal
    Names <- MCNames
    Subscriptions = {single, set}
    NamesOf <- MCNamesOf
    Types = {message, signal}
    Callbacks = {"callback"}
    InitialLength = 2
    MaxAdded = 3
SYMMETRY TypesAlike
CHECK_DEADLOCK FALSE
INVARIANTS TypeOK AllocatedWhileRegistered ToldAsRegistered RemovedIsGone
