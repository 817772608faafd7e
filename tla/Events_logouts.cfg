SPECIFICATION MCSpec
CONSTANTS
    u1 = u1
    Users = {u1}
    Timeouts = {TRUE}
PROPERTIES
    LogoutsEnd
CHECK_DEADLOCK FALSE
