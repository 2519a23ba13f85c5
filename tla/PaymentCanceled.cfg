SPECIFICATION Spec
CONSTANTS
    Orders = {o1}
    Trades = {t1}
    Numbered = {}
    Cancelers = {user}
    PendingLimit = 1
    Timeout = 1
    MaxTime = 1
INVARIANT CanceledIsClosed
CHECK_DEADLOCK FALSE
