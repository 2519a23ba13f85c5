SPECIFICATION HandlersSpec
CONSTANTS
    n1 = n1
    r1 = r1
    d1 = d1
    d2 = d2
    Nodes = {n1}
    Drafts = {d1}
    Template = d1
    Runs = {}
    NodeOf <- NoRun
    Kinds = {"image"}
    Projects = {p1}
    Requests = {}
    Editors = {}
    Redrafts = {}
    MaxRevision = 1
    MaxMeta = 1
    MaxFaults = 0
    Orders = {o1, o2}
    Trades = {t1, t2}
    Numbered = {o2}
    Cancelers = {user, admin}
    PendingLimit = 1
    Timeout = 1
    MaxTime = 1
INVARIANTS CreditedOnce
PROPERTIES CancelClosesFirst PaidIsCredited PendingEnds
CHECK_DEADLOCK FALSE
