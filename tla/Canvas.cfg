SPECIFICATION HandlersSpec
CONSTANTS
    n1 = n1
    r1 = r1
    d1 = d1
    d2 = d2
    Nodes = {n1}
    Drafts = {d1, d2}
    Template = d1
    Runs = {r1}
    NodeOf <- OneRun
    Kinds = {"video", "layers", "unreadable"}
    Projects = {p1, p2}
    Requests = {q1, q2}
    Editors = {e1}
    Redrafts <- Undo
    MaxRevision = 4
    MaxMeta = 2
    MaxFaults = 1
    Orders = {}
    Trades = {}
    Numbered = {}
    Cancelers = {}
    PendingLimit = 0
    Timeout = 0
    MaxTime = 0
INVARIANTS PlacedOnce OneTaskPerClick
PROPERTIES EditsSurvive 
CHECK_DEADLOCK FALSE
