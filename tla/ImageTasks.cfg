SPECIFICATION Spec
CONSTANTS
    t1 = t1
    Tasks = {t1}
    Requests = {r1}
    TaskOf <- OneTask
    Slots = {s1, s2, s3}
    OwnerOf <- EachItsOwn
    Estimate = 2
    Charges = {1}
    Candidates = 2
    Attempts = 2
    MaxFaults = 3
INVARIANTS RepeatedAfterError EndIsSettled ChargedIsDelivered
PROPERTIES PaidOutputIsKept TasksEnd
CHECK_DEADLOCK FALSE
