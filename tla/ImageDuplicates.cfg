SPECIFICATION Spec
CONSTANTS
    t1 = t1
    Tasks = {t1}
    Requests = {r1, r2}
    TaskOf <- OneTask
    Slots = {s1}
    OwnerOf <- EachItsOwn
    Estimate = 2
    Charges = {1}
    Candidates = 2
    Attempts = 2
    MaxFaults = 0
INVARIANT QueuedIsReserved
CHECK_DEADLOCK FALSE
