SPECIFICATION JobsSpec
CONSTANTS
    Jobs = {j1}
    Processes = {p1, p2}
    PerProcess = 1
    Faults = {"die", "slow", "read", "upload", "error", "lost"}
    MaxFaults = 2
    MaxClaims = 3
    Assets = {a1}
    Kinds = {k1, k2}
    Always = {k1}
    MaxAttempts = 2
    MediaFaults = {"die", "stop", "slow", "upload", "error", "lost"}
    MaxMediaFaults = 2
    MaxRequests = 2
INVARIANTS SucceededHasArchive
PROPERTIES JobEnds MediaJobEnds
CHECK_DEADLOCK FALSE
