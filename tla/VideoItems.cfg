SPECIFICATION Spec
CONSTANTS
    s1 = s1
    s2 = s2
    Items = {i1}
    Slots = {s1, s2}
    OwnerOf <- TwoProcesses
    Price = 2
    MaxArtifactAttempts = 2
    MaxFaults = 1
    MaxCallbacks = 1
    MaxRetries = 1
    MaxTogether = 2
INVARIANTS OneAttempt AssetHasObject SettledOnce
PROPERTIES ItemsEnd
CHECK_DEADLOCK FALSE
