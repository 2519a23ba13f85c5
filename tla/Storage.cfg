SPECIFICATION StorageSpec
CONSTANTS
    s1 = s1
    s2 = s2
    Refs = {r1}
    Workers = {w1, w2}
    Lists = TRUE
    MaxJobs = 3
    MaxTakes = 2
    MaxFaults = 2
    Keys = {k1}
    Parts = {p1}
    Calls = {c1, c2}
    Loops = {l1}
    Disk <- MCDisk
    S3 <- MCS3
INVARIANTS HeldIsKept OneAsset
PROPERTIES UnusedIsRemoved SessionsEnd
CHECK_DEADLOCK FALSE
