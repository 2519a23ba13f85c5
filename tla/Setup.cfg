SPECIFICATION FairSpec
CONSTANTS
    f1 = f1
    f2 = f2
    d1 = d1
    d2 = d2
    Operations = {a, b}
    Forms = {f1, f2}
    Databases = {d1, d2}
    DatabaseOf <- MCDatabaseOf
    Kinds = {"empty", "taken", "foreign", "unreachable"}
    MaxResets = 2
    MaxFaults = 3
INVARIANTS BoundIsRecorded OneAdministrator
PROPERTIES SetupCompletes
CHECK_DEADLOCK FALSE
