SPECIFICATION GatesSpec
CONSTANTS
    c1 = c1
    c2 = c2
    c3 = c3
    user = user
    account = account
    other = other
    Calls = {c1, c2, c3}
    Resources = {user, account, other}
    Needs <- MCNeeds
    Timeout <- MCTimeout
    Limits = {1, 2}
    SharedLimits = {1, 2}
    Margin <- MCMargin
    Grace = 1
    MaxCalls = 1
    Faults = {"die", "acquire", "release"}
    MaxFaults = 2
PROPERTIES Implements NotForgotten SharedImplements AskersAreServed
CHECK_DEADLOCK FALSE
