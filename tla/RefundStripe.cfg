SPECIFICATION RefundSpec
CONSTANTS
    Tasks = {t1}
    AdjustKeys = {}
    RedeemKeys = {}
    SignupKey = s1
    MaxGrants = 2
    MaxPoints = 2
    MaxTime = 1
    MaxCycle = 0
    Opening <- PlanOrder
    TrialPoints = 1
    TrialDays = 1
    CodeReward = 1
    CodeUntil = 1
    MaxRedemptions = 0
    OrderGrants = {1, 2}
    OrderAmount = 2
    RefundTrades = {1, 2}
    Admins = {a1, a2}
    Requests = {0, 1}
    Submitted <- PartThenRest
    Channel = "stripe"
SYMMETRY AdminSymmetry
INVARIANTS RefundsAddUp NoPointTwice
PROPERTY LostAnswerKeepsFreeze
