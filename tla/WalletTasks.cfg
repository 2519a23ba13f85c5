SPECIFICATION Spec
CONSTANTS
    Tasks = {t1, t2}
    AdjustKeys = {a1}
    RedeemKeys = {r1}
    SignupKey = s1
    MaxGrants = 3
    MaxPoints = 2
    MaxTime = 2
    MaxCycle = 1
    Opening <- SubscriptionAndRecharge
    TrialPoints = 1
    TrialDays = 1
    CodeReward = 1
    CodeUntil = 1
    MaxRedemptions = 1
    MaxRows = 7
SYMMETRY TaskSymmetry
INVARIANTS NoMint OneOpenCycle LedgerReconciles ExpiredStaysEmpty
PROPERTIES SettlementIsFinal ImplementsTaskBilling
CONSTRAINT ShortLedger
