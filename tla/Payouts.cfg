\* Weeks of a restaurant, its payouts and a rider's (see the module).
SPECIFICATION MCSpec
CONSTANTS
    NWeeks = 2
    Rows = {1, 2, 3, 4, 5}
    Amounts <- SmallAmounts
    Tasks = {h1, h2}
    None = None
    Dead = Dead
    HeldWeeks = {2}
    MaxEvents = 2
    Settlements = {s1, s2}
    Batches = {b1, b2}
    PayoutTasks = {h1, h2}
    NoBatch = NoBatch
    MaxAttempts = 2
    MaxAccounts = 2
    Holds = {"draft", "approved"}
    Cancels = {b1, b2}
    Deliveries = {d1, d2}
    RiderTasks = {h1, h2}
    Refs = {f1, f2}
    NoRef = NoRef
    MaxWeek = 2
    Legacy = {"none", "pending", "paid"}
    MaxCrashes = 1
    s1 = s1
    s2 = s2
    b1 = b1
    b2 = b2
    h1 = h1
    h2 = h2
    d1 = d1
    d2 = d2
    f1 = f1
    f2 = f2
INVARIANTS TypesOK ApprovedIsSummed MoneyConserved PaidOnce ToVerifiedAccount ReconciledIsSettled
    LonePaidIsEarned
PROPERTIES SavedIsSummed PaidForGood
SYMMETRY Sym
CHECK_DEADLOCK FALSE
