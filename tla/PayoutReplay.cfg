\* A failed payout put on hold, scheduled again and released by hand keeps its old reference.
SPECIFICATION PayoutSpec
CONSTANTS
    Settlements = {s1}
    Batches = {b1}
    PayoutTasks = {h1}
    NoBatch = NoBatch
    MaxAttempts = 2
    MaxAccounts = 1
    Holds = {"failed"}
    Cancels = {}
INVARIANTS PaidOnce
CHECK_DEADLOCK FALSE
