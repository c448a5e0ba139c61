\* Bills, offers, visits and finance settings at small sizes (see the module).
SPECIFICATION MCSpec
CONSTANTS
    Rounds = {r1, r2}
    First = r1
    Intents = {x1, x2}
    Tasks = {h1, h2}
    None = None
    MaxDiscounts = 1
    Offers = {o1, o2}
    Orders = {x1, x2}
    Keys = {k1, k2}
    OfferTasks = {h1, h2}
    Nothing = Nothing
    Sessions = {x1, x2}
    VisitTasks = {h1, h2}
    NoVisit = NoVisit
    Channels = {TRUE, FALSE}
    IdleAfter = 1
    CheckoutLeftAfter = 1
    CloseAfter = 2
    DineInCloseAfter = 3
    MaxTime = 3
    Fields = {"codEnabled", "riderBasePay"}
    Values = {0, 1}
    Default <- Zero
    Admins = {h1, h2}
    Reads = {o1}
    Processes = {k1}
    LastDate = 2
    LastVersion = 3
    Tolerance = 1
    CacheTime = 2
    r1 = r1
    r2 = r2
    h1 = h1
    h2 = h2
    x1 = x1
    x2 = x2
    o1 = o1
    o2 = o2
    k1 = k1
    k2 = k2
INVARIANTS TypesOK ReceiptIsPayment LonePaymentIsAccounted CancelledRoundIsFlagged
    RedeemedOnce OfferOfItsOrder OneAnswerPerKey LeftOncePerAttempt ServedIsCurrent
PROPERTIES AbandonedWhenSilent LoneSaveKeepsTheTimeline
SYMMETRY Sym
CHECK_DEADLOCK FALSE
