\* Two handlers at a time, every payment exact, no handler fails; a refund may.
CONSTANTS
  p1 = p1
  p2 = p2
  p3 = p3
  t1 = t1
  t2 = t2
  NoPayment = NoPayment
  Payments = {p1, p2}
  Exact = {p1, p2}
  Tasks = {t1, t2}
  MaxRefunds = 2
  MaxMoves = 1
  MaxFaults = 0
SPECIFICATION Spec
SYMMETRY Symmetry
INVARIANTS TypeOK SendsOnce CancelledMoneyIsRefundable
