\* A handler fails between a cancellation and its refund.
CONSTANTS
  p1 = p1
  p2 = p2
  p3 = p3
  t1 = t1
  t2 = t2
  NoPayment = NoPayment
  Payments = {p1, p2}
  Exact = {p1, p2}
  Tasks = {t1, t2}
  MaxRefunds = 1
  MaxMoves = 1
  MaxFaults = 1
SPECIFICATION Spec
SYMMETRY Symmetry
INVARIANT CancelledMoneyIsRefundable
