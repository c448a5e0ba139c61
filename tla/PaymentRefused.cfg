\* One handler at a time, refused payments.
CONSTANTS
  p1 = p1
  p2 = p2
  p3 = p3
  t1 = t1
  t2 = t2
  NoPayment = NoPayment
  Payments = {p1, p2, p3}
  Exact = {p1}
  Tasks = {t1}
  MaxRefunds = 2
  MaxMoves = 1
  MaxFaults = 0
SPECIFICATION Spec
SYMMETRY Symmetry
INVARIANTS OneRecordPerPayment RefundOfOwnPayment LiveOrderKeepsItsMoney
PROPERTIES PaidIsFinal
