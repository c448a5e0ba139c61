\* Two orders competing for two riders, one handler at a time, waiting orders given away.
CONSTANTS
  o1 = o1
  o2 = o2
  r1 = r1
  r2 = r2
  t1 = t1
  t2 = t2
  None = None
  Orders = {o1, o2}
  Riders = {r1, r2}
  Tasks = {t1}
  MaxActive = 1
  ReofferMax = 1
  SweepLimit = 100
  Reassigns = {"waiting"}
SPECIFICATION Spec
SYMMETRY Symmetry
INVARIANTS OneOfferAtATime BusyHoldsAnOrder
