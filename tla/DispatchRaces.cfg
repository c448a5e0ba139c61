\* One order, two riders, two handlers interleaving at every call.
CONSTANTS
  o1 = o1
  o2 = o2
  r1 = r1
  r2 = r2
  t1 = t1
  t2 = t2
  None = None
  Orders = {o1}
  Riders = {r1, r2}
  Tasks = {t1, t2}
  MaxActive = 1
  ReofferMax = 2
  SweepLimit = 100
  Reassigns = {}
SPECIFICATION FairSpec
INVARIANTS TypeOK HandedOverIsNotCancelled CancelledIsReleased
PROPERTIES NoTakeover OfferStands HandedOverIsClosed WaitingIsOffered
