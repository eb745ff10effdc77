SPECIFICATION FairSpec
CONSTANTS
  k1 = k1
  k2 = k2
  None = None
  Callers = {k1, k2}
  MaxRequests = 2
  PipeSize = 1
  MaxStray = 1
  Strays = {1}
  Expiring = {k1}
CHECK_DEADLOCK FALSE
INVARIANTS DeliveryFits OwnReply
PROPERTIES EndWakesAll DeadlineBoundsWait
