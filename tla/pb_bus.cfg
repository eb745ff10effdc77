SPECIFICATION FairSpec
CONSTANTS
  a = a
  b = b
  c = c
  e1 = e1
  e2 = e2
  go = go
  jvm = jvm
  open = open
  sealed = sealed
  None = None
  x1 = x1
  Order <- ByPriority
  LoadOrder <- ById
  RuntimeOrder <- ByName
  RuntimeOf <- RunBy
  Shared = {jvm}
  Commanding = {a}
  Calls = {x1}
  MaxQueued = 1
  Emissions = {e1, e2}
  Events <- TwoEvents
  Verdicts <- FewVerdicts
  Paths = {open, sealed}
  Mutable = {open}
  MinSamples = 1
CHECK_DEADLOCK FALSE
INVARIANTS AllowedMeansAnswered VetoHolds HeardOnceInOrder ReplayReproduces  AllOrNothing
 
