SPECIFICATION Spec
CONSTANTS
  p1 = p1
  p2 = p2
  Plugins = {p1}
  Attempts = 2
  MaxSpawns = 2
  MaxFailedStarts = 3
  DiesUnrecorded = FALSE
  OutlivesConn = FALSE
CHECK_DEADLOCK FALSE
INVARIANTS AttemptsBound
