SPECIFICATION FairSpec
CONSTANTS
  p1 = p1
  p2 = p2
  Plugins = {p1, p2}
  Attempts = 1
  MaxSpawns = 3
  MaxFailedStarts = 1
  DiesUnrecorded = FALSE
  OutlivesConn = TRUE
CHECK_DEADLOCK FALSE
INVARIANTS OneProcess PluginsComeBack DeathsBound
PROPERTIES Recovers 
