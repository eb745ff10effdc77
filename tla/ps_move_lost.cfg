SPECIFICATION Spec
CONSTANTS
  j1 = j1
  j2 = j2
  b1 = b1
  b2 = b2
  uj = uj
  ub = ub
  NoConn = NoConn
  JavaConns = {j1, j2}
  BedrockConns = {b1, b2}
  UUIDs = {uj, ub}
  Owner <- MCOwner
  Populations <- MCPopulations
  LifecycleCapacity = 2
  MaxWalk = 2
  MaxFaults = 1
CHECK_DEADLOCK FALSE
PROPERTIES DrainLosesNoMove
