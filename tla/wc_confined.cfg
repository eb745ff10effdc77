SPECIFICATION Spec
CONSTANTS
  k1 = k1
  k2 = k2
  a1 = a1
  a2 = a2
  f1 = f1
  f2 = f2
  e1 = e1
  e2 = e2
  e3 = e3
  None = None
  Keys = {k1, k2}
  Actors = {a1, a2}
  Flushers = {f1}
  Edits = {e1, e2, e3}
  EditKey <- OneEach
  EditKind <- EachKind
  Users <- Confined
  MaxCached = 1
  Instances = {1, 2, 3, 4, 5}
  MaxFailures = 1
  MaxLoadErrors = 0
  MaxCrashes = 1
INVARIANTS EditsSurvive FlushedIsDurable
PROPERTIES ImplementsChunkStore
