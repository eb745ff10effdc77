SPECIFICATION BothSpec
CONSTANTS
  c1 = c1
  c2 = c2
  c3 = c3
  r1 = r1
  r2 = r2
  f1 = f1
  l1 = l1
  None = None
  Chunks = {c1, c2, c3}
  Regions = {r1, r2}
  RegionOf <- TwoRegions
  Flushers = {f1}
  Loaders = {l1}
  Inodes = {1, 2, 3, 4, 5, 6}
  MaxSaves <- TwiceTheFirst
  MaxWriteErrors = 1
  MaxReadErrors = 0
  MaxCrashes = 1
  NumSlots = 3
  SectorSize = 4
  HeaderSectors = 2
  CountLimit = 4
  OffsetLimit = 16
  MaxLength = 8
INVARIANTS NewestIsKept NeverTorn ReadsBack
PROPERTIES DiskMovesForward FlushCommits
