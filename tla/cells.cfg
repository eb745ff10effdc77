SPECIFICATION CellsSpec
CONSTANTS
  Width = 3
  Height = 3
  Scenes <- Scenery
  Placeable <- Placed
  FallDelay = 2
  FluidDelay <- Delays
  DropOff <- DropOffs
  LeafDelay = 2
  LeafRadius = 1
  IceDelay = 3
  ButtonDelay = 4
  MaxEdits = 2
  player = player
  client = client
  Voxels <- Caves
  Adjoining <- Faces
  AtOrAbove <- Upwards
  ChunkOf <- ChunkAt
  Nearby <- InView
  Full = 3
  Kinds <- Lamps
  Terrains <- Lit
  Edits <- AtTheBorder
  Evictable = {3}
  Editors = {player}
  Watcher = client
  MaxChanges = 1
  right = right
  left = left
  upper = upper
  beside = beside
  lower = lower
  NoBlock = NoBlock
  Vehicle = Vehicle
  p1 = p1
  p2 = p2
  Players = {p1, p2}
  Blocks = {right, left, upper, beside, lower}
  Hoppers = {upper, beside, lower}
  NearDrops = {lower}
  Into <- MCInto
  Above <- MCAbove
  Y <- MCY
  X <- MCX
  Screens <- MCScreens
  Starts <- MCStarts
  MaxStack = 2
  Breakable = {right}
  Long = 4
  High = 2
  Sites <- Slice
  Strongest = 3
  Circuits <- Boards
  Fittings <- Fitted
  MaxRewirings = 1
  NoSite = none
SYMMETRY Twins
CHECK_DEADLOCK FALSE
INVARIANTS PowerSettles   OneHopperPerTick NothingIsForgotten  BareTreeSheds LightSettles ClientLightIsTrue
