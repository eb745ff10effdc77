SPECIFICATION FairTicksSpec
CONSTANTS
  Width = 3
  Height = 3
  Scenes <- Waterfall
  Placeable <- Placed
  FallDelay = 2
  FluidDelay <- Delays
  DropOff <- DropOffs
  LeafDelay = 2
  LeafRadius = 1
  IceDelay = 3
  ButtonDelay = 4
  MaxEdits = 1
CHECK_DEADLOCK FALSE
PROPERTIES ComesToRest
