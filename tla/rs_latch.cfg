SPECIFICATION RedstoneSpec
CONSTANTS
  Long = 2
  High = 2
  Sites <- Slice
  Strongest = 3
  Circuits <- Latch
  Fittings <- NoFittings
  MaxRewirings = 2
  NoSite = none
CHECK_DEADLOCK FALSE
INVARIANTS PowerIsTrue
