CONSTANTS
  Kinds <- AllKinds
  LastBlock = 2
  MaxBlocks = 3
  Lateness = 2
  Tries = 2
  MaxWritten = 2
  Regions <- TwoRegions
  CutsInCopy = FALSE
SPECIFICATION AdaptersSpec
INVARIANTS ReadsTheBlocks BlocksKept CardsSound
PROPERTIES CallsEnd
