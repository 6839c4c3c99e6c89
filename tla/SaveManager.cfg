CONSTANTS
  r1 = r1
  r2 = r2
  Homebrew = Homebrew
  None = None
  Roms <- MCRoms
  CardPrograms <- MCCard
  ListedRoms <- MCListed
  LastBlock = 2
  MaxSaves = 2
  MaxPowerCycles = 5
  CardMayBeAbsent = TRUE
  PowerFailsInSave = FALSE
SPECIFICATION FairSpec
INVARIANTS SaveIsKept SavIsOfItsGame
PROPERTIES StartsFromLatest SavesReachFiles
CHECK_DEADLOCK FALSE
