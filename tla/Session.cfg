CONSTANTS
  NULL = NULL
  Content <- Disks
  Kind <- Kinds
  GameOf <- Headers
  Less <- Alphabetic
  Path <- Paths
  Parent <- Parents
  OnFlash <- Flash
  Disk <- DiskOf
  Height = 152
  RowHeight <- Heights
  Points <- Touches
  SaveTypes = {"eeprom"}
  Levels = {1, 4}
  Lite = {TRUE, FALSE}
  Prompt = TRUE
  Game <- Games
  Chain <- Chains
  Sector <- Sectors
  Block <- Blocks
  Bytes = 512
  SDHC = {TRUE, FALSE}
  NandSpeed = 1
  CardSpeeds = {0, 2}
  Flags = {"play", "reset"}
  IniFiles <- SomeFiles
  Picks <- Picked
  FlagItem <- PatchItem
SPECIFICATION Spec
INVARIANTS ListSound StartedRight
PROPERTIES BackSelects Answered SettingsKept
