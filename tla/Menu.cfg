CONSTANTS
  NULL = NULL
  Points <- FourPoints
  Rect <- Surrounds
  Children <- FormChildren
  Items <- Spins
  Heads <- IconPoints
  OkButton <- OKs
  CancelButton <- Cancels
  Names <- TheGame
  Games <- TheGame
  Size <- OneChunk
  Trimmed <- OneChunk
  Parent <- OnCard
  Sorted <- Order
  Disks <- OneDisk
  Touched <- OneDisk
  SdCard = {TRUE}
  ReadsFail = TRUE
  WritesFail = TRUE
  CardPulled = TRUE
  Cartridge = TRUE
SPECIFICATION Spec
INVARIANTS WindowsSound CopyInterrupt MoveKeepsFile
PROPERTIES Responds
