CONSTANTS
  NumBlocks = 4
  NumLogical = 2
  NumSubPages = 2
  SubPerPage = 2
  BootBlocks = 1
  MaxCount = 1
  MaxLosses = 2
  d1 = d1
  d2 = d2
  Blank = Blank
  Corrupt = Corrupt
  None = None
  Special <- BootOnly
  Data <- OneValue
SPECIFICATION LossSpec
INVARIANTS TableSound
PROPERTIES LossContained
