CONSTANTS
  NumBlocks = 4
  NumLogical = 2
  NumSubPages = 2
  SubPerPage = 2
  BootBlocks = 0
  MaxCount = 3
  d1 = d1
  d2 = d2
  Blank = Blank
  Corrupt = Corrupt
  None = None
  Special <- BootOnly
  Data <- TwoValues
SPECIFICATION FairSpec
INVARIANTS FreeBlocksKnown RebuildAgrees CompleteCopyKept
PROPERTIES SpecialUntouched ImplementsDisc CallsReturn
