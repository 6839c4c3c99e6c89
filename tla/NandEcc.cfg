CONSTANTS
  NumBlocks = 4
  NumLogical = 2
  NumSubPages = 2
  Retries = 2
  MaxFlips = 3
  MaxCount = 2
  Data = {d1}
  Blank = Blank
  Corrupt = Corrupt
  Stale = Stale
  None = None
SPECIFICATION Spec
INVARIANTS ReadsToTheError DataKept TableMatchesFlash
