CONSTANTS
  NumPages = 2
  MaxUses = 2
  Cached <- ThreeSectors
  Direct <- OtherSectors
  Offsets <- WholeSector
  DiscFails = TRUE
  Values <- Bits
  Zero = zero
  Free = Free
  None = None
  s1 = s1
  s2 = s2
  s3 = s3
  s4 = s4
  zero = zero
  one = one
SPECIFICATION Spec
INVARIANT NothingLost
PROPERTIES ImplementsWriteBack
