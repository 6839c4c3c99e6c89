CONSTANTS
  old = old
  new = new
  high = high
  Cards <- TwoCards
  NoCard = NoCard
  Kind <- Kinds
  Capacity <- Sizes
  BlockSize = 2
  AddressSpace = 16
  MaxRetry = 2
  MaxBlocks = 2
  zero = zero
  one = one
  Data <- Bits
  Blank = zero
  Formatted <- Stripes
  h1 = h1
  h2 = h2
  h3 = h3
  Handles <- TwoObjects
  MaximumPartitions = 3
  NoHandle = NoHandle
  f1 = f1
  f2 = f2
  Files <- OneFile
  Nand = nand
  Medium <- Media
  WordSize = 1024
  Fat12Clusters = 2
  Fat16Clusters = 6
  MaxRequests = 1
  StealsDefault = FALSE
  Exchanges = FALSE
SPECIFICATION Spec
INVARIANTS MountsConsistent BlocksRight
PROPERTIES OnlyRequested DriverReturns
