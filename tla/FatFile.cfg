\* Clusters of two sectors of two bytes each; lengths from less than a sector
\* to more than a cluster.
CONSTANTS
  SectorBytes = 2
  SectorsPerCluster = 2
  MaxChain = 3
  MaxWrites = 2
  Lengths = {1, 3, 6}
  Sizes = {0, 3, 8}
  SeeksToEnd = FALSE
  SeeksPastEnd = FALSE
  OverwritesToBoundary = FALSE
  GoesOnWhenFull = FALSE
  ReadsWhileAppending = FALSE
SPECIFICATION FileSpec
INVARIANTS ChainFits
PROPERTIES ImplementsFile
