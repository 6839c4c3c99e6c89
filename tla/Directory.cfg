CONSTANTS
  Names <- AllNames
  DirFiles <- BothFiles
  NoName = NoName
  NoFile = NoFile
  Absent = Absent
  Unsaved = Unsaved
  Size <- Sizes
  SlotsPerCluster = 3
  MaxClusters = 2
  Directories <- SomeLayouts
  short = short
  long = long
  longer = longer
  f1 = f1
  f2 = f2
SPECIFICATION DirectorySpec
CONSTRAINT NotAstray
INVARIANTS DirectorySound
PROPERTIES ImplementsNames
