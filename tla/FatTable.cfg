CONSTANTS
  Files <- ThreeFiles
  LastCluster = 5
  MaxHeld = 4
  Foreign <- NoneTaken
  Layouts <- Mixed
  f1 = f1
  f2 = f2
  f3 = f3
SPECIFICATION Spec
INVARIANTS TableMatches
PROPERTIES ImplementsPool
