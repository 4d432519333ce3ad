SPECIFICATION Spec
CONSTANTS
  EntryNames = {"a", "a."}
  Blobs = {x, y}
  Objects <- TheObjects
  Height <- TheHeights
  Place <- TheOrder
  Nothing = Nothing
  Roots <- TheRoots
  MaxBuilds = 2
  MaxRewrites = 1
  ReadSizes = {2, 4}
  ChunkSize = 3
  x = x
  y = y
INVARIANTS
  StoreIsClosed
  NeverShort
  UnmovedIsPruned
  CompareIsComplete
  ClientIsWhole
  PacksArrive
  CutIsNoticed
PROPERTIES
  RewriteIsLocal
SYMMETRY Symmetry
