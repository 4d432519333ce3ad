SPECIFICATION Spec
CONSTANTS
  EntryNames <- TheNames
  Blobs = {x, y}
  Objects <- TheObjects
  Height <- TheHeights
  Place <- TheOrder
  Nothing = Nothing
  Nil = Nil
  Indices <- TheIndices
  Here = Here
  Places <- ThePlaces
  Kind <- TheKinds
  Made <- TheTrees
  MemberIds = {m1, m2}
  Down = Down
  Starts <- TheStarts
  Edits <- TheEdits
  MaxEntries = 2
  MaxBatch = 2
  Tidy = FALSE
  Careful = TRUE
  x = x
  y = y
  k = k
  l = l
  i0 = i0
  i1 = i1
  m1 = m1
  m2 = m2
INVARIANTS
  HeadsAgree
