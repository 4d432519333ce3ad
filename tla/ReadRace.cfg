SPECIFICATION SysSpec
CONSTANTS
  Refs = {main}
  Conns = {c1}
  Apps = {app}
  Hashes = {t1, t2, t3}
  Parts = {p1, p2}
  Void = Void
  Reach <- Shared
  Sweeping = TRUE
  History = 1
  Headings <- Three
  Registrations <- AnyTree
  Named <- AnyNamed
  WithProvider = {TRUE}
  Orderly = TRUE
  Budgets <- Moving
  MaxStates = 1
  MaxStores = 1
  Free = Free
  Unnamed = Unnamed
  NoAck = NoAck
  Garbage = Garbage
  t1 = t1
  t2 = t2
  t3 = t3
  p1 = p1
  p2 = p2
  main = main
  side = side
INVARIANTS
  PairStays
