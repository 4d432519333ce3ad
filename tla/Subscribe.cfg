SPECIFICATION FairSpec
CONSTANTS
  Refs = {main}
  Conns = {c1, c2}
  Apps = {app}
  Hashes = {t1, t2}
  Void = Void
  Headings <- Single
  Registrations <- Resuming
  Named <- AnyNamed
  WithProvider = {TRUE}
  Orderly = FALSE
  Budgets <- Stopping
  MaxStates = 2
  MaxStores = 1
  Free = Free
  Unnamed = Unnamed
  NoAck = NoAck
  Garbage = Garbage
  t1 = t1
  t2 = t2
  main = main
  side = side
INVARIANTS
  PushesSelect
PROPERTIES
  EventuallyReleased
  StopDropsAll
