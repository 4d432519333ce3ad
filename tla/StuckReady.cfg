SPECIFICATION FairSpec
CONSTANTS
  Refs = {main}
  Conns = {c1}
  Apps = {app, other}
  Hashes = {t1, t2}
  Void = Void
  Headings <- Mixed
  Registrations <- Fresh
  Named <- AnyNamed
  WithProvider = {FALSE}
  Orderly = FALSE
  Budgets <- Racing
  MaxStates = 1
  MaxStores = 1
  Free = Free
  Unnamed = Unnamed
  NoAck = NoAck
  Garbage = Garbage
  t1 = t1
  t2 = t2
  main = main
  side = side

PROPERTIES
  EventuallyAnswered

CHECK_DEADLOCK FALSE
