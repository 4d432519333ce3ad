SPECIFICATION Spec
CONSTANTS
  Refs = {main}
  Conns = {c1}
  Apps = {app}
  Hashes = {t1, t2}
  Void = Void
  Headings <- Sequenced
  Registrations <- Fresh
  Named <- AnyNamed
  WithProvider = {FALSE}
  Orderly = FALSE
  Budgets <- Racing
  MaxStates = 1
  MaxStores = 1
  Free = Free
  Unnamed = Unnamed
  NoAck = NoAck
  Garbage = Garbage
  t1 = t1
  t2 = t2
  main = main
  side = side
INVARIANTS
  RestingIsCurrent


