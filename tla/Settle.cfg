SPECIFICATION SysSpec
CONSTANTS
  Refs = {main, side}
  Conns = {c1}
  Apps = {app}
  Hashes = {t1, t3}
  Parts = {p1, p2}
  Void = Void
  Reach <- Shared
  Sweeping = TRUE
  History = 1
  Headings <- Apart
  Registrations <- AnyTree
  Named <- AnyNamed
  WithProvider = {FALSE}
  Orderly = TRUE
  Budgets <- Settling
  MaxStates = 2
  MaxStores = 2
  Free = Free
  Unnamed = Unnamed
  NoAck = NoAck
  Garbage = Garbage
  t1 = t1
  t2 = t2
  t3 = t3
  p1 = p1
  p2 = p2
  main = main
  side = side
INVARIANTS
  TypeOK
  SysTypeOK
  PublishedIsServed
PROPERTIES
  EventuallyCurrent
  EventuallyHanded
  EventuallyDown
