SPECIFICATION Spec
CONSTANTS
  Refs = {main}
  Conns = {c1, c2}
  Apps = {app}
  Hashes = {t1, t2}
  Void = Void
  Headings <- Sequenced
  Registrations <- Unruly
  Named <- AnyNamed
  WithProvider = {TRUE, FALSE}
  Orderly = TRUE
  Budgets <- Holding
  MaxStates = 3
  MaxStores = 2
  Free = Free
  Unnamed = Unnamed
  NoAck = NoAck
  Garbage = Garbage
  t1 = t1
  t2 = t2
  main = main
  side = side
INVARIANTS
  RestingIsCurrent
  SyncedWasSaid
  OneAtATime
  SyncedMeansEmptyPush
  SomebodyReleases
  ProviderAlternates
PROPERTIES
  SequencesAdvance
SYMMETRY Symmetry
