SPECIFICATION FairSpec
CONSTANTS
  None = None
  m1 = m1
  m2 = m2
  f1 = f1
  f2 = f2
  a1 = a1
  a2 = a2
  t1 = t1
  t2 = t2
  d1 = d1
  d2 = d2
  Contents = {m1, f1}
  Files = {f1}
  Parseable = {m1, f1}
  Parent <- UnderM1
  Homeless = {}
  Texts = {t1, t2}
  Visibilities = {"PRIVATE", "PUBLIC"}
  Datasets = {d1}
  Actors = {a1}
  BatchSize = 2
  MaxRetries = 2
  ListLimit = 1
  UserOps = {"create", "edit", "vis", "delete", "updateSilently", "deleteSilently"}
  FaultKinds = {}
  MaxFaults = 0
  MaxEdits = 2
  BotMayDelete = TRUE
INVARIANTS
  OneDocument
  NoOrphan
  SkipSound
PROPERTIES
  EditsReachIndex
  NamedDeletesReachIndex
  VisibilityReachesIndex
  ImplementsMirror
