SPECIFICATION Spec
CONSTANTS
  None = None
  m1 = m1
  m2 = m2
  f1 = f1
  f2 = f2
  a1 = a1
  a2 = a2
  t1 = t1
  t2 = t2
  d1 = d1
  d2 = d2
  Contents = {m1}
  Files = {}
  Parseable = {m1}
  Parent <- Alone
  Homeless = {}
  Texts = {t1, t2}
  Visibilities = {"PRIVATE"}
  Datasets = {d1, d2}
  Actors = {a1, a2}
  BatchSize = 2
  MaxRetries = 2
  ListLimit = 1
  UserOps = {"create", "edit", "move", "delete"}
  FaultKinds = {"db", "rag", "gate", "crash"}
  MaxFaults = 1
  MaxEdits = 1
  BotMayDelete = TRUE
SYMMETRY Symmetric
INVARIANTS
  SyncedHasDoc
  RetriesBounded
  HashWasUploaded
