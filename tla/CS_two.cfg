SPECIFICATION Spec
CONSTANTS
  None = None
  m1 = m1
  m2 = m2
  f1 = f1
  f2 = f2
  a1 = a1
  a2 = a2
  t1 = t1
  t2 = t2
  d1 = d1
  d2 = d2
  Contents = {m1, f1}
  Files = {f1}
  Parseable = {m1, f1}
  Parent <- UnderM1
  Homeless = {}
  Texts = {t1}
  Visibilities = {"PRIVATE"}
  Datasets = {d1}
  Actors = {a1, a2}
  BatchSize = 2
  MaxRetries = 2
  ListLimit = 1
  UserOps = {"create", "delete", "detach", "redelete"}
  FaultKinds = {}
  MaxFaults = 0
  MaxEdits = 1
  BotMayDelete = TRUE
SYMMETRY Symmetric
INVARIANTS
  RowDocOwn
  NoPanic
