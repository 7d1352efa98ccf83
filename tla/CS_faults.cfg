SPECIFICATION FairSpec
CONSTANTS
  None = None
  m1 = m1
  m2 = m2
  f1 = f1
  f2 = f2
  a1 = a1
  a2 = a2
  t1 = t1
  t2 = t2
  d1 = d1
  d2 = d2
  Contents = {m1, m2, f1, f2}
  Files = {f1, f2}
  Parseable = {m1, m2, f1}
  Parent <- UnderM1
  Homeless = {m2}
  Texts = {t1}
  Visibilities = {"PRIVATE"}
  Datasets = {d1}
  Actors = {a1}
  BatchSize = 4
  MaxRetries = 2
  ListLimit = 1
  UserOps = {"createSilently"}
  FaultKinds = {"db", "rag", "gate", "crash"}
  MaxFaults = 2
  MaxEdits = 1
  BotMayDelete = TRUE
PROPERTIES
  EventuallyIndexed
