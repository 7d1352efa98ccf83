SPECIFICATION Spec
CONSTANTS
  None = None
  p1 = p1
  p2 = p2
  a1 = a1
  a2 = a2
  Procs = {p1, p2}
  Alone = TRUE
  MaxMemos = 3
  Attachments = {a1}
  ListLimit = 1
  FaultKinds = {"db", "crash"}
  MaxFaults = 1
SYMMETRY Symmetric
INVARIANTS
  LinksAlive
  CommentsGo
