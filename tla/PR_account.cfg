CHECK_DEADLOCK FALSE
SPECIFICATION FairSpec
CONSTANTS
  None = None
  p1 = p1
  p2 = p2
  Procs = {p1, p2}
  Models = {"default", "other"}
  Default = "default"
  DashScope = TRUE
  FaultKinds = {"db", "rag", "crash"}
  MaxFaults = 1
  MaxChanges = 1
INVARIANTS
  RowIsTrue
  SetUpOnce
  PreferenceApplied
  DeletedUserForgotten
PROPERTIES
  KeyKept
  EventuallyReady
