CHECK_DEADLOCK FALSE
SPECIFICATION FairSpec
CONSTANTS
  None = None
  p1 = p1
  p2 = p2
  m1 = m1
  m2 = m2
  Procs = {p1, p2}
  Memos = {m1}
  MaxNotebooks = 2
  FaultKinds = {"db", "rag", "crash"}
  MaxFaults = 1
INVARIANTS
  NoStrayDataset
PROPERTIES
  DefaultKept
  HomeKept
  
  EveryMemoPlaced
