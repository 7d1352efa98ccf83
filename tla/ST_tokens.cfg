SPECIFICATION Spec
CONSTANTS
  None = None
  p1 = p1
  p2 = p2
  Procs = {p1, p2}
  MaxTokens = 2
  FaultKinds = {"db", "crash"}
  MaxFaults = 1
SYMMETRY Symmetric
INVARIANTS
  CacheCoherent
  SessionLives
