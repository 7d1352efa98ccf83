CHECK_DEADLOCK FALSE
SPECIFICATION FairSpec
CONSTANTS
  p1 = p1
  p2 = p2
  Procs = {p1, p2}
  MaxConversations = 1
  MaxTurns = 2
  MaxHistory = 2
  MaxChunks = 1
  ChannelCap = 1
  FaultKinds = {"db", "rag", "chunk", "cancel", "crash"}
  MaxFaults = 1
INVARIANTS
  TurnsAlternate
  ContextWhole
  DeletedWithMessages
PROPERTIES
  EveryTurnAnswered
