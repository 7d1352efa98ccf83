SPECIFICATION FairSpec
CONSTANTS
  None = None
  Releases = {3, 4, 5}
  Files = {22, 23, 42, 51, 53}
  Repeatable = {42, 51}
  MinVersion = 30
  MaxFaults = 5
INVARIANTS
  RecordedIsApplied
PROPERTIES
  ImplementsUpgrade
  ComesUp
