SPECIFICATION Spec
CONSTANTS
  None = None
  Dialects = {"sqlite", "mysql", "postgres"}
  Memos <- MCMemos
  Exprs <- MCExprs
  Callers <- MCCallers
  AsciiLower <- MCAsciiLower
  OtherLower <- MCOtherLower
CHECK_DEADLOCK FALSE
INVARIANTS
  ListsOnlyMatching
  MissingIsFalse
  ArgumentsFit
