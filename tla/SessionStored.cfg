\* A credential cannot be stored.
CONSTANTS
  Requests = {a}
  Reuse = 1
  Patience = 2
  Life = 6
  Skew = 1
  MaxPair = 2
  MaxTime = 8
SPECIFICATION SessionSpec
CHECK_DEADLOCK FALSE
INVARIANTS
  BrowserHasReplacement
