\* A slow call outlasts the reuse window.
CONSTANTS
  Requests = {a, b}
  Reuse = 1
  Patience = 2
  Life = 6
  Skew = 1
  MaxPair = 2
  MaxTime = 8
SPECIFICATION SessionSpec
CHECK_DEADLOCK FALSE
PROPERTIES
  SharedReplacement
