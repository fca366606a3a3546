\* Two handlers race over copies of three messages; three writes under two
\* keys of which one has room, repeated for as long as a state is kept; a
\* catalogue of three products, pages of two; and two live reads.
CONSTANTS
  Messages = {m1, m2, m3}
  Handlers = {h1, h2}
  Window = 1
  Body = 1
  Keep = 3
  RateSpan = 1
  Rate = 2
  MaxTime = 6
  Writes = {w1, w2, w3}
  Keys = {k1, k2}
  None = None
  KeepState = 2
  Patience = 2
  Capacity = 1
  Products = {1, 2, 3}
  PageSize = 2
  MaxProducts = 2
  CursorLife = 2
  RecordLife = 2
  MaxChanges = 4
  MaxClock = 3
  NoCall = NoCall
  Secrets = {s1, s2}
  Accounts = {a1, a2}
  MaxAge = 1
  Wait = 1
  MaxNonce = 2
SPECIFICATION CallsSpec
SYMMETRY Symmetric
CHECK_DEADLOCK FALSE
INVARIANTS
  ExecutedOnce
  ChainIsOneCatalog
  ServedIsCurrent
PROPERTIES
  WritesOnce
