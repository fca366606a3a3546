\* Two pullers race over the lease of one vault, with pages of two references,
\* a connector that starts a second stream and payloads that expire.
CONSTANTS
  Refs = {r1, r2}
  None = None
  Ops = {"upsert"}
  Pullers = {p1, p2}
  MaxRev = 1
  MaxTime = 3
  Retention = 2
  Ahead = 0
  MaxRows = 2
  MaxWatermarks = 2
  MaxOutbox = 2
  Batch = 1
  Legacy <- MCLegacy
  Lease = 1
  Fresh = 1
  PageRecords = 2
  MaxClaims = 2
  MaxLog = 2
  MaxStream = 2
SPECIFICATION SyncSpec
SYMMETRY Symmetry
CHECK_DEADLOCK FALSE
INVARIANTS
  RowIsTheWatermark
  VaultMatchesCursor
  BoundedStaleness
PROPERTIES
  OpenReadsSeeSnapshots
  LastClaimWins
