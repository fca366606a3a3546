\* One shop, of up to two generations of workers; the three loops of the
\* server; three callers of the heartbeats of two directories, whose
\* credentials are saved twice, with room for one attempt state; and a relay
\* with two signals, batches of one.
CONSTANTS
  Shops = {s1}
  MaxGen = 2
  Loops = {"relay", "source", "heartbeat"}
  Requested = {"relay", "source"}
  Scopes = {d1, d2}
  Room = 1
  Beaters = {c1, c2, c3}
  NoState = NoState
  MaxVersions = 2
  MaxFailures = 2
  Limit = 1
  RejectedLimit = 2
  IdleLimit = 2
  Refs = {r1, r2}
  None = None
  NoSignal = NoSignal
  Callers = {loop, workspace}
  Ops = {"upsert"}
  MaxRev = 1
  MaxTime = 2
  Retention = 2
  Ahead = 0
  MaxRows = 2
  MaxWatermarks = 2
  MaxOutbox = 2
  Batch = 1
  Legacy <- NewVault
SPECIFICATION RuntimeSpec
CHECK_DEADLOCK FALSE
INVARIANTS
  OneAttemptPerState
  OneTurnAhead
PROPERTIES
  RevokedReadsClose
  RequestedRunPulls
  OutboxDrains
