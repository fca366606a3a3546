\* Two callers, two references of two revisions, batches of one signal: the
\* second signal has to wait behind the first.
CONSTANTS
  Refs = {r1, r2}
  None = None
  NoSignal = NoSignal
  Callers = {loop, workspace}
  Ops = {"upsert", "delete"}
  MaxRev = 2
  MaxTime = 2
  Retention = 2
  Ahead = 0
  MaxRows = 2
  MaxWatermarks = 2
  MaxOutbox = 2
  Batch = 1
  Legacy <- NewVault
SPECIFICATION RelaySpec
SYMMETRY Symmetric
CHECK_DEADLOCK FALSE
INVARIANTS
  OneRunAtATime
PROPERTIES
  InvitedReadIsServed
  NeverResurrected
  DeliversSignals
