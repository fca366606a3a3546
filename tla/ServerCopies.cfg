\* Three deliveries compete for one place each, over a month of two days; and
\* passes of three accounts in pages of two, by two workers over two days;
\* two runs of setup at once and two directories.
CONSTANTS
  N = 3
  Copies = {a, b}
  NoCopy = NoCopy
  Day = 1
  Month = 2
  MaxUnsent = 2
  MaxSent = 1
  MaxConverted = 1
  MaxTime = 3
  Total = 3
  Page = 2
  Bindings = {b1, b2}
  NoBinding = NoBinding
  Workers = {w1, w2}
  Idle = Idle
  Lease = 1
  Pause = 0
  RetryDelay = 0
  Interval = 1
  Retention = 2
  MaxClaims = 4
  MaxClock = 2
  Setups = {c1, c2}
  Places = {p1, p2}
  MaxSecrets = 2
  Down = Down
  Torn = Torn
SPECIFICATION CopiesSpec
SYMMETRY Symmetric
CHECK_DEADLOCK FALSE
INVARIANTS
  ShowsWhatWasSent
  ReportIsWhole
  SealedStaysReadable
PROPERTIES
  CopiesAreKept
