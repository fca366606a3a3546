\* Two updates, any of which may fail, be interrupted or be rolled back, and
\* three publications, of which two are genuine.
CONSTANTS
  MaxRequests = 2
  Spoils = TRUE
  Editions = {1, 2, 3}
  Genuine = {1, 3}
  MaxRetries = 1
SPECIFICATION ReleaseSpec
INVARIANTS
  SelectedBuildIsProven
  SnapshotIsComplete
  BuiltIsReleased
PROPERTIES
  TakenOnce
  RequestEnds
