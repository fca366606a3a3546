\* One update: is there a server afterwards?
CONSTANTS
  MaxRequests = 1
  Spoils = FALSE
SPECIFICATION LauncherSpec
INVARIANTS
  WaitsWithServer
