\* One update.
CONSTANTS
  MaxRequests = 1
  Spoils = FALSE
SPECIFICATION FairLauncherSpec
PROPERTIES
  WorkIsReported
