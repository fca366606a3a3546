\* Two requests for one release.
CONSTANTS
  MaxRequests = 2
  Spoils = FALSE
  MaxVersion = 1
SPECIFICATION PageSpec
CHECK_DEADLOCK FALSE
PROPERTIES
  OutcomeIsOfThisAttempt
