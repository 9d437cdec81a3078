SPECIFICATION FairSpec
CONSTANTS
  Node = {n}
  Other = Other
  URL = {a, b}
  NoImage = NoImage
  ChangesInLookups = FALSE
  MaxFailures = 1
  MaxOthers = 1
  Shares = {TRUE, FALSE}
  MaxEvents <- Events
  MaxLoading <- LoadsBefore
INVARIANTS ImageMatchesURL NoImageOutOfPreload
PROPERTIES SettledIsLoaded EveryDownloadAnswers
CHECK_DEADLOCK FALSE
