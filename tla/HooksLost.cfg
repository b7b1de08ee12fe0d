SPECIFICATION UrlSpec
CONSTANTS
  NumUrls = 2
  MaxVersion = 2
  MaxProcesses = 2
INVARIANT
  CompleteHookRuns
CHECK_DEADLOCK FALSE
