SPECIFICATION MCSpec
CONSTANTS
  NumUrls = 2
  MaxVersion = 2
  MaxProcesses = 2
  BatchUrls = {"a", "b", "c"}
  Name <- MCName
  BatchPaths = {"f", "g", "h"}
  BatchLines <- MCLines
  MaxItems = 3
  FtpSize = 2
  TotalSize = 2
  TuiSize = 2
INVARIANTS
  TypesOK
  VerifiedMeansRight
  UpToDateIsCurrent
  OutcomeIsTold
  BatchIsTrue
  FtpLeavesFile
  TuiTellsTruth
PROPERTIES
  TorrentEndsTruly
  TuiEnds
CHECK_DEADLOCK FALSE
