SPECIFICATION FairSpec
CONSTANTS
  a = a
  b = b
  x = x
  y = y
  Urls = {a}
  Server <- Ranged2
  Contents = {x}
  Connections = {1, 2}
  MaxRead = 1
  Offsets = {0, 1}
  OldLength = 0
  Faults = {"cancel"}
  Zero = Zero
  EOF = EOF
  Old = Old
  NoFile = NoFile
  Torn = Torn
  NoState = NoState
INVARIANT
  FailureSavesProgress
PROPERTIES
  DownloadEnds
  DownloadSucceeds
