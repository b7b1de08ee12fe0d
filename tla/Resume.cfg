SPECIFICATION Spec
CONSTANTS
  a = a
  b = b
  x = x
  y = y
  Urls = {a}
  Server <- Ranged3
  Contents = {x}
  Connections = {2}
  MaxRead = 2
  Offsets = {0, 1, 2, 3}
  OldLength = 4
  Faults = {"cancel", "crash"}
  Zero = Zero
  EOF = EOF
  Old = Old
  NoFile = NoFile
  Torn = Torn
  NoState = NoState
INVARIANTS
  ResumeInv
  ProgressInv
  ClaimsAreWritten
  CompletedFileIsRemote
  ChunksWriteApart
PROPERTY
  TransfersFile
