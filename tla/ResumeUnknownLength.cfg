SPECIFICATION Spec
CONSTANTS
  a = a
  b = b
  x = x
  y = y
  Urls = {a}
  Server <- NoLength
  Contents = {x}
  Connections = {1}
  MaxRead = 1
  Offsets = {0, 1, 2}
  OldLength = 0
  Faults = {"cancel"}
  Zero = Zero
  EOF = EOF
  Old = Old
  NoFile = NoFile
  Torn = Torn
  NoState = NoState
INVARIANT
  CompletedFileIsRemote
