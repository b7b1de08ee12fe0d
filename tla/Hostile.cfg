SPECIFICATION Spec
CONSTANTS
  a = a
  b = b
  x = x
  y = y
  Urls = {a, b}
  Server <- LongAndShort
  Contents = {x, y}
  Connections = {1}
  MaxRead = 1
  Offsets = {0, 1, 2, 3}
  OldLength = 3
  Faults = {"crash", "cancel", "error", "replace", "delete", "short"}
  Zero = Zero
  EOF = EOF
  Old = Old
  NoFile = NoFile
  Torn = Torn
  NoState = NoState
INVARIANTS
  TypeOK
  CompletedFileHasLength
PROPERTY
  SavedProgressGrows
