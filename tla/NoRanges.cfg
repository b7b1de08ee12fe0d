SPECIFICATION FairSpec
CONSTANTS
  a = a
  b = b
  x = x
  y = y
  Urls = {a}
  Server <- LengthOnly
  Contents = {x}
  Connections = {2}
  MaxRead = 2
  Offsets = {0, 1}
  OldLength = 0
  Faults = {}
  Zero = Zero
  EOF = EOF
  Old = Old
  NoFile = NoFile
  Torn = Torn
  NoState = NoState
PROPERTY
  DownloadSucceeds
