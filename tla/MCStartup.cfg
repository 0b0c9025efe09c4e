SPECIFICATION Spec
CONSTANTS
  Urls <- MCUrls
  Maxs <- MCMaxs
  JobTypes = {"", "JT_ROOM", "text"}
  MaxWire = 2
INVARIANTS
  TypeOK
  SafeLimit
  ServesWhenReady
  LoopGetsAll
PROPERTY
  StartupEnds
CHECK_DEADLOCK FALSE
