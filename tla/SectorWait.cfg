SPECIFICATION WaitFairSpec
CONSTANTS
  CharacterCount = 1
  Words <- MCWords
  NoRequest = NoRequest
  Buffers = {b0}
  NoBuffer = NoBuffer
  WordModulus = 1
  Reads = 3
  ChainDepth = 2
  NoWait = NoWait
INVARIANTS
  WaitTypeOK
  NoSectorLost
  SectorOnItsWay
  CallbackOnlyWhileOwed
PROPERTIES
  ImplementsHandshake
  WaitsEnd
