SPECIFICATION FairSpec
CONSTANTS
  CharacterCount = 2
  Words <- MCWords
  NoRequest = NoRequest
  Buffers = {b0, b1}
  NoBuffer = NoBuffer
  WordModulus = 1
INVARIANTS
  StartBelongsToRequest
PROPERTIES
  RequestConsumedWhole
  DriverProgresses
  WarpLands
