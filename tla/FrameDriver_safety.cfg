SPECIFICATION Spec
CONSTANTS
  CharacterCount = 1
  Words <- MCFewWords
  NoRequest = NoRequest
  Buffers = {b0, b1}
  NoBuffer = NoBuffer
  WordModulus = 3
SYMMETRY BufferSymmetry
INVARIANTS
  TypeOK
  PendingAgrees
  HeldFrameOwnsItsTables
  FrameIdentity
  FieldServices
PROPERTIES
  WarpOnlyAtOpenBoundary
  ImplementsProtocol
