SPECIFICATION SectorSpec
CONSTANTS
  Reads = 3
  ChainDepth = 2
PROPERTIES
  LateCompletionDoesNotApply
