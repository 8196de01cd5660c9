SPECIFICATION Spec
CONSTANTS
  RamSize = 6
  ByteModulus = 8
  LengthUnit = 2
  RamImages <- MCRamImages
  Calls <- MCCalls
INVARIANTS
  ReportIsSound
  OrderlyCallIsConsistent
