SPECIFICATION Spec
CONSTANTS
  Tables = {0, 5}
  Plans <- MCPlans
  Primitives <- MCPrimitives
  Effects <- MCEffects
  Batch = 3
  Capacity = 2
  Room = 30
INVARIANTS
  TablesAreSound
  CountsAreOfPackets
  OnlyTheHiddenIsDropped
