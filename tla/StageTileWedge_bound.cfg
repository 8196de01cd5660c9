SPECIFICATION Spec
CONSTANTS
  Tiles = {3}
  Coordinates <- MCCoordinates
  Directions <- MCDirections
  StepScales = {1}
  StepDivisor = 2
INVARIANTS
  BoundCoversTheMarch
