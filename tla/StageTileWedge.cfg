SPECIFICATION Spec
CONSTANTS
  Tiles = {0, 3}
  Coordinates <- MCCoordinates
  Directions <- MCDirections
  StepScales = {0, 1}
  StepDivisor = 2
INVARIANTS
  WalkCloses
  OnlyClampedMarchesAreCut
