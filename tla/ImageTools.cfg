SPECIFICATION MCSpec
CONSTANTS
  Size = 5
  WalkLimit = 3
  Texts <- MCTexts
  Records <- MCRecords
  Images <- MCImages
  Replacements <- MCReplacements
  Headers <- MCHeaders
  Words = 3
  MaxArgs = 2
  Functions = {f, g}
  NoFunction = none
INVARIANTS
  NamedUnlessMisled
  PassIsEarned
  PassHidesNoWait
  QueryAnswersInFull
