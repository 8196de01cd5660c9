SPECIFICATION ToolSpec
CONSTANTS
  Legs = {"4x3", "16x9"}
  Both <- MCBoth
  MaxLines = 2
  Words = 2
  Rows = 3
  First = 2
  LastField = 2
  Values = {0, 1}
INVARIANTS
  OneProductAtATime
  ReportsWhatItSaw
  CompletionProbeIsTruthful
  LoaderProbeIsTruthful
PROPERTY
  ProbesEnd
