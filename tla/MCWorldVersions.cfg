SPECIFICATION Spec
CONSTANTS
  red = red
  green = green
  s1 = s1
  s2 = s2
  s3 = s3
  Values <- TwoValues
  Sources <- ThreeSources
  NoSource = NoSource
  NoItem = NoItem
  NoAnswer = NoAnswer
  NoPlan = NoPlan
SYMMETRY Alike
CHECK_DEADLOCK FALSE
INVARIANTS HistoryIsALine
PROPERTIES ProvenanceHolds OutdatedStaysMarked ForgettingIsExact
