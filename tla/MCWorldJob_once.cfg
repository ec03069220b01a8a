SPECIFICATION Spec
CONSTANTS
  Jobs = {j1}
  Workers = {w1,w2}
  NoWorker = NoWorker
  Mortal = {w1,w2}
  MaxAttempts = 2
  RetryInference = FALSE
  Local = {}
  Punctual = FALSE
  MaxGeneration = 3
  MaxFaults = 1
CHECK_DEADLOCK FALSE
SYMMETRY Symmetry
INVARIANTS EffectsAreOnce SettlementIsLegal ErasedLeavesNothing
PROPERTIES ClaimsHold NothingFromWithdrawnEvidence
