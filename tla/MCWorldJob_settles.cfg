SPECIFICATION FairSpec
CONSTANTS
  Jobs = {j1}
  Workers = {w1,w2}
  NoWorker = NoWorker
  Mortal = {w1}
  MaxAttempts = 2
  RetryInference = TRUE
  Local = {w1}
  Punctual = TRUE
  MaxGeneration = 5
  MaxFaults = 1
CHECK_DEADLOCK FALSE
PROPERTIES EveryJobSettles ImplementsFormation
