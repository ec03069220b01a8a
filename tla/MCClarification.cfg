SPECIFICATION FairClarificationSpec
CONSTANTS
  Boundaries = {b1}
  MaxChain = 2
  Calls = {c1, c2}
  Texts = {t1, t2}
  NoText = NoText
  NoJob = NoJob
  MaxReplays = 1
CHECK_DEADLOCK FALSE
INVARIANTS ChainIsCoherent KeptUntilErased ReceiptIsTrue
PROPERTIES EveryAnswerResolves
