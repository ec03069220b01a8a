SPECIFICATION FairOutcomeSpec
CONSTANTS
  Outcomes = {o1}
  Hosts = {h1, h2}
  MaxAttempts = 4
  Limit = 1
  MaxCrashes = 2
INVARIANTS RowIsLegal DeliveryIsTrue
PROPERTIES ClaimIsExclusive EveryOutcomeEnds
