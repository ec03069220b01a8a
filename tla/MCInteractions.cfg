SPECIFICATION Spec
CONSTANTS
  e1 = e1
  e2 = e2
  i1 = i1
  k1 = k1
  k2 = k2
  k3 = k3
  c1 = c1
  c2 = c2
  Evid = {e1, e2}
  OneClause = {e1}
  Items = {i1}
  Basis <- Sources
  Episodes = {k1, k2, k3}
  Said <- Heard
  Conv <- Where
  Replies <- Turns
  Repeats <- Quotes
  Offered <- Captures
  MaxDepth = 2
  MaxNodes = 3
  MaxCopies <- Stored
  MaxSends <- Sends
  MaxOthers = 1
CHECK_DEADLOCK FALSE
INVARIANTS ErasureHolds VisibleIffGrounded
PROPERTIES TurnsHold
