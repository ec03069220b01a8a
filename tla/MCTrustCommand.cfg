SPECIFICATION TrustSpec
CONSTANTS
  CommandIds = {c1, c2}
  Items = {i1, i2}
  Callers = {h1, h2}
  Readers = {r1}
  MaxRevision = 2
  MaxContext = 1
  MaxRequests = 2
  Removed = Removed
  NoScope = NoScope
  NoReceipt = NoReceipt
  NoId = NoId
SYMMETRY Symmetry
INVARIANTS AnswersInLine CompleteMeansGone
PROPERTIES NothingUnseen
