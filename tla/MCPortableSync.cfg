SPECIFICATION Spec
CONSTANTS
  h1 = h1
  h2 = h2
  e1 = e1
  e2 = e2
  e3 = e3
  e4 = e4
  c1 = c1
  n1 = n1
  n2 = n2
  k1 = k1
  k2 = k2
  k3 = k3
  k4 = k4
  m1 = m1
  p1 = p1
  p2 = p2
  p3 = p3
  Host = {h1, h2}
  Importer = {h2}
  Evidence = {e1, e2, e3, e4}
  Item = {c1, n1, n2}
  Context = {k1, k2, k3, k4}
  NoRow = NoRow
  NoBundle = NoBundle
  NoOrigin = NoOrigin
  NoEvidence = NoEvidence
  OriginOf <- Message
  Corrects <- Correction
  Sources <- Basis
  Core = {c1}
  Entity = {n1, n2}
  Name <- Names
  TextOf <- Texts
  Mentions <- Uses
  Before <- Quotes
  Vows = {p1}
  Said <- Heard
  Age <- Order
  Start <- Held
  MaxTime = 2
  MaxVersion = 2
  MaxRevision = 3
  MaxBundles = 3
CHECK_DEADLOCK FALSE
INVARIANTS SourcesStand
PROPERTIES DeletionWins ImportsAreExact
