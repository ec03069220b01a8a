SPECIFICATION Spec
CONSTANTS
  owner = owner
  p1 = p1
  p2 = p2
  p3 = p3
  p4 = p4
  o1 = o1
  o2 = o2
  o3 = o3
  m1 = m1
  m2 = m2
  m3 = m3
  h1 = h1
  h2 = h2
  Ents = {owner, p1, p2, p3, p4}
  Owner = owner
  Kind <- MCKind
  Called <- MCCalled
  Names = {"me", "Ann", "Bea", "mom", "dad", "none"}
  Aliases = {"mom"}
  Objs = {o1, o2, o3}
  Occasions = {o1}
  Role <- MCRole
  Tells <- MCTells
  Lasts <- MCLasts
  Mutual = {}
  KinNames <- MCKinNames
  Told <- MCTold
  Words <- MCWords
  Places = {"source", "target"}
  Mentions = {m1, m2, m3}
  When <- MCWhen
  Near <- MCNear
  Asked = {m3}
  Hosts = {h1, h2}
  Nobody = Nobody
  NoContext = NoContext
  Born = {owner, p1, p2}
  Named <- MCNamed
  Brought <- MCBrought
  MaxReviews = 2
  MaxPending = 1
  MaxSupport = 1
  MaxTime = 3
  Dates = {2}
  MaxLag = 1
  MaxWorld = 1
SYMMETRY Alike
CHECK_DEADLOCK FALSE
INVARIANTS EveryRowLoads ContextsMean
PROPERTIES LedgerGrows
