SPECIFICATION Spec
CONSTANTS
  c0 = c0
  c1 = c1
  c2 = c2
  c3 = c3
  c4 = c4
  c5 = c5
  c6 = c6
  c7 = c7
  s1 = s1
  r1 = r1
  r2 = r2
  r3 = r3
  p1 = p1
  p2 = p2
  Cogs <- SomeCogs
  Rels = {r1, r2, r3}
  Ents = {p1, p2}
  Refers <- About
  Says <- Means
  Bond <- Meaning
  NoPrior = NoPrior
  NoObject = NoObject
  ToldIn <- Conversation
  Evs = {e1, e2}
  Texts = {x1, x2}
  NoText = NoText
  NoReceipt = NoReceipt
  Initial = {p1, r1, r2, c0, c1, c5}
  Over = {r2}
  MaxReviews = 2
  MaxPending = 2
  MaxNew = 2
SYMMETRY Alike
CHECK_DEADLOCK FALSE
INVARIANTS RecordStands WellFormed CompilerKeepsContract
PROPERTIES AcceptanceIsExact
