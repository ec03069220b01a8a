SPECIFICATION ObservedSpec
CONSTANTS
  MaxTime = 4
  Payloads = {x1, x2}
  Flags = {local, cloud}
  NoPayload = NoPayload
  NoEvidence = NoEvidence
SYMMETRY Symmetry
INVARIANTS OnlyTheCurrentVersion OwnersWordStands
PROPERTIES OlderNeverWidens
