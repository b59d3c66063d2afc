SPECIFICATION MemorySpec
CONSTANTS
  Person = {ann, bob}
  Evaluator = {e1, e2}
  Validator = {v1, v2}
  Generator = {g1, g2}
  Subject = {1, 2}
  MaxTime = 1
  Ttl = 1
  MaxReviews = 2
  MaxRows = 2
  MaxTrajectory = 2
  None = None
INVARIANTS OneChainPerTrajectory
PROPERTIES PublishesOnEvidence
CONSTRAINTS FewRows FewCalls FewSetbacks
SYMMETRY Symmetric
CHECK_DEADLOCK FALSE
