CONSTANTS
  c1 = c1
  c2 = c2
  e1 = e1
  e2 = e2
  e3 = e3
  v1 = v1
  v2 = v2
  d1 = d1
  Calls = {c1, c2}
  Idempotent = {c1}
  Executors = {e1, e2, e3}
  Results = {v1, v2}
  Denials = {d1}
  NoResult = NoResult
  NoCall = NoCall
  MaxInvocations = 1
SPECIFICATION Spec
SYMMETRY Symmetry
INVARIANTS
  TypeOK
  NonIdempotentActsOnce
  AnswersAgree
  RecordedIsGenuine
CHECK_DEADLOCK FALSE
