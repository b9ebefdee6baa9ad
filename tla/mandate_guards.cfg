SPECIFICATION Spec
CONSTANTS
  exec = exec
  review = review
  sol = sol
  astra = astra
  Jobs = {j1, j2}
  Roles = {exec, review}
  Operators = {o1}
  Models = {sol, astra}
  Commands <- EveryEngagement
  MaxRetries = 1
  Deaths = TRUE
  None = None
SYMMETRY Names
INVARIANTS
  TypeOK
  DuplicateOnRecord
  OutcomeOnRecord
  ResumesOwnThread
PROPERTIES
  ClosedForGood
