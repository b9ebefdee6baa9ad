SPECIFICATION Spec
CONSTANTS
  exec = exec
  review = review
  sol = sol
  astra = astra
  Jobs = {j1, j2}
  Roles = {exec}
  Operators = {o1}
  Models = {sol, astra}
  Commands <- PlainCommand
  MaxRetries = 1
  Deaths = FALSE
  None = None
INVARIANTS
  OneInFlight
