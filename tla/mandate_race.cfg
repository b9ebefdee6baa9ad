SPECIFICATION FairSpec
CONSTANTS
  exec = exec
  review = review
  sol = sol
  astra = astra
  Jobs = {j1, j2}
  Operators = {o1}
  Models = {sol, astra}
  Roles = {exec}
  Commands <- RetriedOrBare
  MaxRetries = 1
  Deaths = FALSE
  None = None
PROPERTIES
  TerminalStays
  JobsEnd
