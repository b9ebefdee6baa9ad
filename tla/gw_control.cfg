SPECIFICATION Spec
CONSTANTS
  Nodes = {n1, n2}
  r1 = r1
  r2 = r2
  m1 = m1
  m2 = m2
  h1 = h1
  h2 = h2
  Runs = {r1}
  Messages = {m1, m2}
  Hashes = {h1, h2}
  Limits = {1}
  Elapsed = {1}
  None = None
  Requests <- ReservingCalls
  Faults = {"control", "kill"}
SYMMETRY NodeSymmetry
INVARIANTS
  TypeOK
  AllowOnRecord
  OneCallPerMessage
  OneCallAtATime
