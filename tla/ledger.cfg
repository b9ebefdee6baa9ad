SPECIFICATION Spec
CONSTANTS
  j1 = j1
  j2 = j2
  j3 = j3
  n1 = n1
  n2 = n2
  Jobs = {j1, j2, j3}
  Nodes = {n1, n2}
  NodeOf <- TheNode
  ParentOf <- TheParent
  EdgeOf <- TheEdge
  StatusOf <- TheStatus
  Controls = {1, 2}
  MaxFaults = 1
  None = None
INVARIANTS
  TypeOK
  EventsNumbered
  MirrorTellsNoMore
  StoresAgree
  MigrationHeals
  RollupChargesOnce
PROPERTIES
  EndedStaysEnded
