\* A node with a log of four events, at most one of them under another name,
\* pages of two, a recorder queue of two, two pairings and two faults.
CONSTANTS
  None = None
  Machines = {m1, m2}
  BatchLimit = 2
  Capacity = 2
  MaxLog = 4
  MaxForeign = 1
  MaxFaults = 2

CHECK_DEADLOCK FALSE
SPECIFICATION FairSpec

INVARIANTS
  TypeOK
  MirrorHasNoGaps

PROPERTIES
  FoldsInOrder
  MirrorConverges
