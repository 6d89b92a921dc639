CONSTANTS
  None = None
  Machines = {m1}
  BatchLimit = 2
  Capacity = 2
  MaxLog = 3
  MaxForeign = 0
  MaxFaults = 0

CHECK_DEADLOCK FALSE
SPECIFICATION Spec

INVARIANT
  TheirStateOnly
