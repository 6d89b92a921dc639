CONSTANTS
  None = None
  Other = Other
  Natives = {n1}
  Sids = {s1}
  Ids = {i1}
  Capacities = {2}
  MaxFacts = 4
  MaxSuspended = 1
  MaxRestarts = 0

CHECK_DEADLOCK FALSE
SPECIFICATION Spec

PROPERTY
  TerminatedStaysStopped
