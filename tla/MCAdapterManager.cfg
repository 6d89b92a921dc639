\* One agent, two session ids, one interaction, a queue of one or three.
CONSTANTS
  None = None
  Other = Other
  Natives = {n1}
  Sids = {s1, s2}
  Ids = {i1}
  Capacities = {1, 3}
  MaxFacts = 4
  MaxSuspended = 2
  MaxRestarts = 1

SYMMETRY Symmetry
CHECK_DEADLOCK FALSE
SPECIFICATION Spec

INVARIANTS
  TypeOK
  OneSessionPerNative
  CatalogueIsFoldOfLog
  LogIsHistory
  ParkedForAReason

PROPERTY
  DiscoveryNeverUnparks
