\* Two callers, as many tasks and processes as they can bring about at once,
\* and an app given up after two crashes.
CONSTANTS
  None = None
  Callers = {c1, c2}
  Tasks = {t1, t2}
  Procs = {p1, p2}
  MaxCrash = 2

CHECK_DEADLOCK FALSE
SPECIFICATION FairSpec

INVARIANTS
  TypeOK
  OneProcess
  StatusIsTrue

PROPERTIES
  CommandsReturn
  ComesUpOrFails
  CrashLoopEnds
