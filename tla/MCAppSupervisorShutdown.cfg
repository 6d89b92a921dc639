CONSTANTS
  None = None
  Callers = {c1, c2}
  Tasks = {t1, t2}
  Procs = {p1, p2}
  MaxCrash = 2

CHECK_DEADLOCK FALSE
SPECIFICATION Spec

INVARIANT
  ChildrenDieFirst
