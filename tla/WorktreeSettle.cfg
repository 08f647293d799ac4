SPECIFICATION Spec
CONSTANTS
  Procs = {p1, p2}
  Trees = {t1, t2}
  Files = {1, 2}
  Base = Base
  UserBytes = {u1}
  None = None
  MaxWorktrees = 2
  MaxPlans = 2
  MaxEvents = 6
SYMMETRY Symmetry
CHECK_DEADLOCK FALSE
INVARIANT TypeOK
INVARIANT ParentAccounted
INVARIANT GroupFinal
PROPERTY ReviewedOverwrites
