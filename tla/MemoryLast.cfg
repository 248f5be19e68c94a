CONSTANTS
  Objs = {o1, o2}
  Refs = {w1, w2, w3}
  Nil = Nil
  Oldest = 0
  OnExit = {FALSE}
  Nested = FALSE
  Both = FALSE
  MaxRoots = 2
  MaxTasks = 0
  MaxInUse = 5
  MaxDepth = 2
CHECK_DEADLOCK FALSE
SPECIFICATION Spec
SYMMETRY Symmetry
INVARIANT LastInUse
