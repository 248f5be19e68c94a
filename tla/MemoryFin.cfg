CONSTANTS
  Objs = {o1, o2}
  Refs = {w1, w2, w3}
  Nil = Nil
  Oldest = 1
  OnExit = {TRUE}
  Nested = FALSE
  Both = FALSE
  MaxRoots = 2
  MaxTasks = 1
  MaxInUse = 5
  MaxDepth = 2
CHECK_DEADLOCK FALSE
SPECIFICATION Spec
SYMMETRY Symmetry
INVARIANTS TypeOK NoDangling StaysRegistered
PROPERTIES ReadyExact  ReadyAreRun
