SPECIFICATION Spec
CONSTANTS
  Tasks = {t1, t2}
  NoTask = NoTask
  Helpers = {h1}
  Master = master
  NoThread = NoThread
  SpinEmpty = 1
  MaxToggles = 3
  MasterOnly = FALSE
VIEW QueueView
INVARIANTS
  FindExclusive
