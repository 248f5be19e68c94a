SPECIFICATION FairSpec
CONSTANTS
  Tasks = {t1, t2}
  NoTask = NoTask
  Helpers = {h1, h2}
  Master = master
  NoThread = NoThread
  SpinEmpty = 1
  MaxToggles = 2
  MasterOnly = TRUE
VIEW QueueView
INVARIANTS
  TypeOK
  TaskInOnePlace
  TakenExclusively
  SuspendHandshake
  MasterNeverSurprised
PROPERTIES
  HelpersFinishAlone
  EveryCallReturns
