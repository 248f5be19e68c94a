SPECIFICATION FairSpec
CONSTANTS
  Tasks = {t1, t2, t3}
  None = None
  a = a
  b = b
  c = c
  Vars = {a, b, c}
  Null = Null
  NumHelpers = 1
  Overwrites = FALSE
  Kinds <- WaitKinds
PROPERTIES
  EveryCallReturns
