SPECIFICATION Spec
CONSTANTS
  Tasks = {t1, t2}
  None = None
  a = a
  b = b
  c = c
  Vars = {a, b, c}
  Null = Null
  NumHelpers = 1
  Overwrites = TRUE
  Kinds <- HoldKinds
INVARIANTS
  HeldHaveHoldFlag
