SPECIFICATION Spec
CONSTANTS
  Tasks = {t1, t2, t3}
  None = None
  a = a
  b = b
  c = c
  Vars = {a, b, c}
  Null = Null
  NumHelpers = 2
  Overwrites = TRUE
  Kinds <- AllKinds
SYMMETRY Symmetry
INVARIANTS
  TypeOK
  StartedInOrder
  PipesCurrent
  MarksCover
  MarksEnd
  Queued
PROPERTIES
  TakeEffectInOrder
  Awaited
