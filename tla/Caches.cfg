CONSTANTS
  Envs = {e1, e2}
  R_GlobalEnv = R_GlobalEnv
  R_BaseEnv = R_BaseEnv
  R_EmptyEnv = R_EmptyEnv
  None = None
  x = x
  y = y
  Syms = {x, y}
  SYMBITS <- MCSymbits
  Assigned = {x}
  FORMALS <- MCFormals
  MaxAttached = 1
  MaxSearches = 1
  Redefines = FALSE
SPECIFICATION Spec
VIEW View
SYMMETRY Symmetry
INVARIANTS TypeOK OneBinding FoundFrom
PROPERTIES PassesOnlyUnbound
