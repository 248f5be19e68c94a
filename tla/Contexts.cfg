CONSTANTS
  MaxDepth = 6
  MaxExits = 2
  MaxEntries = 2
  ErrorOption = TRUE
SPECIFICATION Spec
INVARIANTS TypeOK HandlersAlive NotReentered InErrorRestored
PROPERTIES ExitOnce ExitsStarted
