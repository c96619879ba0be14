SPECIFICATION Spec
CONSTANTS
  nvectors = 4
  MaxLoads = 2
INVARIANTS ReadsMapped NothingLeftBehind
PROPERTIES HandlersStay LoadsOnce
CHECK_DEADLOCK FALSE
