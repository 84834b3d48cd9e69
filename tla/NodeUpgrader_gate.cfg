SPECIFICATION Spec
CONSTANTS
  Roles = {"worker"}
  MaxDeaths = 3
INVARIANTS GateRemovable
CHECK_DEADLOCK FALSE
