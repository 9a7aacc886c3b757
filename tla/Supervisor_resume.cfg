SPECIFICATION Spec
CONSTANTS
  Launchers = {l1}
  MaxLaunches = 2
  Envs <- DefaultEnvironment
  Missing <- NothingMissing
  Changing = {"stop"}
INVARIANT
  LaunchNeverRaises
CHECK_DEADLOCK FALSE
