SPECIFICATION Spec
CONSTANTS
  Launchers = {l1, l2}
  MaxLaunches = 2
  Envs <- DefaultEnvironment
  Missing <- NothingMissing
  Changing = {"stop"}
PROPERTY
  CheckpointNeverRewritten
CHECK_DEADLOCK FALSE
