SPECIFICATION Spec
CONSTANTS
  Launchers = {l1}
  MaxLaunches = 1
  Envs <- NoLoopEnvironment
  Missing <- NothingMissing
  Changing = {"stop"}
PROPERTY
  StatusFollowsPolicy
CHECK_DEADLOCK FALSE
