SPECIFICATION FairSpec
CONSTANTS
  Launchers = {l1, l2}
  MaxLaunches = 2
  Envs <- SomeEnvironments
  Missing <- NothingMissing
  Changing = {"stop", "stable"}
INVARIANTS
  NoDanglingReference
PROPERTIES
  LaunchAdvances
  StopRequestHonoured
  LaunchSettles
CHECK_DEADLOCK FALSE
