SPECIFICATION Spec
CONSTANTS
  Launchers = {l1}
  MaxLaunches = 2
  Envs <- AllEnvironments
  Missing <- OneMissing
  Changing = {"stop", "stable", "limit"}
INVARIANTS
  TypeOK
  ExitIsDurable
  DecisionHasEvidence
  PausedLaunchDoesNoWork
  WriteOrder
PROPERTY
  CheckpointNeverRewritten
CHECK_DEADLOCK FALSE
