SPECIFICATION FairSpec
CONSTANTS
  Launchers = {l1, l2, l3}
  Nobody = Nobody
  Pids = {k1, k2, k3}
  NoPid = NoPid
  Overlap = TRUE
PROPERTIES
  SettledHolderKeepsLock
  AcquireTerminates
