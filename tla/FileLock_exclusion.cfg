SPECIFICATION Spec
CONSTANTS
  Launchers = {l1, l2}
  Nobody = Nobody
  Pids = {k1, k2, k3}
  NoPid = NoPid
  Overlap = TRUE
INVARIANT
  MutualExclusion
