SPECIFICATION Spec
CONSTANTS
  Launchers = {l1, l2, l3}
  Nobody = Nobody
  Pids = {k1, k2, k3, k4}
  NoPid = NoPid
  Overlap = FALSE
SYMMETRY Symmetric
INVARIANTS
  TypeOK
  HolderIsSettled
PROPERTY
  ExclusiveLockSpec
