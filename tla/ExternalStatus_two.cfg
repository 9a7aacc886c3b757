SPECIFICATION FairSpec
CONSTANTS
  r1 = r1
  r2 = r2
  c1 = c1
  remark = remark
  support = support
  refutation = refutation
  Workers = {w1, w2}
  Reports = {r1, r2}
  Candidates = {c1}
  CandidateOf <- SameCandidate
  NoCandidate = NoCandidate
  FirstStatus <- FirstStatuses
  Evidence = {remark, support, refutation}
  RelationOf <- Relation
  Citable <- Citations
  Absent = Absent
  NoProposal = NoProposal
  MaxMishaps = 1
INVARIANTS
  TypeOK
  StatusIsCited
  QuietReportIsSettled
PROPERTIES
  FallBackNeedsStaleSnapshot
  StatusRuleSpec
  StatusConverges
CHECK_DEADLOCK FALSE
