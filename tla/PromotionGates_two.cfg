SPECIFICATION Spec
CONSTANTS
  covered = covered
  narrow = narrow
  theta = theta
  d1 = d1
  d2 = d2
  Drivers = {d1, d2}
  Candidates = {covered, narrow}
  FamilyOf <- TwoFamilies
  Screened = {covered, narrow}
  Observables = {theta}
  Suites <- SomeSuites
  NoRow = NoRow
  NoReport = NoReport
  MaxBegins = 3
SYMMETRY AnyDriver
INVARIANTS
  TypeOK
  RegistryRestsOnFirstVerdict
  BannerIsBacked
  RowsStandUnlessRedone
PROPERTIES
  PromotionRuleSpec
CHECK_DEADLOCK FALSE
