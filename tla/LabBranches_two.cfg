SPECIFICATION TuningSpec
CONSTANTS
  Workers = {w1, w2, w3}
  Scripts <- TwoScripts
  MaxCrashes = 2
  Hypotheses = {h1, h2, h3}
  NoParent = NoParent
  Nothing = Nothing
  Window = 4
  MaxOutcomes = 9
SYMMETRY AnyName
INVARIANTS
  TypeOK
  BranchesNeverCircle
  EdgesMatchParents
  StreakDecidesHealth
PROPERTIES
  OutcomeMovesHealthItsWay
  LoneInitializeNeverRaises
  SchemaRuleSpec
