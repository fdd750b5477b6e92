CONSTANTS
  Inputs <- MCInputs
  TableRows = 4
SPECIFICATION Spec
INVARIANTS TypeOK AnsweredInOrder CatalogStaysLocal UserQueriesReachTrino LimitsInTrinoGrammar MeaningPreserved
CHECK_DEADLOCK FALSE
