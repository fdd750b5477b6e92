CONSTANTS
  Inputs <- MCInputs
  TableRows = 4
SPECIFICATION Spec
INVARIANT RunsEachStatement
CHECK_DEADLOCK FALSE
