SPECIFICATION Spec
CONSTANTS
  W <- MCW
  Programs <- MCPrograms
INVARIANTS
  TypeOK
  RunsAsWritten
  TextAgrees
CHECK_DEADLOCK FALSE
