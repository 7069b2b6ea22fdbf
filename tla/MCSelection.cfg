\* Fields of 3 bits, registers of 6.
SPECIFICATION Spec
CONSTANTS
  ImmBits = 3
  Operands <- MCOperands
INVARIANTS
  ConstantsBuilt
  ComparisonsDecided
  NothingElseChanged
  ImmediatesShortest
CHECK_DEADLOCK FALSE
