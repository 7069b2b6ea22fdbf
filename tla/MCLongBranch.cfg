\* Functions of four blocks, five after splitting; immediates of seven bits.
CONSTANTS
  Funcs <- MCFuncs
  ImmBits = 7
SPECIFICATION Spec
INVARIANTS
  TypeOK
  ControlFlowKept
  ShortBranchesReach
  OnlyFarBranchesLong
  SequenceTransparent
PROPERTY Terminates
CHECK_DEADLOCK FALSE
