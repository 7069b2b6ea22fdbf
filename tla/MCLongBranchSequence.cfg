\* Functions of four blocks, five after splitting; immediates of seven bits.
CONSTANTS
  Funcs <- MCFuncs
  ImmBits = 7
SPECIFICATION Spec
INVARIANT SequenceReachesTarget
CHECK_DEADLOCK FALSE
