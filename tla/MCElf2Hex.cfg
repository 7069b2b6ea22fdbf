CONSTANTS
  Objects <- MCObjects
  FirstAddr = 20
  Leftover = {0, 1, 3, 4, 6, 1000}
SPECIFICATION Spec
INVARIANTS
  ImageFaithful
PROPERTY Terminates
CHECK_DEADLOCK FALSE
