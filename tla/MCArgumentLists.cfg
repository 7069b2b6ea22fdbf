\* All argument lists of up to five arguments.
SPECIFICATION Spec
CONSTANTS
  Conventions <- MCConventions
  ArgTypes <- MCArgTypes
  MaxArgs = 5
INVARIANTS
  TypeOK
  WordsFound
  WordsApart
CHECK_DEADLOCK FALSE
