SPECIFICATION Spec
CONSTANTS
  Inputs <- MCInputs
  Targets <- MCTargets
  Others <- MCOthers
  MaxChanges = 3
  Kinds <- MCKinds
  MarchNames <- MCMarchNames
INVARIANTS
  NormalizedAsNamed
  VersionsAgree
PROPERTY
  ImplementsFields
CHECK_DEADLOCK FALSE
