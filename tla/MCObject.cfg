CONSTANTS
  H = 6
  References <- MCReferences
  Layouts <- MCLayouts
SPECIFICATION Spec
INVARIANTS
  TypeOK
  AddressComputed
  TransferLands
  RoutesAgree
  DisassemblyAgrees
CHECK_DEADLOCK FALSE
