\* The frames of eight programs, with interrupts.
SPECIFICATION Spec
CONSTANTS
  Funcs <- MCFuncs
  Entries <- MCEntries
  MemTop = 256
  MaxWrites = 3
  MaxInterrupts = 1
  MaxImm = 31
INVARIANTS
  TypeOK
  ArgumentsArrive
  CalleeSavedKept
  FrameKept
  EhDataSaved
  GPRestored
CHECK_DEADLOCK FALSE
