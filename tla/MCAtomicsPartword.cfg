\* The 8-bit and 16-bit loops, big-endian.  Two threads, one word, two-bit bytes.
CONSTANTS
  t1 = t1
  t2 = t2
  a1 = a1
  a2 = a2
  NoAddr = NoAddr
  NoValue <- NoWord
  ByteBits = 2
  Threads <- MCThreads
  Addrs <- OneAddr
  Insts <- PartwordInsts
  IsLittle = FALSE
  InitWords <- PartwordInit
  MaxDisturb = 1
SPECIFICATION FairSpec
INVARIANT Reservation
PROPERTY PartwordAtomicAsCoded
CHECK_DEADLOCK TRUE
