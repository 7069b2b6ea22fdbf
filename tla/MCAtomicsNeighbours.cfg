\* Byte swap and byte compare-and-swap beside other bytes of the word, little-endian.
CONSTANTS
  t1 = t1
  t2 = t2
  a1 = a1
  a2 = a2
  NoAddr = NoAddr
  NoValue <- NoWord
  ByteBits = 2
  Threads <- MCThreads
  Addrs <- OneAddr
  Insts <- NeighbourInsts
  IsLittle = TRUE
  InitWords <- PartwordInit
  MaxDisturb = 0
SPECIFICATION FairSpec
PROPERTY NeighboursKept
CHECK_DEADLOCK TRUE
