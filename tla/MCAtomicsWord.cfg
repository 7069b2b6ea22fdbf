\* The 32-bit loops.  Two threads, one word, words of four one-bit bytes.
CONSTANTS
  t1 = t1
  t2 = t2
  a1 = a1
  a2 = a2
  NoAddr = NoAddr
  NoValue <- NoWord
  ByteBits = 1
  Threads <- MCThreads
  Addrs <- OneAddr
  Insts <- WordInsts
  IsLittle = TRUE
  InitWords <- WordInit
  MaxDisturb = 1
SPECIFICATION FairSpec
INVARIANT TypeOK
PROPERTIES RefinesRMW NoLostUpdate LockFree
CHECK_DEADLOCK TRUE
