\* One descriptor number, so that two connections in a row get the same one;
\* the first may be reset, so that the IO thread and the writer both close it
\* and it may be given out again meanwhile.  One worker, replies of one byte.
SPECIFICATION SafeSpec
CONSTANTS
  Fd = {4}
  Listen = 3
  Worker = {w1}
  MaxEvents = 2
  MaxConns = 2
  MaxReads = 2
  MaxSent = 2
  Resettable = {1}
  Stoppable = FALSE
  NoBuffer = NoBuffer
  BufLen = 1
  SockBuf = 1
  MaxBytes = 1
INVARIANTS
  TypeOK
  NoStaleReads
  TablesAgree
PROPERTY
  OnlyEndedLose
CHECK_DEADLOCK FALSE
