\* As the reuse run with less data: the first connection may be reset, read and
\* write then fail, and the IO thread and the writer close the same descriptor.
SPECIFICATION SafeSpec
CONSTANTS
  Fd = {4}
  Listen = 3
  Worker = {w1}
  MaxEvents = 2
  MaxConns = 2
  MaxReads = 2
  MaxSent = 1
  Resettable = {1}
  Stoppable = FALSE
  NoBuffer = NoBuffer
  BufLen = 1
  SockBuf = 1
  MaxBytes = 1
INVARIANT
  NoStrandedInput
PROPERTIES
  PoolSpec
  WriterSpec
CHECK_DEADLOCK FALSE
