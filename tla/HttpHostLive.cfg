\* One connection, two pieces of data and then perhaps the end or a reset; the
\* server may be stopped at any time.  Three reads: the data and one error.
SPECIFICATION Spec
CONSTANTS
  Fd = {4}
  Listen = 3
  Worker = {w1}
  MaxEvents = 2
  MaxConns = 1
  MaxReads = 3
  MaxSent = 2
  Resettable = {1}
  Stoppable = TRUE
  NoBuffer = NoBuffer
  BufLen = 1
  SockBuf = 1
  MaxBytes = 1
PROPERTIES
  EveryEventSeen
  StopSeen
CHECK_DEADLOCK FALSE
