\* Two connections; buffers of one or two bytes, a send buffer of one, up to two bytes
\* accepted for a queue: partial writes, a full send buffer and a second buffer behind
\* the first all occur.  The server may stop.
SPECIFICATION Spec
CONSTANTS
  Fd = {4, 5}
  Closable = {4, 5}
  BufLen = 2
  SockBuf = 1
  MaxBytes = 2
INVARIANTS
  TypeOK
  CloseWhenAllSent
PROPERTIES
  StreamSpec
  EveryByteSent
CHECK_DEADLOCK FALSE
