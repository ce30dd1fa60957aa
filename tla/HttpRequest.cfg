\* Up to two of nine messages, one of them with a line too long, then the rest of
\* such a line, a head that breaks off or an endless body; read one byte, five
\* bytes or all that is left at a time; replies of three bytes in buffers of two.
SPECIFICATION Spec
CONSTANTS
  Messages <- MCMessages
  MaxMsgs = 2
  Lasts <- MCLasts
  Pieces = {1, 5, 100}
  MaxLine = 8
  BufLen = 2
  ReplyLen = 3
INVARIANTS
  TypeOK
  ServedAsSent
  RepliesInOrder
PROPERTY
  InputEnds
CHECK_DEADLOCK FALSE
