\* No descriptor is ever closed: the plain operation of two workers.
SPECIFICATION SafeSpec
CONSTANTS
  Fd = {4}
  Worker = {w1, w2}
  Closable = {}
  MaxReads = 2
  NoBuffer = NoBuffer
INVARIANT OneWorkerPerTask
CHECK_DEADLOCK FALSE
