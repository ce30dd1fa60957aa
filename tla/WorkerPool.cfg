\* Two connections, two workers, up to three buffers read; both descriptors may be
\* closed at any time.  No symmetry, as liveness is checked.  The server may stop: no
\* deadlock check.
SPECIFICATION Spec
CONSTANTS
  Fd = {4, 5}
  Worker = {w1, w2}
  Closable = {4, 5}
  MaxReads = 3
  NoBuffer = NoBuffer
INVARIANTS
  TypeOK
  NoOrphanMark
  NoLostWakeup
  InOrderOnce
  OnlyMissedWait
PROPERTIES
  EveryReadTaken
  CleanShutdown
CHECK_DEADLOCK FALSE
