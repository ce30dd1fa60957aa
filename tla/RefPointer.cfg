\* Two threads with two variables each and one element of a map; two objects, whose
\* addresses are used again.
SPECIFICATION Spec
CONSTANTS
  t1 = t1  t2 = t2
  a1 = a1  b1 = b1  a2 = a2  b2 = b2  entry = entry
  Thread = {t1, t2}
  Pointer = {a1, b1, a2, b2, entry}
  Home <- MCHome
  Obj = {o1, o2}
  NULL = NULL  Nobody = Nobody  NoPointer = NoPointer
INVARIANTS
  TypeOK
  RefIsCount
  NoUseAfterFree
  NoLeak
SYMMETRY Symmetry
CHECK_DEADLOCK FALSE
