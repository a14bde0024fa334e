SPECIFICATION Spec
CONSTANTS
  Msgs = {m1, m2, m3, m4}
  Head0 = Head0
  Null = Null
SYMMETRY Symmetry
INVARIANTS TypeOK NoDangling
PROPERTY ImplementsFifo
CHECK_DEADLOCK FALSE
