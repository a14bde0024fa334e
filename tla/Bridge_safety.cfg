SPECIFICATION Spec
CONSTANTS
  Sessions = {s1, s2}
  Nobody = Nobody
  Fds = {4, 5}
  MaxUp = 2
  MaxDown = 2
  RxSize = 1
  BufSize = 1
  SockCap = 1
  WsCap = 1
  LwsPre = 2
  SizeMod = 8
  Nonblocking = TRUE
  AllocFails = TRUE
  AdoptFails = TRUE
  Stray = Stray
CONSTRAINT FewUnits
SYMMETRY Symmetry
INVARIANTS TypeOK FdOwnership ConnAlive NoLostWakeup AllReleased InOrder
           HeapAccount OnlyDaemonsCrash
CHECK_DEADLOCK FALSE
