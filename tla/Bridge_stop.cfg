SPECIFICATION StopSpecDaemons
CONSTANTS
  Sessions = {s1, s2}
  Nobody = Nobody
  Fds = {4, 5}
  MaxUp = 2
  MaxDown = 0
  RxSize = 2
  BufSize = 1
  SockCap = 1
  WsCap = 1
  LwsPre = 1
  SizeMod = 8
  Nonblocking = FALSE
  AllocFails = FALSE
  AdoptFails = FALSE
  Stray = Stray
CONSTRAINT FewUnits
PROPERTY ShutdownCompletes
CHECK_DEADLOCK FALSE
