SPECIFICATION Spec
CONSTANTS
  Sessions = {s1}
  Nobody = Nobody
  Fds = {4}
  MaxUp = 2
  MaxDown = 1
  RxSize = 2
  BufSize = 1
  SockCap = 1
  WsCap = 1
  LwsPre = 1
  SizeMod = 8
  Nonblocking = FALSE
  AllocFails = FALSE
  AdoptFails = FALSE
  Stray = Stray
INVARIANT Transparent
CHECK_DEADLOCK FALSE
