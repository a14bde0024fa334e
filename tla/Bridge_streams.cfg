SPECIFICATION Spec
CONSTANTS
  Sessions = {s1}
  Nobody = Nobody
  Fds = {4}
  MaxUp = 3
  MaxDown = 3
  RxSize = 2
  BufSize = 2
  SockCap = 2
  WsCap = 1
  LwsPre = 1
  SizeMod = 8
  Nonblocking = FALSE
  AllocFails = FALSE
  AdoptFails = FALSE
  Stray = Stray
INVARIANTS UpLossless DownLossless
PROPERTY ImplementsDuplex
CHECK_DEADLOCK FALSE
