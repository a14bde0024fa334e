SPECIFICATION FairSpec
CONSTANTS
  PortArgs <- Ports
  NoPort = NoPort
  NoOpts = NoOpts
  AllocFails = TRUE
INVARIANTS TypeOK CleanExit Prepared
PROPERTY StopsWhenSeen
CHECK_DEADLOCK FALSE
