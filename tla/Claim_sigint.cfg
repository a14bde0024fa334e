SPECIFICATION FairSpec
CONSTANTS
  PortArgs <- Ports
  NoPort = NoPort
  NoOpts = NoOpts
  AllocFails = FALSE
PROPERTY StopsOnSigint
CHECK_DEADLOCK FALSE
