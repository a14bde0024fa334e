SPECIFICATION Spec
CONSTANTS
  PortArgs <- Ports
  NoPort = NoPort
  NoOpts = NoOpts
  AllocFails = FALSE
INVARIANT TlsIsNoError
CHECK_DEADLOCK FALSE
