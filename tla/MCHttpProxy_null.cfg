\* A backend that fails during an upload.
CONSTANTS
  kBackpressureHigh = 1
  kBackpressureLow = 1
  Chunk = 1
  SockBuf = 1
  HeadLen = 1
  ReplyLen = 2
  MaxContent = 2
  MaxResponse = 0
  Tls = FALSE
  Timeouts = FALSE
  Faults = {"backendReset"}
SPECIFICATION Spec
INVARIANTS NoNullBackend
