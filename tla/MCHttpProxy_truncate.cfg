\* A download that was paused.
CONSTANTS
  kBackpressureHigh = 1
  kBackpressureLow = 1
  Chunk = 1
  SockBuf = 1
  HeadLen = 1
  ReplyLen = 2
  MaxContent = 0
  MaxResponse = 4
  Tls = FALSE
  Timeouts = FALSE
  Faults = {}
SPECIFICATION Spec
PROPERTIES CloseDrained
