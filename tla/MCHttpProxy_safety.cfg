\* Plaintext, every fault, full buffers in both directions.
CONSTANTS
  kBackpressureHigh = 1
  kBackpressureLow = 1
  Chunk = 1
  SockBuf = 1
  HeadLen = 1
  ReplyLen = 2
  MaxContent = 2
  MaxResponse = 3
  Tls = FALSE
  Timeouts = FALSE
  Faults = {"clientReset", "backendReset", "refused", "addFails"}
SPECIFICATION Spec
INVARIANTS PointersLive BoundedBuffers EdgesKept PausesEnd OneResponse
