\* TLS, where either call may block in either direction; idle sweeps, and the
\* head in pieces or read together with body bytes.
CONSTANTS
  kBackpressureHigh = 1
  kBackpressureLow = 1
  Chunk = 2
  SockBuf = 2
  HeadLen = 2
  ReplyLen = 2
  MaxContent = 1
  MaxResponse = 3
  Tls = TRUE
  Timeouts = TRUE
  Faults = {}
SPECIFICATION Spec
INVARIANTS EdgesKept
