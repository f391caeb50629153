\* Peers that make progress; bodies long enough to pause both directions.
CONSTANTS
  kBackpressureHigh = 1
  kBackpressureLow = 1
  Chunk = 1
  SockBuf = 1
  HeadLen = 2
  ReplyLen = 2
  MaxContent = 3
  MaxResponse = 3
  Tls = FALSE
  Timeouts = FALSE
  Faults = {}
SPECIFICATION FairSpec
PROPERTIES RequestEnds
