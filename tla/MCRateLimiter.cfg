SPECIFICATION Spec
CONSTANTS
  Threads = {t1, t2}
  Clients = {c1, c2, c3}
  Overflow = overflow_
  Nobody = nobody
  kMaxBuckets = 2
  Price = 2
  Burst = 3
  MaxLag = 1
  MaxTime = 4
INVARIANTS LimitsHold
PROPERTY ImplementsTokenBucket
SYMMETRY Symmetry
