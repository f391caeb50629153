SPECIFICATION Spec
CONSTANTS
  Workers = {w1, w2}
  MaxConn = 2
  Fds = {f1, f2, f3, f4}
  NoFd = NoFd
  Backlog = 2
  MaxContexts = 3
INVARIANTS SoftCap NothingLeaks NoFreedContext QueueDrained
SYMMETRY Symmetry
