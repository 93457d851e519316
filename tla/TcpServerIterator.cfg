SPECIFICATION Spec
CONSTANTS
  Transport = "tcp"
  Peers = {p1, p2}
  Fds = {f1, f2}
  NoPeer = NoPeer
  NoFd = NoFd
  MaxStarts = 1
  BufLen = 1
  MaxBytes = 1
  OutCap = 1
INVARIANT NoDanglingIterator
