SPECIFICATION FairSpec
CONSTANTS
  Transport = "unixStream"
  Peers = {p1, p2}
  Fds = {f1}
  NoPeer = NoPeer
  NoFd = NoFd
  MaxStarts = 1
  BufLen = 1
  MaxBytes = 2
  OutCap = 1
INVARIANT TypeOK
PROPERTY ClosedIsForgotten
PROPERTY StopReturns
