SPECIFICATION Spec
CONSTANTS
  Transport = "tcp"
  Peers = {p1, p2}
  Fds = {f1, f2}
  NoPeer = NoPeer
  NoFd = NoFd
  MaxStarts = 2
  BufLen = 1
  MaxBytes = 1
  OutCap = 1
SYMMETRY Symmetry
INVARIANT PolledAreListed
INVARIANT NothingDropped
INVARIANT RecvNeverWaits
INVARIANT QuietWhenStopped
INVARIANT PipeClosedOnce
INVARIANT TerminatesUnstoppedOnly
INVARIANT CallbackHasData
INVARIANT ListedArePolled
PROPERTY ForgottenWhenDrained
PROPERTY StopComesNearer
PROPERTY ImplementsService
