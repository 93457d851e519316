SPECIFICATION Spec
CONSTANTS
  Transport = "udp"
  BufLen = 1
  MaxStarts = 2
  MaxSent = 3
INVARIANT DeliveredOnce
INVARIANT BufferKept
INVARIANT QuietWhenStopped
INVARIANT RecvNeverWaits
INVARIANT TerminatesUnjoinedOnly
PROPERTY StopComesNearer
PROPERTY ImplementsMailbox
