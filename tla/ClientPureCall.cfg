SPECIFICATION Spec
CONSTANTS
  Transport = "udp"
  BufLen = 1
  MaxStarts = 1
  MaxSent = 1
INVARIANT NoPureCall
