SPECIFICATION Spec
CONSTANTS
  Transport = "unixDgram"
  Addrs = {a1}
  Unnamed = a1
  NoAddr = NoAddr
  MaxStarts = 1
  Lengths = {0, 1}
  BufLen = 1
  MaxArrivals = 1
  InCap = 2
  OutCap = 1
INVARIANT TerminatorInside
