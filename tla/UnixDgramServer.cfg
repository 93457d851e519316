SPECIFICATION FairSpec
CONSTANTS
  Transport = "unixDgram"
  Addrs = {a1, a2}
  Unnamed = a2
  NoAddr = NoAddr
  MaxStarts = 2
  Lengths = {0, 3}
  BufLen = 2
  MaxArrivals = 2
  InCap = 1
  OutCap = 1
INVARIANT CallbackNamesSender
INVARIANT IteratorStaysValid
PROPERTY StopComesNearer
PROPERTY ImplementsBook
PROPERTY StopReturns
PROPERTY DatagramsAreGiven
