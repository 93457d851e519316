SPECIFICATION FairSpec
CONSTANTS
  Transport = "unixStream"
  BufLen = 2
  MaxStarts = 2
  MaxSent = 3
PROPERTY StopReturns
PROPERTY ClosedEndsThread
