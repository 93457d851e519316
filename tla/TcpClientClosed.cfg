SPECIFICATION FairSpec
CONSTANTS
  Transport = "tcp"
  BufLen = 1
  MaxStarts = 1
  MaxSent = 1
PROPERTY ClosedEndsThread
