SPECIFICATION Spec
CONSTANTS
  Ids = {e1, e2}
  Procs = {pa, pb}
  Kinds = {"tcpServer", "udpServer", "unixStreamServer", "unixDgramServer", "tcpClient", "udpClient", "unixStreamClient", "unixDgramClient"}
  Names = {n1, n2}
  Fds = {0, 1}
  NoId = NoId
  NoProc = NoProc
  NoName = NoName
SYMMETRY Symmetry
INVARIANT BindFailsOnlyToARival
INVARIANT ReachableWhenAlone
INVARIANT HoldsItsOwn
INVARIANT ServersCloseTheirSocket
PROPERTY SpoiledOnlyTwice
CHECK_DEADLOCK FALSE
