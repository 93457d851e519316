SPECIFICATION ExampleSpec
CONSTANTS
  Transport = "tcp"
  Client = p1
  Peers = {p1}
  Fds = {f1}
  NoPeer = NoPeer
  NoFd = NoFd
  MaxStarts = 1
  BufLen = 2
  MaxBytes = 4
  OutCap = 1
  MaxThreads = 2
  InCap = 1
INVARIANT AnswersFollowLines
PROPERTY SendReturns
PROPERTY ConversationGoesOn
PROPERTY EofHandled
PROPERTY QuitObeyed
