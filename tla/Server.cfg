CONSTANTS
  h1 = h1
  None = None
  Gethost = {g1, g2}
  Sender = {s1}
  Line = {"load", "up", "down", "monitor", "bad"}
  Conn = {1, 2}
  Host = {h1}
  NCpus <- OneCpu
  MaxFd = 2
  MaxAsk = 2
  MaxJoin = 2
  MaxStart = 2
SPECIFICATION Spec
INVARIANTS ServerTypeOK MaskIsFdList BlockedOnlyByNew CommandsBounded HoldsWhileRunning
CHECK_DEADLOCK FALSE
PROPERTIES CpuComesBack EveryoneServed
