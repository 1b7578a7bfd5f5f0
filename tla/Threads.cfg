CONSTANTS
  h1 = h1
  d1 = d1
  None = None
  Host = {h1}
  Dprop = {d1}
  Sock = {c1}
  DpropOf <- OneDprop
  NCpus <- OneCpu
  PIndex <- LowPower
  Listed = {h1}
  BadMsgs = FALSE
  MaxServed = 1
  Searching = TRUE
  MaxCpus = 1
SPECIFICATION TFairSpec
INVARIANTS
  ThreadsTypeOK
  FoundInItsSet
PROPERTY
  ThreadsFinish
