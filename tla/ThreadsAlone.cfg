CONSTANTS
  h1 = h1
  d1 = d1
  None = None
  Host = {h1}
  Dprop = {d1}
  Sock = {c1}
  DpropOf <- OneDprop
  NCpus <- TwoCpus
  PIndex <- Power
  Listed = {h1}
  BadMsgs = FALSE
  MaxServed = 1
  Searching = FALSE
  MaxCpus = 2
SPECIFICATION TSpec
INVARIANT
  HandlersKeepDb
