CONSTANTS
  h1 = h1
  h2 = h2
  d1 = d1
  d2 = d2
  None = None
  Host = {h1}
  Dprop = {d1}
  Sock = {c1}
  DpropOf <- SoloDprop
  NCpus <- SoloCpus
  PIndex <- SoloPower
  Listed = {h1}
  BadMsgs = FALSE
  MaxServed = 1
SPECIFICATION Spec
PROPERTY
  SilentOnlyIfQuiet
