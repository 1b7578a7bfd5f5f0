CONSTANTS
  h1 = h1
  h2 = h2
  d1 = d1
  d2 = d2
  None = None
  Host = {h1, h2}
  Dprop = {d1}
  Sock = {c1, c2}
  DpropOf <- OneDprop
  NCpus <- Cpus
  PIndex <- Power
  Listed = {h1, h2}
  BadMsgs = FALSE
  MaxServed = 1
SPECIFICATION FairSpec
INVARIANTS
  TypeOK
  SetsMatchState
  PoolMatchesState
  AvailTierIsKey
  AssignmentsTracked
  CpusNeverLost
  MaxCoversOnceServed
PROPERTIES
  DownSticks
  BestTierGiven
  ImplementsHostPool
  QuietHostWithdrawn
