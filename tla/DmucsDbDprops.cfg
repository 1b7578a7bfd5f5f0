CONSTANTS
  h1 = h1
  h2 = h2
  d1 = d1
  d2 = d2
  None = None
  Host = {h1, h2}
  Dprop = {d1, d2}
  Sock = {c1}
  DpropOf <- TwoDprops
  NCpus <- Cpus
  PIndex <- Power
  Listed = {h1, h2}
  BadMsgs = TRUE
  MaxServed = 1
  Unset = d1
SPECIFICATION Spec
INVARIANTS
  EntryReleasable
  OvercommitBounded
  MonitorShowsDb
