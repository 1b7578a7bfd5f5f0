CONSTANTS
  m1 = m1
  m2 = m2
  a1 = a1
  a2 = a2
  i1 = i1
  i2 = i2
  None = None
  Machine = {m1, m2}
  Addr = {a1, a2}
  AddrOf <- Addresses
  Info = {i1, i2}
  File <- Files
  MaxClock = 3
SPECIFICATION Spec
INVARIANTS HostsFileTypeOK ListedIsFound StaleOnlySameSecond
