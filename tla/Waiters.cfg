CONSTANTS
  p1 = p1
  p2 = p2
  p3 = p3
  n1 = n1
  n2 = n2
  here = here
  there = there
  None = None
  Proc = {p1, p2, p3}
  Name = {n1, n2}
  Conn = {1, 2, 3}
  Port = {1, 2}
  Host = {here, there}
  PmHost = here
  HostOf <- Machines
  Octet <- Octets
  FwFiles <- Files
  Calls <- WaitersRoles
  MaxFd = 3
  MaxTry = 1
  MaxMishap = 1
SPECIFICATION Spec
INVARIANTS NoneForgotten
CHECK_DEADLOCK FALSE
