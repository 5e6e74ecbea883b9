SPECIFICATION FairSpec
CHECK_DEADLOCK FALSE
CONSTANTS
  s1 = s1
  s2 = s2
  Services = {s1, s2}
  Clients = {c1, c2}
  ServiceFd <- MCServiceFd
  Fds = {3, 4, 5, 6}
  Procs = {1, 2}
  MaxTimers = 1
INVARIANTS
  TablesAgree
  OnlyReported
  OneHolder
PROPERTIES
  Accepted
