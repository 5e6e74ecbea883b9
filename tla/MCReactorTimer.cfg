CONSTANTS
  EndPoints = {l, c1}
  Listeners = {l}
  MaxFd = 1
  Opers = {}
  Modes = {"select", "epoll"}
  Tags = {r}
  Repeating = {r}
  TimerEndPoints = {l}
  Liberties = {}
  None = None
SPECIFICATION Spec
CHECK_DEADLOCK FALSE
INVARIANTS
  RemovedIsQuiet
