CONSTANTS
  EndPoints = {l, c1}
  Listeners = {l}
  MaxFd = 1
  Opers = {"read", "write"}
  Modes = {"select", "epoll"}
  Tags = {t}
  Repeating = {}
  TimerEndPoints = {None}
  Liberties = {}
  None = None
SPECIFICATION Spec
CHECK_DEADLOCK FALSE
INVARIANTS
  HandlersMonitored
