CONSTANTS
  EndPoints = {l, c1, c2}
  Listeners = {l}
  MaxFd = 1
  Opers = {"exception", "read"}
  Modes = {"select", "epoll"}
  Tags = {t}
  Repeating = {}
  TimerEndPoints = {c1}
  Liberties = {"remove", "unregister", "close", "cancel"}
  None = None
SPECIFICATION Spec
CHECK_DEADLOCK FALSE
INVARIANTS
  MonitoredHandled
  NothingUnwatched
  OpenIsRegistered
