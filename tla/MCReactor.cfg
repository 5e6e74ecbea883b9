CONSTANTS
  EndPoints = {l, c1, c2}
  Listeners = {l}
  MaxFd = 2
  Opers = {"exception", "read"}
  Modes = {"select", "epoll"}
  Tags = {t, r}
  Repeating = {r}
  TimerEndPoints = {None}
  Liberties = {}
  None = None
SPECIFICATION Spec
CHECK_DEADLOCK FALSE
INVARIANTS
  HandlersMonitored
  HandlerOwnsSocket
  RemovedIsQuiet
PROPERTIES
  NoSpuriousClose
  CanceledStaysQuiet
  WantedFires
