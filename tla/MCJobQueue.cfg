\* the blocking queue under the most general client
CONSTANTS
  Threads = {t1, t2, t3}
  Items = {a, b}
  MaxSize = 1
  NoItem = NoItem
  NoThread = NoThread
SPECIFICATION Spec
INVARIANTS
  TypeOK
  NoSleepOverItem
  NoSleepThroughDone
PROPERTY Linearizable
