SPECIFICATION QueuesSpec
CONSTANTS
  Producers = {p1, p2}
  Consumers = {c1, c2, c3}
  MaxPush = 2
  FsqWriters = {w1, w2}
  FsqReaders = {r1, r2}
  FsqItem = {1, 2}
  FsqSize = 3
  FsqPushes = 3
  CqCapacity = 3
  CqItems = 12
  MpmcProducers = {p1, p2}
  MpmcConsumers = {c1, c2}
  MpmcCapacity = 2
  MpmcItems = 2
INVARIANT NoLostWakeup CellsDisjoint MpmcExact
PROPERTY ItemsArrive ImplementsFifo CqImplementsFifo FsqImplementsFifo
CHECK_DEADLOCK FALSE
