SPECIFICATION Spec
CONSTANTS
  NbdKeys = {k1, k2}
  NbdRequests = 3
  NbdWorkers = {w1, w2}
  NbdChunks = {1, 2, 3}
  Callbacks = {c1, c2, c3}
  DirChanges = 1
  LogClients = {c1, c2}
  LogLevels = {0, 1}
  LogMessages = 3
  SingletonThreads = {t1, t2, t3}
  MaxInstances = 3
  IP_LENGTH = 4
  SUBNET_LENGTH = 1
  SubNet = 1
  PCThreads = {1, 2, 3}
  SemLeftovers = {0, 2}
  ARR_SIZE = 2
  RoundsNum = 3
  RoundConsumers = {c1, c2, c3}
  StThreads = 3
  StCopies = 2
  StLines = {1, 2, 3}
  StLetters = {"a", "b"}
  StLengths = {2, 3}
  TcpClients = {c1, c2}
  UdpClients = {u1}
  PpPings <- MCPings
  PpEvents = 1
  PlayRounds = 3
  NetRounds = 4
  NetLine = 2
  PipeRounds = 3
  SIZE_OF_ARR = 3
  PROCESS_LIMIT = 3
  DivNumbers = {6, 9, 12, 13}
INVARIANT RepliesFramed EveryEventOnce LogIsPrefix OneInstance HandedOverOnce
PROPERTY DhcpImplementsPool EverythingEnds
CHECK_DEADLOCK FALSE
