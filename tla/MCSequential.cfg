SPECIFICATION Spec
CONSTANTS
  VsaMemory = 13
  VsaHeader = 2
  FsaWord = 2
  FsaMemorySizes = {6, 12, 14}
  FsaBlockSizes = {1, 2, 3}
  CBufferCapacities = {0, 1, 3}
  CBufferStream = 7
  AvlKeys = {1, 2, 3, 4, 5, 6}
  RvKeys = {1, 2, 3, 4, 5}
  RvHostBits = 3
  RvByte = 4
  BstKeys = {1, 2, 3, 4, 5}
  HeapKeys = {1, 2, 3, 4}
  HeapMaxSize = 6
  HeapCapacity = 2
  DlistNodes = {1, 2, 3, 4}
  DlistData = {1, 2}
  SlistNodes = {1, 2, 3, 4, 5}
  HashKeys = {1, 2, 3, 4}
  HashValues = {1, 2}
  HashCapacity = 2
  StackElements = {1, 2}
  StackCapacities = {0, 1, 3}
  SortValues <- MCSortValues
  SortMaxLength = 5
  SortIntBits = 8
  SortSizeBits = 16
  CalcMaxLength = 8
  CalcNumStack = 4
  CalcOpStack = 5
  BitsWidth = 8
  KnightGames <- MCKnightGames
  BitArrayNs = {4, 5}
  WORD_BIT_SIZE = 4
  SortedKeys = {1, 2, 3}
  SortedMax = 4
  MinHeapKeys = {1, 2, 3, 4}
  MinHeapMax = 6
  RcObjects = {o1, o2, o3}
  RcBlocks = {1, 2, 3, 4}
  RcLetters = {1, 2}
  RcMaxLength = 2
  StrSize = 6
  StrChars = {97, 65, 32}
  StrMaxSrc = 2
  PuzzleNodes = {1, 2, 3, 4}
  PuzzleElements = {1, 2, 3}
  WsNumbers <- MCWsNumbers
  WsBases = {2, 3, 10}
  WsBytes = 6
  WsBits = 8
  BiosPlans <- MCPlans
  BiosTarget = "fcp"
  BiosFirst = "A"
  BiosLosses = 2
  BiosVersions <- MCVersions
  BiosUpdateRuns = 3
  Olts = {1, 2}
  OltModule <- MCOltModule
  PoolSize = 3
  LastHost = 3
  OltInputs <- MCOltInputs
  OltRuns = 3
  SpaPorts <- MCSpaPorts
  SpaModules = {1, 2}
  MaxPods = 3
  MaxPorts = 3
  SpaInputs <- MCSpaInputs
  SpaRuns = 3
  SpaFails = 1
  PgLimit = 2
  NsiInputs <- MCNsiInputs
  NsiRuns = 3
  HaRuns = 3
  HaEvents = 1
INVARIANT AllocatorsTile ContainersAgree AlgorithmsAgree
          BiosKeepsTrack ReconfigurationSound
CHECK_DEADLOCK FALSE
