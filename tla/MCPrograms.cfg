SPECIFICATION Spec
CONSTANTS
  MaxSignals = 4
  N = 3
  K = 2
  L = 3
  ThreadsNo = 3
  RecordsNo = 2
  FileSize = 5
  Hits = {3, 5}
  FileRecords = 4
  Bytes = {3, 130, 249}
  MaxLines = 4
  MAX_CMDS = 4
  Emits = {0, 2, 3}
  PipeSize = 2
  childrenNo = 3
  Points = 2
  PipeRecords = 3
  LocalClient = {l1}
  InetClient = {n1}
  QueueSize = 2
  MaxTasks = 1
  Process = {p1, p2, p3}
  Waiter = {p1, p2}
  Lister = {p1}
  MaxLength = 2
  Names = {"a", "b"}
  Depth = 2
INVARIANTS
  PermitsFollowRequests
  SignalsAccountedFor
  BatchesAreRuns
  SortIsStable
  ShuffleIsOneCycle
  EachFileFoundOnce
  ListIsTrue
  CommandsFindTheirEnvironment
  ReadsItsPredecessor
  AllOrNothing
PROPERTIES
  LettersReturn
  ProgramsEnd
