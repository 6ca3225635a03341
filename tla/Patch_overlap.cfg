SPECIFICATION ViewsSpec
CONSTANTS
  Parts = {"patch"}
  \* projection
  CallIds = {k1, k2}
  NoTool = NoTool
  Said = {i1}
  Banned = {k2}
  Window = 2
  MostRuns = 2
  MaxRequests = 2
  LosesBanned = FALSE
  FailsWhileAsked = FALSE
  \* catalog
  MaxDocuments = 3
  MaxDrops = 1
  DropsWhileEdited = FALSE
  LoadsWhileUpdated = FALSE
  SyncFails = FALSE
  ReadFails = FALSE
  EditsUnseen = FALSE
  \* patch
  MaxLines = 3
  MaxLineEdits = 1
  MaxShift = 1
  Overlaps = TRUE
  Corners = FALSE
  Words <- MCWords
  \* paging
  PageLimit = 2
  Budget = 6
  ChunkBytes = 3
  FullBytes = 4
  MaxLength = 6
  Chars = {1, 2}
  \* input
  WriteCalls = {w1, w2}
  InputSize = 2
  MaxTyped = 3
  MaxSizes = 2
  MaxTries = 1
  Interferes = FALSE
  AcksAreLate = FALSE
  ResizesAtStart = FALSE
  \* worker
  WorkerModes = {"session", "exec"}
  WorkerFaults = {}
  WorkerCommands = {"write", "resize", "shutdown"}
  Scripts <- MCScripts
  WriteQueue = 1
  MaxFrames = 1
  ForksWhileScanned = FALSE
  \* message
  FileIds = {f1}
  OddIds = {}
  TrickyIds = {f1}
  Uploads = {u1, u2}
  MaxImages = 2
  MaxBytes = 1
  MaxEdits = 1
  \* graph
  MaxRounds = 3
  MoreRuns = 0
  \* board, handoffs, terminals
  LiveCalls = {"old", "new"}
  PastCalls <- MCPast
  Terminals = {"main", "other"}
  MaxEndedJobs = 1
  MaxEndedTerminals = 1
  SettlesUnseen = FALSE
INVARIANTS
  DiffIsApplied
CHECK_DEADLOCK FALSE
