SPECIFICATION ToolsSpec
CONSTANTS
  Parts = {"mcp", "file", "channel", "exec", "files", "host"}
  \* mcp
  McpCalls = {m1, m2}
  NoMcpCall = NoMcpCall
  MaxConnections = 2
  MaxEdits = 1
  ClosesWhileOpening = FALSE
  NotifiesWhileListing = FALSE
  \* file
  f1 = f1  f2 = f2  f3 = f3  t1 = t1  t2 = t2
  FileCalls = {f1, f2, f3}
  Base = Base
  Foreign = Foreign
  Tasks2 = {t1, t2}
  Batch <- MCBatch
  Plans <- MCPlans
  MaxForeign = 1
  MaxSignals = 1
  \* channel
  WindowSize = 2
  QueueSize = 2
  MaxOutput = 5
  MaxBreaks = 2
  \* exec
  MaxChunks = 3
  \* files
  Dirs = {dir1}
  Windows = {win1}
  Names = {1, 2}
  SnapshotLimit = 1
  PageSize = 1
  MaxTouches = 1
  MaxUpsets = 2
  MaxSnapshots = 9
  \* host
  HostCalls = {h1, h2}
  MaxLinks = 2
  \* worker
  WorkerModes = {"session", "exec"}
  WorkerFaults = {}
  WorkerCommands = {"write"}
  Scripts <- MCText
  WriteQueue = 1
  MaxFrames = 0
  ForksWhileScanned = FALSE
INVARIANTS
  ToolsTypeOK
  ConnectionsAreSound
  ReportIsTrue
  TerminalIsTrue
  PagesAreOneScan
  HostIsSound
PROPERTIES
  OwnEditsSurvive
SYMMETRY ToolsSymmetry
CHECK_DEADLOCK FALSE
