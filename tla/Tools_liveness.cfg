SPECIFICATION FairToolsSpec
CONSTANTS
  Parts = {"mcp", "file", "channel", "exec", "files", "host", "worker"}
  \* mcp
  McpCalls = {m1, m2}
  NoMcpCall = NoMcpCall
  MaxConnections = 1
  MaxEdits = 0
  ClosesWhileOpening = FALSE
  NotifiesWhileListing = FALSE
  \* file
  f1 = f1  f2 = f2  f3 = f3  t1 = t1  t2 = t2
  FileCalls = {f1, f2, f3}
  Base = Base
  Foreign = Foreign
  Tasks2 = {t1, t2}
  Batch <- MCBatch
  Plans <- JobPlans
  MaxForeign = 0
  MaxSignals = 1
  \* channel
  WindowSize = 2
  QueueSize = 2
  MaxOutput = 4
  MaxBreaks = 2
  \* exec
  MaxChunks = 1
  \* files
  Dirs = {dir1}
  Windows = {win1}
  Names = {1, 2}
  SnapshotLimit = 1
  PageSize = 1
  MaxTouches = 1
  MaxUpsets = 1
  MaxSnapshots = 7
  \* host
  HostCalls = {h1}
  MaxLinks = 2
  \* worker
  WorkerModes = {"session", "exec"}
  WorkerFaults = {}
  WorkerCommands = {"resize"}
  Scripts <- MCText
  WriteQueue = 1
  MaxFrames = 0
  ForksWhileScanned = FALSE
PROPERTIES
  ToolsComeToRest
CHECK_DEADLOCK FALSE
