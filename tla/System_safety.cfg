SPECIFICATION SystemSpec
CONSTANTS
  Parts = {"deletion", "team", "stream", "handoff", "context", "restart", "background"}
  \* deletion
  rt = rt  ch = ch  fk = fk  nt = nt  wk = wk  d1 = d1  d2 = d2
  Tasks = {rt, ch}
  NoTask = nt
  Workspace = wk
  Owner <- SmallOwner
  Born = {rt}
  Deleters = {d1, d2}
  MaxCommands = 1
  \* team
  NoStop = NoStop
  MaxRounds = 1
  MaxTalk = 1
  ActorFails = TRUE
  \* stream
  Inputs = {i}
  None = None
  FrameLimit = 2
  MaxText = 2
  MaxReruns = 1
  MaxAttached = 2
  MaxOffers = 2
  RerunWaits = TRUE
  \* handoff
  Sessions = {s1}
  HandoffCalls = {h1, h2}
  NoSession = NoSession
  NoCall = NoCall
  MaxActive = 2
  MaxTurns = 2
  MaxStops = 1
  EarlySettle = TRUE
  StopsReplay = FALSE
  \* restart
  MaxCrashes = 2
  MaxInputs = 3
  CrashInRecovery = FALSE
  \* context
  ToolCalls = {k1}
  NoToolCall = NoToolCall
  MaxRuns = 3
  MaxRows = 10
  MaxMessages = 3
  SettleIsAtomic = TRUE
  \* background
  c1 = c1  c2 = c2
  Calls = {c1}
  Kind <- OneTeam
  MaxRun = 2
  Faults = {"settle"}
INVARIANTS
  SystemTypeOK
  OneLoopPerTask
  TeamIsSound
  ScreenIsTrue
  HandoffIsSound
  ContextIsSound
  RestartIsSound
CHECK_DEADLOCK FALSE
