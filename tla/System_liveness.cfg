SPECIFICATION FairSystemSpec
CONSTANTS
  Parts = {"deletion", "team", "handoff", "restart", "background"}
  \* deletion
  rt = rt  ch = ch  fk = fk  nt = nt  wk = wk  d1 = d1  d2 = d2
  Tasks = {rt, ch, fk}
  NoTask = nt
  Workspace = wk
  Owner <- MCOwner
  Born = {rt}
  Deleters = {d1}
  MaxCommands = 1
  \* team
  NoStop = NoStop
  MaxRounds = 1
  MaxTalk = 0
  ActorFails = FALSE
  \* stream
  Inputs = {i}
  None = None
  FrameLimit = 2
  MaxText = 2
  MaxReruns = 1
  MaxAttached = 2
  MaxOffers = 2
  RerunWaits = TRUE
  \* handoff
  Sessions = {s1}
  HandoffCalls = {h1}
  NoSession = NoSession
  NoCall = NoCall
  MaxActive = 2
  MaxTurns = 1
  MaxStops = 1
  EarlySettle = FALSE
  StopsReplay = FALSE
  \* restart
  MaxCrashes = 2
  MaxInputs = 1
  CrashInRecovery = TRUE
  \* context
  ToolCalls = {k1}
  NoToolCall = NoToolCall
  MaxRuns = 3
  MaxRows = 10
  MaxMessages = 1
  SettleIsAtomic = TRUE
  \* background
  c1 = c1  c2 = c2
  Calls = {c1}
  Kind <- OneTerminal
  MaxRun = 1
  Faults = {}
INVARIANTS
  TreeIsSound
PROPERTIES
  SystemComesToRest
CHECK_DEADLOCK FALSE
