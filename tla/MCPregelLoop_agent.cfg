SPECIFICATION FairSpec
CONSTANTS
  a = a  b = b  c = c  d = d  e = e  h = h  m = m  q = q  t = t
  NoNode = NoNode
  Nodes <- AgentNodes
  StartSets <- AgentStart
  Edges <- AgentEdges
  WaitingEdges = {}
  Branches <- AgentBranches
  Gotos <- AgentGotos
  Listed <- AgentListed
  Asks <- AgentAsks
  Failing = {t}
  ErrorHandler <- AgentHandlers
  Needs <- AgentNeeds
  Cached = {t}
  InterruptBefore = {t}
  InterruptAfter = {}
  UpdateAs = {m}
  RecursionLimit = 2
  MaxSendDepth = 2
  Crashes = TRUE
  MaxTurns = 2
  MaxCalls = 3
INVARIANTS
  StepsWithinLimit
PROPERTIES
  UpdatesKept
  ResumeKeepsStep
  InvocationEnds
