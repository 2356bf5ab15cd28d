SPECIFICATION Spec
CONSTANTS
  a = a  b = b  c = c  d = d  e = e  h = h  m = m  q = q  t = t
  NoNode = NoNode
  Nodes <- FanInNodes
  StartSets <- FanInStart
  Edges = {}
  WaitingEdges <- ReviewWaiting
  Branches <- None
  Gotos <- None
  Listed <- None
  Asks <- Once
  Failing = {}
  ErrorHandler <- NoHandlers
  Needs <- None
  Cached = {}
  InterruptBefore = {}
  InterruptAfter = {}
  UpdateAs = {}
  RecursionLimit = 3
  MaxSendDepth = 1
  Crashes = FALSE
  MaxTurns = 2
  MaxCalls = 3
INVARIANT
  JoinRunsEveryTurn
