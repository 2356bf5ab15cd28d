SPECIFICATION FairSpec
CONSTANTS
  a = a  b = b  c = c  d = d  e = e  h = h  m = m  q = q  t = t
  NoNode = NoNode
  Nodes <- MultiStepNodes
  StartSets <- MultiStepStart
  Edges = {}
  WaitingEdges = {}
  Branches <- None
  Gotos <- None
  Listed <- None
  Asks <- MultiStepAsks
  Failing = {}
  ErrorHandler <- NoHandlers
  Needs <- None
  Cached = {}
  InterruptBefore = {}
  InterruptAfter = {}
  UpdateAs = {}
  RecursionLimit = 3
  MaxSendDepth = 1
  Crashes = FALSE
  MaxTurns = 1
  MaxCalls = 3
PROPERTY
  EachResumeAdvances
