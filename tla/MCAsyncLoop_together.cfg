SPECIFICATION AsyncSpec
CONSTANTS
  a = a  b = b  c = c  d = d  e = e  g = g  h = h  s = s
  NoNode = NoNode
  Nodes <- QuestionNodes
  StartSets <- QuestionSets
  StartRoutes <- QuestionRoutes
  Edges = {}
  WaitingEdges = {}
  Branches <- None
  Early <- None
  Gotos <- None
  Listed <- None
  Asks <- QuestionAsks
  Failing = {}
  ErrorHandler <- NoHandlers
  Needs <- None
  Cached = {}
  InterruptBefore = {}
  InterruptAfter = {}
  UpdateAs = {}
  RecursionLimit = 3
  MaxSendDepth = 1
  MaxConcurrency = 2
  Crashes = TRUE
  MaxTurns = 1
  MaxCalls = 2
PROPERTIES
  AllQuestionsShown
