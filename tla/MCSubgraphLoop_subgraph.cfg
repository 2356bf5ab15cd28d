SPECIFICATION SubFairSpec
CONSTANTS
  b = b  s = s  c = c  h = h  i = i  j = j  k = k
  NoNode = NoNode
  Nodes <- OuterNodes
  StartSets <- OuterStart
  Edges <- OuterEdges
  WaitingEdges = {}
  Branches <- None
  Gotos <- None
  Listed <- None
  Asks <- Once
  Failing = {}
  ErrorHandler <- OuterHandlers
  Needs <- None
  Cached = {}
  InterruptBefore = {c}
  InterruptAfter = {}
  UpdateAs = {}
  RecursionLimit = 4
  MaxSendDepth = 2
  Crashes = TRUE
  MaxTurns = 2
  MaxCalls = 4
  SubNode = s
  SubNodes <- InnerNodes
  SubStartSets <- InnerStart
  SubEdges <- InnerEdges
  SubAsks <- InnerAsks
  SubRecursionLimit = 2
  OnlyAnswers = TRUE
INVARIANTS SubTypeOK QuestionReachesInner InnerWorkKept
PROPERTIES DoneMeansWhole SubInvocationEnds
