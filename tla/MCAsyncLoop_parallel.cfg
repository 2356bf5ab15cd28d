SPECIFICATION AsyncFairSpec
CONSTANTS
  a = a  b = b  c = c  d = d  e = e  g = g  h = h  s = s
  NoNode = NoNode
  Nodes <- ParallelNodes
  StartSets <- ParallelSets
  StartRoutes <- ParallelRoutes
  Edges <- ParallelEdges
  WaitingEdges <- ParallelJoins
  Branches <- ParallelBranches
  Early <- ParallelBranches
  Gotos <- None
  Listed <- None
  Asks <- ParallelAsks
  Failing = {b, e, s}
  ErrorHandler <- ParallelHandlers
  Needs <- ParallelNeeds
  Cached = {b}
  InterruptBefore = {c}
  InterruptAfter = {d}
  UpdateAs = {}
  RecursionLimit = 3
  MaxSendDepth = 1
  MaxConcurrency = 2
  Crashes = TRUE
  MaxTurns = 1
  MaxCalls = 6
INVARIANTS
  AsyncTypeOK
  RecordsPerArgument
PROPERTIES
  AskersStayNext
  AsyncImplementsThread
  AsyncInvocationEnds
