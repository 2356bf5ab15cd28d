SPECIFICATION Spec
CONSTANTS
  a = a  b = b  c = c  d = d  e = e  h = h  m = m  q = q  t = t
  NoNode = NoNode
  Nodes <- ReviewNodes
  StartSets <- ReviewStart
  Edges <- ReviewEdges
  WaitingEdges <- ReviewWaiting
  Branches <- ReviewBranches
  Gotos <- None
  Listed <- None
  Asks <- ReviewAsks
  Failing = {a, b}
  ErrorHandler <- ReviewHandlers
  Needs <- None
  Cached = {}
  InterruptBefore <- ReviewBefore
  InterruptAfter <- ReviewAfter
  UpdateAs = {}
  RecursionLimit = 3
  MaxSendDepth = 1
  Crashes = TRUE
  MaxTurns = 1
  MaxCalls = 7
INVARIANTS
  TypeOK
  FanInWaits
  NothingLost
  EffectsOnce
  InterruptedNodeIsNext
PROPERTIES
  ListedWasOffered
  ImplementsThread
