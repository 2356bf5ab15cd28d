SPECIFICATION Spec
CONSTANTS
  c1 = c1  c2 = c2
  Nobody = Nobody
  Clients <- TwoClients
  MaxPerThread = 2
  Limits = {0, 1, 2}
  TimeTravel = TRUE
  MaxStamps = 3
SYMMETRY ClientSymmetry
INVARIANTS StoreTypeOK PagesCoverHistory ParentsAreHonest QuestionsKept FreshCallsLoseNothing
PROPERTY HeadMovesForward
