SPECIFICATION Spec
CONSTANTS
  Bases = {"a", "b"}
  MaxNumber = 1
  Annotations <- FiveSchemas
  StateSchema = "State"
  InputSchemas = {"Input"}
  OutputSchemas = {"Notes"}
  NodeSchemas = {"State", "Notes", "Retype", "Clash"}
  Ends <- OneEnd
  ErrorHandlers <- OneHandler
  Listings <- NoneOrOne
  MaxCalls = 4
INVARIANTS
  ChannelsAsDeclared
PROPERTIES
  CompiledIsWhole
CHECK_DEADLOCK FALSE
