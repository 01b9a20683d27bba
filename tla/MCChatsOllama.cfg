SPECIFICATION FairChatSpec
CONSTANTS
  u1 = u1
  c1 = c1
  r1 = r1
  r2 = r2
  Users = {u1}
  ChatIds = {c1}
  Requests = {r1, r2}
  LLMProvider = "ollama"
  Reachable = {"ollama"}
  Models = {"m1"}
  ModelNames <- ModelsOfEnv
  Query <- SameQuery
  Overrides = {"none"}
  Updates <- SomeUpdates
  HistoryLimit = 3
  MaxHistory = 1
  MaxRetries = 1
  MaxPieces = 2
  NoUser = NoUser
  NoChat = NoChat
CHECK_DEADLOCK FALSE
PROPERTIES
  RequestsEnd
