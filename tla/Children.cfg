SPECIFICATION Spec
CONSTANTS
  Server = {"files", "notion"}
  Remote = {"notion"}
  ServerStart = {1, 2}
  Call = {1}
  File = {"a", "b"}
  Request = {1, 2, 3}
  Chat = {"c"}
  RunId = {"k1", "k2"}
  Run = {1, 2}
  Waiter = {1}
  MaxRunning = 1
  AppWindow = {"w1", "w2"}
  Terminal = {1, 2, 3}
  MaxSessions = 2
  ChatModel <- ThreeModels
  ChatStart = {1, 2}
  ChatFits <- MCFits
  ChatRoomy <- MCFits
  ChatIncomplete = {"split"}
  ChatExtras <- MCExtras
  ChatForeign = {"small"}
  Attempt = {1, 2, 3}
  Job = {1, 2}
  ImageModel = {"sd"}
  MaxProc = 4
INVARIANTS
  ChildrenReachable
  EndsAreTrue
  WaitsAreAlive
PROPERTIES
  
  ToldOfOwnEnds
  
CHECK_DEADLOCK FALSE
