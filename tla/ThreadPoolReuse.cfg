SPECIFICATION Spec
CONSTANTS
  Clients = {"test"}
  StartAt = 0
  NumTasks = 1
  ThreadsNum = 1
  Data = {1}
  Nodes <- Addresses
  Rounds = 2
INVARIANTS
  NoUseAfterFree
