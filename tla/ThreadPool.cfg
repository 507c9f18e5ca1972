SPECIFICATION FairSpec
CONSTANTS
  Clients = {"test", "one_ver", "all_in_one"}
  StartAt = 1
  NumTasks = 4
  ThreadsNum = 3
  Data = {1, 2, 3, 4}
  Nodes <- Addresses
  Rounds = 1
INVARIANTS
  TypeOK
  ListIntact
  QueueExclusive
  EveryTaskRunOnce
  PictureOwn
PROPERTIES
  FirstInFirstOut
  LeaveOnlyWhenDone
  EndPoolReturns
