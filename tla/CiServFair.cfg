SPECIFICATION FairSpec
CONSTANTS
  Clients = {c1, c2, c3}
  MaxClients = 3
  FdLimit = 3
  Fds <- MCFds
  Backlog = 1
  InboxLimit = 1
  None = None
INVARIANTS TypeOK EntriesSound QueuedOrServed
PROPERTIES FirstServed ArrivalOrder
CHECK_DEADLOCK FALSE
