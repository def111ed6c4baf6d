SPECIFICATION Spec
CONSTANTS
  Clients = {c1, c2}
  MaxClients = 3
  FdLimit = 2
  Fds <- MCFds
  Backlog = 2
  InboxLimit = 1
  None = None
INVARIANTS AnswersAsker
CHECK_DEADLOCK FALSE
