SPECIFICATION Spec
CONSTANTS
  c1 = c1
  c2 = c2
  Clients = {c1, c2}
  Threads = {t1, t2}
  Main = Main
  Jobs = {}
  Fds = {1, 2}
  PipeLimit = 4
  Backlog = 1
  InboxLimit = 1
  Sent <- SentBad
  Closing = {}
  Resetting = {}
  None = None
CHECK_DEADLOCK FALSE
INVARIANT WaitsForChild
