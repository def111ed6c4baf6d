SPECIFICATION Spec
CONSTANTS
  c1 = c1
  c2 = c2
  Clients = {c1, c2}
  Threads = {t1, t2}
  Main = Main
  Jobs = {j1}
  Fds = {1, 2}
  PipeLimit = 2
  Backlog = 1
  InboxLimit = 1
  Sent <- SentMix
  Closing = {c2}
  Resetting = {c1}
  None = None
INVARIANTS OneThreadEach OwnVerdict
CHECK_DEADLOCK FALSE
CONSTRAINT Bounded
SYMMETRY Alike
