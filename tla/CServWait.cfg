SPECIFICATION FairSpec
CONSTANTS
  Conns = {c1, c2}
  Parent = Parent
  MaxFds = 2
  Backlog = 1
  InboxLimit = 1
  None = None
PROPERTIES AcceptsWhileServing
CHECK_DEADLOCK FALSE
