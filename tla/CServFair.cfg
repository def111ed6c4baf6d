SPECIFICATION FairSpec
CONSTANTS
  Conns = {c1, c2}
  Parent = Parent
  MaxFds = 2
  Backlog = 2
  InboxLimit = 1
  None = None
INVARIANTS TypeOK ZombieNoticed Holdings Attended
PROPERTIES Reaped QueueServed
CHECK_DEADLOCK FALSE
