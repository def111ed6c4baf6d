SPECIFICATION Spec
CONSTANTS
  Clients = {c1, c2, c3}
  Closers = {}
  Files = {f, d}
  Unopenable = {d}
  FdLimit = 4
  InodeLimit = 3
  RecordLimit = 2
  Fds <- MCFds
  Inodes <- MCInodes
  None = None
INVARIANTS OkTrue
PROPERTIES RegistrySpec
CHECK_DEADLOCK FALSE
