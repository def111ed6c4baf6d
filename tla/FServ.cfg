SPECIFICATION FairSpec
CONSTANTS
  Clients = {c1, c2}
  Closers = {c1}
  Files = {f, d}
  Unopenable = {d}
  FdLimit = 4
  InodeLimit = 3
  RecordLimit = 1
  Fds <- MCFds
  Inodes <- MCInodes
  None = None
CONSTRAINT OneMishap
INVARIANTS RecordsTrue NoLeak AnswersTrue CacheInsideClose TypeOK OpensExclude LockHeldInside
PROPERTIES RegistryStep Answered
CHECK_DEADLOCK FALSE
