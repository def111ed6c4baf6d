SPECIFICATION FairSpec
CONSTANTS
  Conns = {k1, k2}
  Backlog = 1
  NoConn = NoConn
  Shells = {s1, s2}
  Spares = {}
  Many = 2
  One = 2
  MaxAsked <- MCMaxAsked
  Commands = {"request", "keepalive", "close", "local", "more", "exit"}
  Ample = {s1}
  Few = {"request", "exit"}
  Typed <- MCTyped
  NoProc = NoProc
PROPERTIES PromptReturns QueueServed
