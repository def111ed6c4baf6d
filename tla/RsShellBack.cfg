SPECIFICATION Spec
CONSTANTS
  Conns = {k1, k2}
  Backlog = 1
  NoConn = NoConn
  Shells = {s1}
  Spares = {b1, b2}
  Many = 2
  One = 0
  MaxAsked <- MCMaxAsked
  Commands = {"request", "keepalive", "background", "job", "exit"}
  Ample = {s1}
  Few = {"exit"}
  Typed <- MCTyped
  NoProc = NoProc
INVARIANTS TypeOK QueuedOrServed InStep OwnAnswerOnly
PROPERTIES NoneForgotten
SYMMETRY Alike
