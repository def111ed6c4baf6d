SPECIFICATION Spec
CONSTANTS
  Letters = {x, y}
  Rest = x
  max = 4
  Junk <- MCJunk
  StreamLimit = 6
INVARIANTS TypeOK LinesAsSent TokensAreWords TokensFit
CHECK_DEADLOCK FALSE
