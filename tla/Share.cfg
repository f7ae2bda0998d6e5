CONSTANTS
  c1 = c1
  c2 = c2
  Conns = {c1, c2}
  MaxSessions = 3
  MaxData = 1
  MaxDrops = 1
  None = None
SPECIFICATION Spec
SYMMETRY Symmetry
CONSTRAINT OrderlyOnly
INVARIANTS
  PipedInOrder
  EndsTogether
CHECK_DEADLOCK FALSE
