CONSTANTS
  Conns = {c1, c2}
  Fds = {4}
  ThreadNum = 1
  Workers = {w1}
  MaxMsgs = 1
  None = None
SYMMETRY Symmetry
SPECIFICATION Spec
INVARIANTS TypeOK MapsAgree SweepFinds ServedIsHeld
PROPERTY RemovesOnlyItsOwn
VIEW View
