CONSTANTS
  Conns = {c1, c2}
  Fds = {4, 5}
  ThreadNum = 2
  Workers = {w1}
  MaxMsgs = 1
  None = None
SYMMETRY Symmetry
SPECIFICATION Spec
INVARIANT SendReturns
