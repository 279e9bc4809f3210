CONSTANTS
  Conns = {c1, c2}
  Fds = {4}
  ThreadNum = 1
  Workers = {}
  MaxMsgs = 1
  None = None
SYMMETRY Symmetry
SPECIFICATION Spec
INVARIANT NoDangling
