SPECIFICATION Spec
CONSTANTS
  f1 = f1  f2 = f2  c1 = c1  c2 = c2  w1 = w1  w2 = w2  none = none
  Fds = {f1}
  Slots = {f1}
  Conns = {c1}
  Workers = {w1}
  Answer <- MCOneFile
  KeepAlive = {1}
  Chunks = 1
  MaxAhead <- MCWaiting
  Fragmented = {c1}
  Leave = {"fin"}
  NoConn = none
PROPERTIES HalfCloseKeepsAnswer
