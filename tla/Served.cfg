SPECIFICATION FairSpec
CONSTANTS
  f1 = f1  f2 = f2  c1 = c1  c2 = c2  w1 = w1  w2 = w2  none = none
  Fds = {f1}
  Slots = {f1}
  Conns = {c1, c2}
  Workers = {w1}
  Answer <- MCFileThenForbidden
  KeepAlive = {1, 2}
  Chunks = 2
  MaxAhead <- MCWaiting
  Fragmented = {c1}
  Leave = {"rst"}
  NoConn = none
PROPERTIES Served StopsEventually
