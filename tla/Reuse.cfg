SPECIFICATION CalmSpec
CONSTANTS
  f1 = f1  f2 = f2  c1 = c1  c2 = c2  w1 = w1  w2 = w2  none = none
  Fds = {f1, f2}
  Slots = {f1}
  Conns = {c1, c2}
  Workers = {w1, w2}
  Answer <- MCFileThenNotFound
  KeepAlive = {1, 2}
  Chunks = 2
  MaxAhead <- MCOneAhead
  Fragmented = {c2}
  Leave = {"fin", "rst"}
  NoConn = none
SYMMETRY MCWorkerSymmetry
INVARIANTS TypeOK NoForgottenConnection NoStrandedData SocketHeldOnce TablesAgree NeverDeaf NoLostWakeup CalmWork CalmAnswers CalmFiles
PROPERTIES CalmSlots
