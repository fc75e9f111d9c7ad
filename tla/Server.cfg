SPECIFICATION FairSpec
CONSTANTS
  NumSubs = 2
  Wrap = 2
  Clients = 2
  MaxWork = 1
  Workers = {w1}
  Main = Main
  Fragile <- MCFragile
  None = None
CHECK_DEADLOCK FALSE
INVARIANTS TypeOK LifetimesNest SocketsInOnePlace Balanced NobodyForgottenInBacklog
PROPERTIES Delivered StopCompletes
