SPECIFICATION Spec
CONSTANTS
  f1 = f1  f2 = f2
  Fds = {f1, f2}
  Timeout = 2
  MaxTime = 3
  MaxSeq = 2
  Never = Never
INVARIANTS NodeInHeap NextExpireNotLate
PROPERTIES ImplementsIdleTimer
