SPECIFICATION Spec
CONSTANTS
  f1 = f1  f2 = f2
  Fds = {f1, f2}
  Timeout = 2
  TPS = 3
  MaxClock = 24
  MaxNodes = 5
  MaxWork = 1
  Never = Never
SYMMETRY MCSymmetry
INVARIANTS ClosedInTime
