SPECIFICATION Spec
CONSTANTS
  f1 = f1  f2 = f2
  Fds = {f1, f2}
  Timeout = 2
  TPS = 2
  MaxClock = 12
  MaxNodes = 3
  MaxWork = 1
  Never = Never
SYMMETRY MCSymmetry
INVARIANTS TimerFdArmed OverdueOnlyWhileBusy
