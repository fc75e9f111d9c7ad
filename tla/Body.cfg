SPECIFICATION Spec
CONSTANTS
  Streams <- MCBodies
  BufSize = 14
  HeadLen = 2
  PageLen = 1
  Sizes = {0, 2}
CHECK_DEADLOCK FALSE
INVARIANTS FoundAsSent
