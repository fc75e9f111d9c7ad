SPECIFICATION FairSpec
CONSTANTS
  w1 = w1  w2 = w2
  Writers = {w1, w2}
  MaxLines = 3
  Muted = {2}
  Capacity = 2
  Days = 3
  Month = 2
  NoFile = NoFile
  Stderr = Stderr
INVARIANTS NothingLostInMemory
PROPERTIES ImplementsLogFile ReachesDisk
