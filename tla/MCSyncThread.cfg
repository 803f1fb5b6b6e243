CONSTANTS
  p1 = p1  p2 = p2  p3 = p3
  Producers = {p1, p2, p3}
  nitems = 4
SPECIFICATION FairSpec
INVARIANTS TypeOK ItemInPlace NoLostWakeup CountsAddUp
PROPERTY Termination
