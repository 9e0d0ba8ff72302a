SPECIFICATION FairSpec
CONSTANTS
  A = A
  B = B
  C = C
  w1 = w1
  w2 = w2
  w3 = w3
  Waiters <- MCWaiters
  Base = 3
  None = None
INVARIANTS OneTurn TestsPass
 
CHECK_DEADLOCK FALSE
