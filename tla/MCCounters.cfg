SPECIFICATION Spec
CONSTANTS
  Tasks = {t1, t2}
  t1 = t1
  t2 = t2
  Numbers = {0, 56, 57, 552}
  Statistics = 552
  MaxCalls = 3
  MaxArrays = 3
  MaxFailures = 1
SYMMETRY TaskSymmetry
INVARIANTS NeverOvercounts SerialCallsAreCounted NullIsNeverUsed LeakIsBounded
