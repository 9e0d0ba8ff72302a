SPECIFICATION FairSpec
CONSTANTS
  m1 = m1
  m2 = m2
  file = file
  huge = huge
  r1 = r1
  r2 = r2
  Takers = {s, t}
  Others = {u, v}
  NoThread = NoThread
  NoFile = NoFile
  Mms = {m1, m2}
  Files = {file, huge}
  Roots = {r1, r2}
  Vmas <- MCVmas
INVARIANTS NobodySeesOurBit BitsStayAsTested AllLocksAreHeld NothingIsLeft
PROPERTIES CallsEnd
