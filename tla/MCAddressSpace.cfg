SPECIFICATION Spec
CONSTANTS
  NPages = 3
  MapCounts = {1, 9}
  NumAnons = 2
  file = file
  device = device
  NoFile = NoFile
  Special = Special
  Unmapped = Unmapped
  Files <- MCFiles
  Closers <- MCClosers
  Kinds <- MCKinds
  Offsets = {0}
  MaxOffset = 3
  Written = {NoFile}
  MaxFaulted = 1
INVARIANTS AreasAreDisjoint CountsMatchAreas AnonPagesAreFound OpensMatchCloses
PROPERTIES MapCountIsLimited ActsAsPageMap
CONSTRAINT FewAreas
