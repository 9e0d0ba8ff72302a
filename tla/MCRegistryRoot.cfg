SPECIFICATION Spec
CONSTANTS
  Tasks = {a, b}
  Mms = {m1}
  Admins = {a, b}
  VPid <- MCRootVPid
  NegativePid = NegativePid
  NoTask = NoTask
  Freed = Freed
  NoMM = NoMM
  SizeMod = 8
  PageSize = 1
  LimitArgs = {1, 7}
  SizeArgs = {1, 7}
  EntryArgs = {0, 1, 2}
  MaxVm = 2
INVARIANTS TypeOK UniquePids
PROPERTIES ActsAsLedger
