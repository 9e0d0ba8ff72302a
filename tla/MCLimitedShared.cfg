SPECIFICATION SafetySpec
CONSTANTS
  Tasks = {a, b}
  CallTasks = {b}
  Mms = {m1}
  Admins = {b}
  VPid <- MCRootVPid
  NegativePid = NegativePid
  NoTask = NoTask
  Freed = Freed
  NoMM = NoMM
  SizeMod = 16
  PageSize = 2
  LimitArgs = {4}
  SizeArgs = {0,1,2,3,4,5,6,7,8,9,10,11,12,13,14,15}
  EntryArgs = {1}
  MaxVm = 3
  MaxStack = 2
  BrkArgs = {0, 1, 2, 3}
  MmapLens = {1, 15}
INVARIANTS TypeOK AccountingConsistent NoLockInversion
PROPERTIES BrkCommitsWhatWasChecked DrivesRegistry
