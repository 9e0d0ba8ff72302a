SPECIFICATION Spec
CONSTANTS
  Tasks = {a, b}
  Mms = {m1}
  Admins = {a}
  VPid <- MCRootVPid
  NegativePid = NegativePid
  NoTask = NoTask
  Freed = Freed
  NoMM = NoMM
  SizeMod = 8
  PageSize = 1
  LimitArgs = {1}
  SizeArgs = {1}
  EntryArgs = {1}
  MaxVm = 2
PROPERTIES AddedLimitCoversUsage
