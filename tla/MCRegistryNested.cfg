SPECIFICATION Spec
CONSTANTS
  Tasks = {a, b}
  Mms = {m1}
  Admins = {a}
  VPid <- MCNestedVPid
  NegativePid = NegativePid
  NoTask = NoTask
  Freed = Freed
  NoMM = NoMM
  SizeMod = 8
  PageSize = 1
  LimitArgs = {1, 2}
  SizeArgs = {1, 7}
  EntryArgs = {1}
  MaxVm = 2
INVARIANTS MutexDiscipline
PROPERTIES OnlyAdminsWrite CallsReturn
