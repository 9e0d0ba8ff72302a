SPECIFICATION FairSpec
CONSTANTS
  Threads = {s, t}
  NoThread = NoThread
  NPages = 6
  AddressPages = 16
  mmap_min_addr = 1
  mmap_base = 5
  TASK_UNMAPPED_BASE = 2
  stack_guard_gap = 2
  RLIMIT_STACK = 4
  RLIMIT_AS = 4
  Stack <- MCStack
  FaultAddrs = {2, 3, 4}
  Lens = {1, 2}
INVARIANTS TypeOK StackIsGuarded UsageNeverUnderstated FoundAreaCoversPage UnmappedRangeStaysFree SearchIsRight
PROPERTIES FaultsEnd
