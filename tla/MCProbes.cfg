SPECIFICATION MCSpec
CONSTANTS
  d1 = d1
  d2 = d2
  Disks <- MCDisks
  Usable = {d1, d2}
  Scratch = d2
  Cap = 3
  AutoFlush = 2
  BlockCells = 2
  MaxBytes = 7
  MaxBoots = 2
  None = None
  MaxProbes = 3
  Leases <- MCLeases
  MaxEchoes = 2
  QueueSize = 3
  Strides = {4, 5, 6}
  MaxGrowth = 5
  MaxLog = 3
  Buses <- MCBuses
  StubFiles <- MCStubFiles
  StubChains <- MCChains
  MaxNodes = 3
  HeaderSize = 2
  PageSize = 4
  Word = 32
  FreeMemory = 3
  Runs = {1, 2}
  Packages <- MCPackages
  WantMachine = 1
  SecondLeg = {2}
INVARIANTS FlushedIsRecovered LossBounded VerdictEarned DescriptorsOwned MapIsWhole ReplayTells OneDriver StubStartsWhole TagIsWhole
PROPERTY AllRun
CHECK_DEADLOCK FALSE
