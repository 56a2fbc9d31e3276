CONSTANTS
  ScullDevs  = {s0, s1}
  PipeDevs   = {p0}
  AccessDevs = {priv}
  Priv       = priv
  Procs      = {a, b}
  None       = None
  Gone       = Gone
  Blocks     = {b1, b2}
  Loops      = 2
  Wrap       = 8
  Delay      = 3
  Works      = {work}
  MaxProc    = 2
  Signalled  = {a}
  Capable    = {a, b}
  Values     = {given}
  Quantum0   = quantum0
  Qset0      = qset0
  QuantumDefault = quantum
  QsetDefault    = qset
  Zero       = zero
  N          = 2
  Lists      = {l1, l2}
  MaxCount   = 3
  Sleepers   = {a, b, c}
  Waiters    = {a, b, c, d}
  MaxDone    = 4
  Devs03     = {d1, d2}
  Size       = 2
  UInt       = 4
  ULong      = 1024
  Sizes      = {1, 6}
  Ahead      = {1, 2, 5}
  Back       = {2}
  MaxPos     = 4
  Base       = 16
  Window     = 8
  Efault     = 3
  Largest    = 16
  MaxBytes   = 5
  Chunk      = 2
  MaxAvail   = 5
SPECIFICATION PartsSpec
INVARIANTS
  PartsTypeOK
  NothingLeft
  InUseStays
  StrayOnlyAccess
  DumpsExplained
  OutlivesExplained
  AloneUndisturbed
  OldValueKept
  ScansOwnList
  EachOnce
  FlagNoticed
  CompletionsCovered
  OnlyTheDeadBlock
  CopiesInside
  PositionExplained
  TransfersExplained
  DataNoticed
PROPERTIES
  DelayHonoured
  CallsEnd
CHECK_DEADLOCK FALSE
